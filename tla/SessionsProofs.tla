--------------------------- MODULE SessionsProofs ---------------------------
(***************************************************************************)
(* The safety properties of module Sessions, for any number of requests,   *)
(* sessions and ticks.                                                     *)
(***************************************************************************)
EXTENDS Sessions, TLAPS, SequenceTheorems

USE BoundsAssumption, NamesAssumption

-----------------------------------------------------------------------------
(* Types *)

\* run registers a session in this order.
LEMMA FollowingSteps ==
    /\ Following("put") = "attach"
    /\ Following("attach") = "touch"
    /\ Following("touch") = "sweep"
<1>1. \A next \in Steps :
        /\ (\E n \in 1 .. 3 : RunOrder[n] = "put" /\ RunOrder[n + 1] = next)
              <=> next = "attach"
        /\ (\E n \in 1 .. 3 : RunOrder[n] = "attach" /\ RunOrder[n + 1] = next)
              <=> next = "touch"
        /\ (\E n \in 1 .. 3 : RunOrder[n] = "touch" /\ RunOrder[n + 1] = next)
              <=> next = "sweep"
  BY DEF RunOrder, Steps
<1> QED  BY <1>1 DEF Following, Steps

\* The record of a request.
RequestType ==
    [at : Steps, kind : {None, "run", "talk"}, id : Ids \cup {None},
     get : BOOLEAN, found : BOOLEAN, now : 0 .. MaxClock,
     todo : SUBSET Ids, victim : Ids \cup {None},
     began : 0 .. MaxClock,
     reply : Requests \cup {None, "init", "gone", "error"}]

OthersTyped ==
    /\ clock \in 0 .. MaxClock
    /\ controllers \subseteq Ids
    /\ lastCallTime \in [Ids -> {Never} \cup 0 .. MaxClock]
    /\ proc \in [Ids -> {"none", "starting", "alive", "dead"}]
    /\ finish \in [Ids -> {"waiting", "reading", "read", "removed"}]
    /\ attached \subseteq Ids
    /\ opened \subseteq Ids
    /\ stdin \in [Ids -> Seq(Requests)]
    /\ stdout \in [Ids -> Seq(Requests \cup {"init"})]
    /\ shared \subseteq Ids
    /\ garbled \subseteq Ids

LEMMA Types == TypeOK <=> OthersTyped /\ req \in [Requests -> RequestType]
BY DEF TypeOK, OthersTyped, RequestType

LEMMA TypeInit == Init => TypeOK
BY DEF Init, TypeOK, Steps, Never, None

\* A step of one request leaves the record of each typed.
LEMMA RequestTyped ==
    ASSUME req \in [Requests -> RequestType], NEW r \in Requests,
           NEW record \in RequestType, Becomes(r, record)
    PROVE  req' \in [Requests -> RequestType]
BY DEF Becomes

LEMMA GotoTyped ==
    ASSUME req \in [Requests -> RequestType], NEW r \in Requests,
           NEW step \in Steps, Goto(r, step)
    PROVE  req' \in [Requests -> RequestType]
<1>1. [req[r] EXCEPT !.at = step] \in RequestType  BY DEF RequestType
<1> QED  BY <1>1, RequestTyped DEF Goto

LEMMA AnsweredTyped ==
    ASSUME req \in [Requests -> RequestType], NEW r \in Requests,
           NEW line \in Requests \cup {None, "init", "gone", "error"},
           Answered(r, line)
    PROVE  req' \in [Requests -> RequestType]
<1> DEFINE record ==
        [req[r] EXCEPT !.at = "done", !.reply = line, !.now = 0,
                       !.began = 0, !.get = FALSE, !.found = FALSE]
<1>1. 0 \in 0 .. MaxClock /\ "done" \in Steps /\ FALSE \in BOOLEAN
  BY DEF Steps
<1>2. record \in RequestType  BY <1>1 DEF RequestType
<1> QED  BY <1>2, RequestTyped DEF Answered

LEMMA StartsTyped ==
    ASSUME TypeOK, NEW r \in Requests,
           StartFails(r) \/ \E i \in Ids : StartRun(r, i) \/ StartTalk(r, i)
    PROVE  TypeOK'
<1> req[r] \in RequestType /\ OthersTyped /\ req \in [Requests -> RequestType]
  BY Types
<1>1. ASSUME NEW i \in Ids, StartRun(r, i)  PROVE TypeOK'
  <2> DEFINE record == [req[r] EXCEPT !.at = RunOrder[1], !.kind = "run",
                                      !.id = i, !.began = clock]
  <2>1. record \in RequestType
    BY DEF RequestType, RunOrder, Steps, OthersTyped
  <2>2. req' \in [Requests -> RequestType]
    BY <1>1, <2>1, RequestTyped DEF StartRun
  <2>3. OthersTyped'  BY <1>1 DEF StartRun, OthersTyped, maps, pipes
  <2> QED  BY <2>2, <2>3 DEF TypeOK, OthersTyped, RequestType
<1>2. ASSUME NEW i \in Ids, StartTalk(r, i)  PROVE TypeOK'
  <2> DEFINE record == [req[r] EXCEPT !.at = "lookup", !.kind = "talk",
                                      !.id = i, !.began = clock]
  <2>1. record \in RequestType
    BY DEF RequestType, Steps, OthersTyped
  <2>2. req' \in [Requests -> RequestType]
    BY <1>2, <2>1, RequestTyped DEF StartTalk
  <2>3. OthersTyped'  BY <1>2 DEF StartTalk, OthersTyped, maps, pipes, lives
  <2> QED  BY <2>2, <2>3 DEF TypeOK, OthersTyped, RequestType
<1>3. CASE StartFails(r)
  <2> DEFINE record == [req[r] EXCEPT !.at = "done", !.kind = "run",
                                      !.reply = "error"]
  <2>1. record \in RequestType
    BY DEF RequestType, Steps, OthersTyped
  <2>2. req' \in [Requests -> RequestType]
    BY <1>3, <2>1, RequestTyped DEF StartFails
  <2>3. OthersTyped'  BY <1>3 DEF StartFails, OthersTyped, maps, pipes, lives
  <2> QED  BY <2>2, <2>3 DEF TypeOK, OthersTyped, RequestType
<1> QED  BY <1>1, <1>2, <1>3

LEMMA RegisteringTyped ==
    ASSUME TypeOK, NEW r \in Requests, id(r) \in Ids,
           Put(r) \/ Attach(r) \/ Touch(r) \/ Refresh(r)
    PROVE  TypeOK'
<1> OthersTyped /\ req \in [Requests -> RequestType]
  BY Types
<1>1. {"attach", "touch", "sweep"} \subseteq Steps  BY DEF Steps
<1>2. req' \in [Requests -> RequestType]
  BY <1>1, GotoTyped, FollowingSteps DEF Put, Attach, Touch, Refresh
<1>3. CASE Put(r)
  BY <1>2, <1>3 DEF Put, TypeOK, OthersTyped, RequestType, lives, pipes
<1>4. CASE Attach(r)
  <2>1. attached' \subseteq Ids /\ controllers' \subseteq Ids
    BY <1>4 DEF Attach, OthersTyped
  <2>2. finish' \in {finish, [finish EXCEPT ![id(r)] = "removed"]}
    BY <1>4 DEF Attach
  <2>3. finish' \in [Ids -> {"waiting", "reading", "read", "removed"}]
    BY <2>2 DEF OthersTyped
  <2> QED  BY <1>2, <1>4, <2>1, <2>3
           DEF Attach, TypeOK, OthersTyped, RequestType, pipes
<1>5. CASE Touch(r) \/ Refresh(r)
  <2>1. lastCallTime' = [lastCallTime EXCEPT ![id(r)] = clock]
    BY <1>5 DEF Touch, Refresh, Touched
  <2>2. lastCallTime' \in [Ids -> {Never} \cup 0 .. MaxClock]
    BY <2>1 DEF OthersTyped
  <2> QED  BY <1>2, <1>5, <2>2
     DEF Touch, Refresh, TypeOK, OthersTyped, RequestType, lives, pipes
<1> QED  BY <1>3, <1>4, <1>5

LEMMA SweepTyped ==
    ASSUME TypeOK, NEW r \in Requests,
           StartSweep(r) \/ (\E i \in Ids : Visit(r, i)) \/ Kill(r)
    PROVE  TypeOK'
<1> req[r] \in RequestType /\ OthersTyped /\ req \in [Requests -> RequestType]
  BY Types
<1>1. CASE StartSweep(r)
  <2> DEFINE record == [req[r] EXCEPT !.at = "visit", !.now = clock,
                            !.todo = {i \in Ids : lastCallTime[i] # Never}]
  <2>1. record \in RequestType  BY DEF RequestType, Steps, OthersTyped
  <2>2. req' \in [Requests -> RequestType]
    BY <1>1, <2>1, RequestTyped DEF StartSweep
  <2> QED  BY <1>1, <2>2
           DEF StartSweep, TypeOK, OthersTyped, RequestType, maps, lives, pipes
<1>2. CASE \E i \in Ids : Visit(r, i)
  <2> PICK i \in Ids : Visit(r, i)  BY <1>2
  <2>1. [req[r] EXCEPT !.todo = @ \ {i}, !.victim = i, !.at = "kill"] \in RequestType
    BY DEF RequestType, Steps
  <2>2. [req[r] EXCEPT !.todo = @ \ {i}] \in RequestType
    BY DEF RequestType
  <2>3. req' \in [Requests -> RequestType]
    BY <2>1, <2>2, RequestTyped DEF Visit
  <2> QED  BY <2>3
           DEF Visit, TypeOK, OthersTyped, RequestType, maps, lives, pipes
<1>3. CASE Kill(r)
  <2>1. [req[r] EXCEPT !.at = "visit", !.victim = None] \in RequestType
    BY DEF RequestType, Steps
  <2>2. req' \in [Requests -> RequestType]
    BY <1>3, <2>1, RequestTyped DEF Kill
  <2>3. \A i \in Ids : \A n \in 0 .. Len(stdout[i]) :
          SubSeq(stdout[i], 1, n) \in Seq(Requests \cup {"init"})
    BY DEF OthersTyped
  <2>4. proc' \in [Ids -> {"none", "starting", "alive", "dead"}]
    BY <1>3 DEF Kill, OthersTyped
  <2>5. stdout' \in [Ids -> Seq(Requests \cup {"init"})]
    <3> DEFINE i == req[r].victim
    <3>1. CASE i \in controllers
      <4>1. PICK n \in 0 .. Len(stdout[i]) :
                stdout' = [stdout EXCEPT ![i] = SubSeq(@, 1, n)]
        BY <1>3, <3>1 DEF Kill
      <4>2. SubSeq(stdout[i], 1, n) \in Seq(Requests \cup {"init"})
        BY <2>3, <3>1 DEF OthersTyped
      <4> QED  BY <4>1, <4>2 DEF OthersTyped
    <3>2. CASE i \notin controllers
      BY <1>3, <3>2 DEF Kill, OthersTyped
    <3> QED  BY <3>1, <3>2
  <2> QED  BY <1>3, <2>2, <2>4, <2>5
           DEF Kill, TypeOK, OthersTyped, RequestType, maps
<1> QED  BY <1>1, <1>2, <1>3

LEMMA CallTyped ==
    ASSUME TypeOK, NEW r \in Requests,
           EndSweep(r) \/ Lookup(r) \/ (Open(r) /\ id(r) \in Ids)
    PROVE  TypeOK'
<1> req[r] \in RequestType /\ OthersTyped /\ req \in [Requests -> RequestType]
  BY Types
<1>1. CASE EndSweep(r)
  <2>1. 0 \in 0 .. MaxClock /\ {"lookup", "open"} \subseteq Steps  BY DEF Steps
  <2>2. [req[r] EXCEPT !.at = "lookup", !.now = 0] \in RequestType
    BY <2>1 DEF RequestType
  <2>3. [req[r] EXCEPT !.at = "open", !.now = 0] \in RequestType
    BY <2>1 DEF RequestType
  <2>4. req' \in [Requests -> RequestType]
    BY <1>1, <2>2, <2>3, RequestTyped, AnsweredTyped DEF EndSweep
  <2> QED  BY <1>1, <2>4
           DEF EndSweep, TypeOK, OthersTyped, RequestType, maps, lives, pipes
<1>2. CASE Lookup(r)
  <2> DEFINE record(found) == [req[r] EXCEPT !.get = TRUE, !.found = found,
                                             !.at = AfterLookup(found)]
  <2>1. record(TRUE) \in RequestType /\ record(FALSE) \in RequestType
    BY DEF RequestType, Steps, AfterLookup
  <2>2. record(id(r) \in controllers) \in RequestType
    <3> HIDE DEF record
    <3>1. CASE id(r) \in controllers
      <4>1. (id(r) \in controllers) = TRUE  BY <3>1
      <4> QED  BY <2>1, <4>1, Zenon
    <3>2. CASE id(r) \notin controllers
      <4>1. (id(r) \in controllers) = FALSE  BY <3>2
      <4> QED  BY <2>1, <4>1, Zenon
    <3> QED  BY <3>1, <3>2
  <2>3. req' \in [Requests -> RequestType]
    BY <1>2, <2>2, RequestTyped DEF Lookup
  <2> QED  BY <1>2, <2>3
           DEF Lookup, TypeOK, OthersTyped, RequestType, maps, lives, pipes
<1>3. CASE Open(r) /\ id(r) \in Ids
  <2>1. AfterOpen(req[r].kind) \in Steps  BY DEF AfterOpen, Steps
  <2>2. req' \in [Requests -> RequestType]
    BY <1>3, <2>1, GotoTyped DEF Open
  <2> QED  BY <1>3, <2>2
           DEF Open, TypeOK, OthersTyped, RequestType, maps, pipes
<1> QED  BY <1>1, <1>2, <1>3

LEMMA LinesTyped ==
    ASSUME TypeOK, NEW r \in Requests, id(r) \in Ids,
           Send(r) \/ Receive(r) \/ ReceiveTogether(r)
    PROVE  TypeOK'
<1> OthersTyped /\ req \in [Requests -> RequestType]
  BY Types
<1> DEFINE lines == stdout[id(r)]
<1>1. lines \in Seq(Requests \cup {"init"})  BY DEF OthersTyped
<1>2. lines # <<>> => /\ Head(lines) \in Requests \cup {"init"}
                      /\ Tail(lines) \in Seq(Requests \cup {"init"})
  BY <1>1
<1>3. CASE Send(r)
  <2>1. "receive" \in Steps  BY DEF Steps
  <2>2. req' \in [Requests -> RequestType]
    BY <1>3, <2>1, GotoTyped DEF Send
  <2>3. Append(stdin[id(r)], r) \in Seq(Requests)  BY DEF OthersTyped
  <2> QED  BY <1>3, <2>2, <2>3
           DEF Send, Sent, TypeOK, OthersTyped, RequestType, maps, lives
<1>4. CASE Receive(r)
  <2>1. req' \in [Requests -> RequestType]
    BY <1>2, <1>4, AnsweredTyped DEF Receive
  <2>2. stdout' \in [Ids -> Seq(Requests \cup {"init"})]
    BY <1>2, <1>4 DEF Receive, OthersTyped
  <2> QED  BY <1>4, <2>1, <2>2
           DEF Receive, TypeOK, OthersTyped, RequestType, maps, lives
<1>5. CASE ReceiveTogether(r)
  <2>1. req' \in [Requests -> RequestType]
    BY <1>2, <1>5, AnsweredTyped DEF ReceiveTogether
  <2>2. \A n \in 1 .. Len(lines) + 1 :
          SubSeq(lines, n, Len(lines)) \in Seq(Requests \cup {"init"})
    BY <1>1
  <2> QED  BY <1>5, <2>1, <2>2
           DEF ReceiveTogether, TypeOK, OthersTyped, RequestType, maps, lives
<1> QED  BY <1>3, <1>4, <1>5

LEMMA ProgramTyped ==
    ASSUME TypeOK, NEW i \in Ids,
           Boot(i) \/ Answer(i) \/ ProcessExits(i) \/ Reap(i)
    PROVE  TypeOK'
<1> OthersTyped /\ req \in [Requests -> RequestType]
  BY Types
<1>1. /\ stdin[i] \in Seq(Requests)
      /\ stdout[i] \in Seq(Requests \cup {"init"})
  BY DEF OthersTyped
<1>2. CASE Boot(i)
  <2>1. Append(stdout[i], "init") \in Seq(Requests \cup {"init"})  BY <1>1
  <2> QED  BY <1>2, <2>1
           DEF Boot, TypeOK, OthersTyped, RequestType, maps, requests
<1>3. CASE Answer(i)
  <2>1. Tail(stdin[i]) \in Seq(Requests) /\ Head(stdin[i]) \in Requests
    BY <1>1, <1>3 DEF Answer
  <2>2. PICK n \in 0 .. MaxAnswers :
           /\ stdout' = [stdout EXCEPT ![i] = @ \o [k \in 1 .. n |-> Head(stdin[i])]]
           /\ garbled' = IF n = 1 THEN garbled ELSE garbled \cup {i}
    BY <1>3 DEF Answer
  <2>3. [k \in 1 .. n |-> Head(stdin[i])] \in Seq(Requests \cup {"init"})
    BY <2>1, <2>2
  <2>4. stdout[i] \o [k \in 1 .. n |-> Head(stdin[i])] \in Seq(Requests \cup {"init"})
    BY <1>1, <2>3
  <2> QED  BY <1>3, <2>1, <2>2, <2>4
           DEF Answer, TypeOK, OthersTyped, RequestType, maps, lives
<1>4. CASE ProcessExits(i)
  BY <1>4 DEF ProcessExits, TypeOK, OthersTyped, RequestType, maps, pipes, requests
<1>5. CASE ReadErrors(i)
  BY <1>5 DEF ReadErrors, TypeOK, OthersTyped, RequestType, maps, pipes, requests
<1>6. CASE ReadOutput(i)
  BY <1>6 DEF ReadOutput, TypeOK, OthersTyped, RequestType, maps, requests
<1>7. CASE Remove(i)
  BY <1>7 DEF Remove, TypeOK, OthersTyped, RequestType, pipes, requests
<1> QED  BY <1>2, <1>3, <1>4, <1>5, <1>6, <1>7 DEF Reap

-----------------------------------------------------------------------------
(* Where sessions are held *)

\* A process that has not ended is in the map of controllers.
Held(i) == i \in controllers \/ proc[i] = "dead"

FinishedDead == \A i \in Ids : finish[i] # "waiting" => proc[i] = "dead"
TimedHeld == \A i \in Ids : lastCallTime[i] # Never => Held(i)

\* What a request has done to the maps so far.
Registered(r) ==
    /\ At(r, "idle") => id(r) = None /\ ~req[r].get /\ req[r].reply = None
    /\ At(r, "idle") \/ At(r, "done") \/ id(r) \in Ids
    /\ ~At(r, "idle") /\ id(r) \in Ids =>
          /\ At(r, "put") \/ Held(id(r))
          /\ req[r].at \in {"put", "attach", "touch"} \/ lastCallTime[id(r)] # Never
          /\ req[r].get /\ ~req[r].found => proc[id(r)] = "dead"
    /\ req[r].reply = "gone" =>
          ~At(r, "idle") /\ id(r) \in Ids /\ proc[id(r)] = "dead"

Holding ==
    /\ TypeOK
    /\ FinishedDead
    /\ TimedHeld
    /\ \A r \in Requests : Registered(r)

LEMMA HoldingInit == Init => Holding
<1> SUFFICES ASSUME Init PROVE Holding  OBVIOUS
<1>1. TypeOK  BY TypeInit
<1>2. FinishedDead /\ TimedHeld  BY DEF Init, FinishedDead, TimedHeld
<1>3. ASSUME NEW r \in Requests PROVE Registered(r)
  BY DEF Init, Registered, At, id, None
<1> QED  BY <1>1, <1>2, <1>3 DEF Holding

\* A session that is held stays so: a controller leaves the map only after
\* the end of its process.
Keeps(i) ==
    /\ proc[i] = "dead" => proc'[i] = "dead"
    /\ Held(i) => Held(i)'
    /\ lastCallTime[i] # Never => lastCallTime'[i] # Never

LEMMA HoldingType ==
    ASSUME Holding
    PROVE  /\ TypeOK /\ FinishedDead /\ TimedHeld
           /\ \A r \in Requests : Registered(r)
           /\ \A r \in Requests :
                 ~At(r, "idle") /\ ~At(r, "done") => id(r) \in Ids
BY DEF Holding, Registered

LEMMA HoldingTyped == ASSUME Holding, Next PROVE TypeOK'
<1> USE HoldingType
<1>1. CASE \E r \in Requests : Proceed(r)
  <2> PICK r \in Requests : Proceed(r)  BY <1>1
  <2>1. CASE Put(r) \/ Attach(r) \/ Touch(r) \/ Refresh(r)
    <3>1. id(r) \in Ids  BY <2>1 DEF Put, Attach, Touch, Refresh, At
    <3> QED  BY <2>1, <3>1, RegisteringTyped
  <2>2. CASE StartSweep(r) \/ (\E i \in Ids : Visit(r, i)) \/ Kill(r)
    BY <2>2, SweepTyped
  <2>3. CASE EndSweep(r) \/ Lookup(r) \/ Open(r)
    <3>1. Open(r) => id(r) \in Ids  BY DEF Open, At
    <3> QED  BY <2>3, <3>1, CallTyped
  <2>4. CASE Send(r) \/ Receive(r) \/ ReceiveTogether(r)
    <3>1. id(r) \in Ids  BY <2>4 DEF Send, Receive, ReceiveTogether, At
    <3> QED  BY <2>4, <3>1, LinesTyped
  <2> QED  BY <2>1, <2>2, <2>3, <2>4 DEF Proceed
<1>2. CASE \E r \in Requests : StartFails(r) \/ \E i \in Ids : StartRun(r, i) \/ StartTalk(r, i)
  BY <1>2, StartsTyped
<1>3. CASE \E i \in Ids : Boot(i) \/ Answer(i) \/ ProcessExits(i) \/ Reap(i)
  BY <1>3, ProgramTyped
<1>4. CASE Tick
  BY <1>4 DEF Tick, TypeOK, maps, lives, pipes, requests
<1> QED  BY <1>1, <1>2, <1>3, <1>4 DEF Next

LEMMA NextKeeps ==
    ASSUME Holding, Next, NEW i \in Ids
    PROVE  Keeps(i)
<1> USE HoldingType DEF Keeps, Held, TypeOK
<1>1. ASSUME NEW r \in Requests, StartRun(r, i) \/ (\E j \in Ids : StartRun(r, j))
      PROVE  Keeps(i)
  BY <1>1 DEF StartRun, maps
<1>2. ASSUME NEW r \in Requests, Put(r)  PROVE Keeps(i)
  BY <1>2 DEF Put, lives
<1>3. ASSUME NEW r \in Requests, Attach(r)  PROVE Keeps(i)
  <2>1. finish[id(r)] = "read" => proc[id(r)] = "dead"
    BY <1>3 DEF FinishedDead, Attach, At
  <2>2. proc' = proc /\ lastCallTime' = lastCallTime
    BY <1>3 DEF Attach
  <2>3. controllers' = controllers
        \/ (controllers' = controllers \ {id(r)} /\ finish[id(r)] = "read")
    BY <1>3 DEF Attach
  <2> QED  BY <2>1, <2>2, <2>3
<1>4. ASSUME NEW r \in Requests, Touch(r) \/ Refresh(r)  PROVE Keeps(i)
  <2>1. /\ lastCallTime' = [lastCallTime EXCEPT ![id(r)] = clock]
        /\ proc' = proc /\ controllers' = controllers
    BY <1>4 DEF Touch, Refresh, Touched, lives
  <2> QED  BY <2>1 DEF Never
<1>5. ASSUME NEW r \in Requests, Kill(r)  PROVE Keeps(i)
  <2>1. proc' = [proc EXCEPT ![req[r].victim] = "dead"] \/ proc' = proc
    BY <1>5 DEF Kill
  <2>2. controllers' = controllers /\ lastCallTime' = lastCallTime
    BY <1>5 DEF Kill, maps
  <2> QED  BY <2>1, <2>2
<1>6. ASSUME NEW j \in Ids, Remove(j)  PROVE Keeps(i)
  BY <1>6 DEF Remove, FinishedDead
<1>7. ASSUME NEW j \in Ids, Boot(j) \/ ProcessExits(j)  PROVE Keeps(i)
  BY <1>7 DEF Boot, ProcessExits, maps
<1>8. ASSUME UNCHANGED <<maps, proc>>  PROVE Keeps(i)
  BY <1>8 DEF maps
<1>9. CASE \E r \in Requests : Proceed(r)
  <2> PICK r \in Requests : Proceed(r)  BY <1>9
  <2>1. CASE StartSweep(r) \/ (\E j \in Ids : Visit(r, j)) \/ EndSweep(r)
             \/ Lookup(r) \/ Open(r) \/ Send(r) \/ Receive(r) \/ ReceiveTogether(r)
    <3>1. UNCHANGED <<maps, proc>>
      BY <2>1 DEF StartSweep, Visit, EndSweep, Lookup, Open, Send, Receive,
                  ReceiveTogether, lives
    <3> QED  BY <3>1, <1>8
  <2> QED  BY <1>2, <1>3, <1>4, <1>5, <2>1 DEF Proceed
<1>10. CASE \E r \in Requests : StartFails(r) \/ \E j \in Ids : StartRun(r, j) \/ StartTalk(r, j)
  <2>1. CASE \E r \in Requests : StartFails(r) \/ \E j \in Ids : StartTalk(r, j)
    <3>1. UNCHANGED <<maps, proc>>  BY <2>1 DEF StartFails, StartTalk, lives
    <3> QED  BY <3>1, <1>8
  <2> QED  BY <1>1, <1>10, <2>1
<1>11. CASE \E j \in Ids : Boot(j) \/ Answer(j) \/ ProcessExits(j) \/ Reap(j)
  <2>1. CASE \E j \in Ids : Answer(j) \/ ReadErrors(j) \/ ReadOutput(j)
    <3>1. UNCHANGED <<maps, proc>>  BY <2>1 DEF Answer, ReadErrors, ReadOutput, lives
    <3> QED  BY <3>1, <1>8
  <2> QED  BY <1>6, <1>7, <1>11, <2>1 DEF Reap
<1>12. CASE Tick
  BY <1>8, <1>12 DEF Tick, lives
<1> QED  BY <1>9, <1>10, <1>11, <1>12 DEF Next

LEMMA NextFinished == Holding /\ Next => FinishedDead'
<1> SUFFICES ASSUME Holding, Next, NEW i \in Ids, finish'[i] # "waiting"
             PROVE  proc'[i] = "dead"
  BY DEF FinishedDead
<1> USE HoldingType
<1>1. proc[i] = "dead" => proc'[i] = "dead"  BY NextKeeps DEF Keeps
<1>2. CASE finish'[i] = finish[i]
  BY <1>1, <1>2 DEF FinishedDead
<1>3. CASE finish'[i] # finish[i]
  <2>1. finish[i] # "waiting" \/ proc[i] = "dead"
    <3>1. CASE \E r \in Requests : Attach(r)
      BY <1>3, <3>1 DEF Attach, TypeOK
    <3>2. CASE \E j \in Ids : Reap(j)
      BY <1>3, <3>2 DEF Reap, ReadErrors, ReadOutput, Remove, Exited, TypeOK
    <3>3. CASE (\A r \in Requests : ~Attach(r)) /\ (\A j \in Ids : ~Reap(j))
      <4>1. finish' = finish
        BY <3>3 DEF Next, Proceed, StartFails, StartRun, StartTalk, Put, Touch,
              StartSweep, Visit, Kill, EndSweep, Lookup, Refresh, Open, Send,
              Receive, ReceiveTogether, Boot, Answer, ProcessExits, Tick, lives
      <4> QED  BY <4>1, <1>3
    <3> QED  BY <3>1, <3>2, <3>3, <1>3 DEF Next, Proceed
  <2> QED  BY <2>1, <1>1 DEF FinishedDead
<1> QED  BY <1>2, <1>3

LEMMA NextTimed == Holding /\ Next => TimedHeld'
<1> SUFFICES ASSUME Holding, Next, NEW i \in Ids, lastCallTime'[i] # Never
             PROVE  Held(i)'
  BY DEF TimedHeld
<1> USE HoldingType
<1>1. Held(i) => Held(i)'  BY NextKeeps DEF Keeps
<1>2. CASE lastCallTime[i] # Never
  BY <1>1, <1>2 DEF TimedHeld
<1>3. CASE lastCallTime[i] = Never
  <2>1. PICK r \in Requests : Touch(r) \/ Refresh(r)
    BY <1>3 DEF Next, Proceed, StartFails, StartRun, StartTalk, Put, Attach,
          StartSweep, Visit, Kill, EndSweep, Lookup, Open, Send, Receive,
          ReceiveTogether, Boot, Answer, ProcessExits, Reap, ReadErrors,
          ReadOutput, Remove, Tick, maps
  <2>2. lastCallTime' = [lastCallTime EXCEPT ![id(r)] = clock]
    BY <2>1 DEF Touch, Refresh, Touched
  <2>3. i = id(r)  BY <2>2, <1>3 DEF TypeOK
  <2>4. Held(i)  BY <2>1, <2>3 DEF Touch, Refresh, Registered, At
  <2> QED  BY <1>1, <2>4
<1> QED  BY <1>2, <1>3

\* What a step of another actor leaves of a request.
LEMMA OthersRegistered ==
    ASSUME Holding, Next, NEW q \in Requests, req'[q] = req[q]
    PROVE  Registered(q)'
<1>1. Registered(q)  BY HoldingType
<1>2. id(q) \in Ids => Keeps(id(q))  BY NextKeeps
<1> QED  BY <1>1, <1>2 DEF Registered, Keeps, At, id

LEMMA ProceedRegistered ==
    ASSUME Holding, Next, NEW r \in Requests, Proceed(r)
    PROVE  Registered(r)'
<1> USE HoldingType DEF At, id
<1> DEFINE i == id(r)
<1>0. Registered(r) /\ i \in Ids
  BY DEF Proceed, Put, Attach, Touch, StartSweep, Visit, Kill, EndSweep, Lookup,
         Refresh, Open, Send, Receive, ReceiveTogether
<1>1. Keeps(i)  BY <1>0, NextKeeps
<1>2. req \in [Requests -> RequestType]  BY Types
<1>3. CASE Put(r)
  <2>1. req'[r] = [req[r] EXCEPT !.at = "attach"]
    BY <1>3, <1>2, FollowingSteps DEF Put, Goto, Becomes
  <2>2. i \in controllers'  BY <1>3 DEF Put
  <2> QED  BY <1>0, <1>1, <1>2, <1>3, <2>1, <2>2
           DEF Registered, Keeps, Held, RequestType, Put
<1>4. CASE Attach(r)
  <2>1. req'[r] = [req[r] EXCEPT !.at = "touch"]
    BY <1>4, <1>2, FollowingSteps DEF Attach, Goto, Becomes
  <2> QED  BY <1>0, <1>1, <1>2, <1>4, <2>1 DEF Registered, Keeps, RequestType, Attach
<1>5. CASE Touch(r) \/ Refresh(r)
  <2>1. req'[r] = [req[r] EXCEPT !.at = "sweep"]
    BY <1>5, <1>2, FollowingSteps DEF Touch, Refresh, Goto, Becomes
  <2>2. lastCallTime' = [lastCallTime EXCEPT ![i] = clock]
    BY <1>5 DEF Touch, Refresh, Touched
  <2>3. lastCallTime'[i] # Never
    BY <2>2, <1>0 DEF TypeOK, Never
  <2> QED  BY <1>0, <1>1, <1>2, <1>5, <2>1, <2>3
           DEF Registered, Keeps, RequestType, Touch, Refresh
<1>6. CASE StartSweep(r)
  <2>1. req'[r] = [req[r] EXCEPT !.at = "visit", !.now = clock,
                         !.todo = {j \in Ids : lastCallTime[j] # Never}]
    BY <1>6, <1>2 DEF StartSweep, Becomes
  <2> QED  BY <1>0, <1>1, <1>2, <1>6, <2>1 DEF Registered, Keeps, RequestType, StartSweep
<1>7. CASE \E j \in Ids : Visit(r, j)
  <2>1. PICK j \in Ids : Visit(r, j)  BY <1>7
  <2>2. \/ req'[r] = [req[r] EXCEPT !.todo = @ \ {j}, !.victim = j, !.at = "kill"]
        \/ req'[r] = [req[r] EXCEPT !.todo = @ \ {j}]
    BY <2>1, <1>2 DEF Visit, Becomes
  <2>3. /\ req'[r].at \in {"visit", "kill"}
        /\ req'[r].id = i /\ req'[r].reply = req[r].reply
        /\ req'[r].get = req[r].get /\ req'[r].found = req[r].found
    <3>1. req[r] \in RequestType /\ req[r].at = "visit"
      BY <1>2, <2>1 DEF Visit
    <3>2. CASE req'[r] = [req[r] EXCEPT !.todo = @ \ {j}, !.victim = j, !.at = "kill"]
      BY ONLY <3>1, <3>2 DEF RequestType
    <3>3. CASE req'[r] = [req[r] EXCEPT !.todo = @ \ {j}]
      BY ONLY <3>1, <3>3 DEF RequestType
    <3> QED  BY <2>2, <3>2, <3>3
  <2> QED  BY <1>0, <1>1, <2>1, <2>3 DEF Registered, Keeps, Visit
<1>8. CASE Kill(r)
  <2>1. req'[r] = [req[r] EXCEPT !.at = "visit", !.victim = None]
    BY <1>8, <1>2 DEF Kill, Becomes
  <2> QED  BY <1>0, <1>1, <1>2, <1>8, <2>1 DEF Registered, Keeps, RequestType, Kill
<1>9. CASE Lookup(r)
  <2> DEFINE found == i \in controllers
  <2>1. req'[r] = [req[r] EXCEPT !.get = TRUE, !.found = found,
                                 !.at = AfterLookup(found)]
    BY <1>9, <1>2 DEF Lookup, Becomes
  <2>2. i \notin controllers => proc[i] = "dead"
    BY <1>0, <1>9 DEF Registered, Lookup, Held
  <2>3. CASE found
    <3>1. found = TRUE  BY <2>3
    <3>2. req'[r] = [req[r] EXCEPT !.get = TRUE, !.found = TRUE, !.at = "refresh"]
      BY <2>1, <3>1, Zenon DEF AfterLookup
    <3> QED  BY <1>0, <1>1, <1>2, <1>9, <3>2
             DEF Registered, Keeps, RequestType, Lookup
  <2>4. CASE ~found
    <3>1. found = FALSE  BY <2>4
    <3>2. req'[r] = [req[r] EXCEPT !.get = TRUE, !.found = FALSE, !.at = "sweep"]
      BY <2>1, <3>1, Zenon DEF AfterLookup
    <3> QED  BY <1>0, <1>1, <1>2, <1>9, <2>2, <2>4, <3>2
             DEF Registered, Keeps, RequestType, Lookup
  <2> QED  BY <2>3, <2>4
<1>10. CASE Open(r)
  <2>1. req'[r] = [req[r] EXCEPT !.at = AfterOpen(req[r].kind)]
    BY <1>10, <1>2 DEF Open, Goto, Becomes
  <2> QED  BY <1>0, <1>1, <1>2, <1>10, <2>1
           DEF Registered, Keeps, RequestType, Open, AfterOpen
<1>11. CASE Send(r)
  <2>1. req'[r] = [req[r] EXCEPT !.at = "receive"]
    BY <1>11, <1>2 DEF Send, Goto, Becomes
  <2> QED  BY <1>0, <1>1, <1>2, <1>11, <2>1 DEF Registered, Keeps, RequestType, Send
<1>12. ASSUME NEW line \in Requests \cup {"init", "gone", "error"}, Answered(r, line),
              At(r, "visit") \/ At(r, "receive"),
              line = "gone" => proc[i] = "dead"
       PROVE  Registered(r)'
  <2>1. req'[r] = [req[r] EXCEPT !.at = "done", !.reply = line, !.now = 0,
                              !.began = 0, !.get = FALSE, !.found = FALSE]
    BY <1>12, <1>2 DEF Answered, Becomes
  <2> QED  BY <1>0, <1>1, <1>2, <1>12, <2>1 DEF Registered, Keeps, RequestType
<1>13. CASE EndSweep(r)
  <2>1. CASE Becomes(r, [req[r] EXCEPT !.at = "lookup", !.now = 0])
             \/ Becomes(r, [req[r] EXCEPT !.at = "open", !.now = 0])
    <3>1. req'[r] \in {[req[r] EXCEPT !.at = "lookup", !.now = 0],
                       [req[r] EXCEPT !.at = "open", !.now = 0]}
      BY <2>1, <1>2 DEF Becomes
    <3> QED  BY <1>0, <1>1, <1>2, <1>13, <3>1
             DEF Registered, Keeps, RequestType, EndSweep
  <2>2. CASE req[r].get /\ ~req[r].found
             /\ Answered(r, IF req[r].kind = "run" THEN "error" ELSE "gone")
    <3>1. proc[i] = "dead"  BY <2>2, <1>0, <1>13 DEF Registered, EndSweep
    <3> QED  BY <2>2, <3>1, <1>12, <1>13 DEF EndSweep
  <2> QED  BY <1>13, <2>1, <2>2 DEF EndSweep
<1>14. CASE Receive(r) \/ ReceiveTogether(r)
  <2>1. stdout[i] # <<>> => Head(stdout[i]) \in Requests \cup {"init"}
    BY <1>0 DEF TypeOK
  <2>2. \E line \in Requests \cup {"init", "error"} : Answered(r, line)
    BY <1>14, <2>1 DEF Receive, ReceiveTogether
  <2>3. "gone" \notin Requests  OBVIOUS
  <2> QED  BY <1>12, <1>14, <2>2, <2>3 DEF Receive, ReceiveTogether
<1> QED  BY <1>3, <1>4, <1>5, <1>6, <1>7, <1>8, <1>9, <1>10, <1>11, <1>13, <1>14
         DEF Proceed

LEMMA StartRegistered ==
    ASSUME Holding, Next, NEW r \in Requests,
           StartFails(r) \/ \E i \in Ids : StartRun(r, i) \/ StartTalk(r, i)
    PROVE  Registered(r)'
<1> USE HoldingType DEF At, id
<1>1. req \in [Requests -> RequestType]  BY Types
<1>2. Registered(r) /\ At(r, "idle")
  BY DEF StartFails, StartRun, StartTalk
<1>3. CASE StartFails(r)
  <2>1. req'[r] = [req[r] EXCEPT !.at = "done", !.kind = "run", !.reply = "error"]
    BY <1>1, <1>3 DEF StartFails, Becomes
  <2> QED  BY <1>1, <1>2, <2>1 DEF Registered, RequestType
<1>4. ASSUME NEW i \in Ids, StartRun(r, i)  PROVE Registered(r)'
  <2>1. req'[r] = [req[r] EXCEPT !.at = "put", !.kind = "run", !.id = i,
                                 !.began = clock]
    BY <1>1, <1>4 DEF StartRun, Becomes, RunOrder
  <2> QED  BY <1>1, <1>2, <2>1 DEF Registered, RequestType
<1>5. ASSUME NEW i \in Ids, StartTalk(r, i)  PROVE Registered(r)'
  <2>1. req'[r] = [req[r] EXCEPT !.at = "lookup", !.kind = "talk", !.id = i,
                                 !.began = clock]
    BY <1>1, <1>5 DEF StartTalk, Becomes
  <2>2. PICK q \in Requests : At(q, "done") /\ id(q) = i
    BY <1>5 DEF StartTalk, Known
  <2>3. Held(i) /\ lastCallTime[i] # Never
    BY <2>2 DEF Registered
  <2>4. Held(i)' /\ lastCallTime'[i] # Never
    BY <2>3, NextKeeps DEF Keeps
  <2> QED  BY <1>1, <1>2, <2>1, <2>4 DEF Registered, RequestType
<1> QED  BY <1>3, <1>4, <1>5

\* Only a step of a request changes its record.
LEMMA OwnSteps ==
    ASSUME Holding, Next, NEW q \in Requests, req'[q] # req[q]
    PROVE  \/ Proceed(q) \/ StartFails(q)
           \/ \E i \in Ids : StartRun(q, i) \/ StartTalk(q, i)
<1>1. PICK r \in Requests :
          \/ Proceed(r) \/ StartFails(r)
          \/ \E i \in Ids : StartRun(r, i) \/ StartTalk(r, i)
  BY DEF Next, Boot, Answer, ProcessExits, Reap, ReadErrors, ReadOutput, Remove,
         Tick, requests
<1>2. \E record : Becomes(r, record)
  BY <1>1 DEF Proceed, StartFails, StartRun, StartTalk, Put, Attach, Touch,
        StartSweep, Visit, Kill, EndSweep, Lookup, Refresh, Open, Send,
        Receive, ReceiveTogether, Goto, Answered
<1>3. q = r
  BY <1>2, HoldingType, Types DEF Becomes
<1> QED  BY <1>1, <1>3

LEMMA NextHolding == Holding /\ [Next]_vars => Holding'
<1> SUFFICES ASSUME Holding, [Next]_vars PROVE Holding'  OBVIOUS
<1>1. CASE UNCHANGED vars
  BY <1>1 DEF vars, Holding, TypeOK, FinishedDead, TimedHeld, Held, Registered, At, id
<1>2. CASE Next
  <2>1. TypeOK' /\ FinishedDead' /\ TimedHeld'
    BY <1>2, HoldingTyped, NextFinished, NextTimed
  <2>2. ASSUME NEW q \in Requests  PROVE Registered(q)'
    BY <1>2, OwnSteps, OthersRegistered, ProceedRegistered, StartRegistered
  <2> QED  BY <2>1, <2>2 DEF Holding
<1> QED  BY <1>1, <1>2

LEMMA SafetyHolding == Safety => []Holding
<1> QED  BY HoldingInit, NextHolding, PTL DEF Safety

\* Types.
THEOREM TypeCorrect == Safety => []TypeOK
<1>1. Holding => TypeOK  BY DEF Holding
<1> QED  BY <1>1, SafetyHolding, PTL

\* "No such process" is answered of processes that have ended only.
THEOREM MissingDead == Safety => []MissingMeansDead
<1>1. Holding => MissingMeansDead
  BY DEF Holding, Registered, MissingMeansDead
<1> QED  BY <1>1, SafetyHolding, PTL

\* A process whose request is over is in both maps until it ends.
THEOREM LiveHeld == Safety => []LiveProcessesHeld
<1>1. Holding => LiveProcessesHeld
  <2> SUFFICES ASSUME Holding, NEW r \in Requests, At(r, "done"), id(r) # None,
                      proc[id(r)] # "dead"
               PROVE  id(r) \in controllers /\ lastCallTime[id(r)] # Never
    BY DEF LiveProcessesHeld
  <2>1. id(r) \in Ids  BY HoldingType DEF TypeOK, id
  <2> QED  BY <2>1, HoldingType DEF Registered, Held, At
<1> QED  BY <1>1, SafetyHolding, PTL

-----------------------------------------------------------------------------
(* Sweeps and the clock *)

\* The session of r was touched since r began, and r knows it.
Fresh(r) == req[r].get => req[r].found

\* What a request knows of the time.
Timely(r) ==
    /\ Computing(r) => req[r].began <= clock /\ clock - req[r].began <= Slack
    /\ req[r].at \in {"sweep", "visit", "kill"} /\ Fresh(r) =>
          lastCallTime[id(r)] >= req[r].began
    /\ req[r].at \in {"visit", "kill"} =>
          /\ req[r].now <= clock
          /\ \A i \in Ids :
                lastCallTime[i] # Never /\ Expired(req[r].now, lastCallTime[i]) =>
                    \/ i \in req[r].todo
                    \/ At(r, "kill") /\ req[r].victim = i
                    \/ proc[i] = "dead"
    /\ At(r, "kill") /\ Fresh(r) => req[r].victim # id(r)

InTime == Holding /\ \A r \in Requests : Timely(r)

LEMMA InTimeInit == Init => InTime
BY HoldingInit DEF Init, InTime, Timely, Computing, At

\* The clock and the times of calls go forward.
Forward ==
    /\ \/ clock' = clock
       \/ /\ clock' = clock + 1
          /\ \A r \in Requests : Computing(r) => clock - req[r].began < Slack
    /\ \A i \in Ids : lastCallTime'[i] \in {lastCallTime[i], clock}

LEMMA NextForward == ASSUME Holding, Next PROVE Forward
<1> USE HoldingType
<1>1. CASE \E r \in Requests : Touch(r) \/ Refresh(r)
  <2>1. PICK r \in Requests : Touch(r) \/ Refresh(r)  BY <1>1
  <2>2. /\ lastCallTime' = [lastCallTime EXCEPT ![id(r)] = clock]
        /\ clock' = clock
    BY <2>1 DEF Touch, Refresh, Touched
  <2> QED  BY <2>2 DEF Forward, TypeOK
<1>2. CASE Tick
  BY <1>2 DEF Tick, Forward, maps
<1>3. CASE (\A r \in Requests : ~Touch(r) /\ ~Refresh(r)) /\ ~Tick
  <2>1. UNCHANGED <<clock, lastCallTime>>
    BY <1>3 DEF Next, Proceed, StartFails, StartRun, StartTalk, Put, Attach,
          StartSweep, Visit, Kill, EndSweep, Lookup, Open, Send, Receive,
          ReceiveTogether, Boot, Answer, ProcessExits, Reap, ReadErrors,
          ReadOutput, Remove, maps
  <2> QED  BY <2>1 DEF Forward
<1> QED  BY <1>1, <1>2, <1>3

\* Times as numbers.
LEMMA Times ==
    ASSUME Holding, NEW r \in Requests
    PROVE  /\ clock \in Int /\ Slack \in Int /\ Timeout \in Int /\ Slack <= Timeout
           /\ req[r].began \in Int /\ req[r].now \in Int /\ req[r].began >= 0
           /\ \A i \in Ids : lastCallTime[i] \in Int
           /\ Never \in Int /\ Never < 0
<1>1. req[r] \in RequestType  BY HoldingType, Types
<1>2. req[r].began \in 0 .. MaxClock /\ req[r].now \in 0 .. MaxClock
  BY <1>1 DEF RequestType
<1>3. \A i \in Ids : lastCallTime[i] \in {Never} \cup 0 .. MaxClock
  BY HoldingType DEF TypeOK
<1>4. clock \in 0 .. MaxClock  BY HoldingType DEF TypeOK
<1> QED  BY <1>2, <1>3, <1>4 DEF Never

LEMMA OthersTimely ==
    ASSUME InTime, Next, NEW q \in Requests, req'[q] = req[q]
    PROVE  Timely(q)'
<1> USE DEF InTime
<1>1. Timely(q) /\ Forward  BY NextForward
<1>2. \A i \in Ids : Keeps(i)  BY NextKeeps
<1>3. ~At(q, "idle") /\ ~At(q, "done") => id(q) \in Ids  BY HoldingType
<1> USE Times DEF At, id, Fresh, Computing
<1>4. CASE ~Computing(q)
  BY <1>4 DEF Timely
<1>5. CASE Computing(q)
  <2>1. req[q].began <= clock' /\ clock' - req[q].began <= Slack
    BY <1>1, <1>5 DEF Timely, Forward
  <2>2. /\ req[q].at \in {"sweep", "visit", "kill"} /\ Fresh(q) =>
              lastCallTime'[id(q)] >= req[q].began
        /\ At(q, "kill") /\ Fresh(q) => req[q].victim # id(q)
    BY <1>1, <1>3, <1>5 DEF Timely, Forward
  <2>3. ASSUME req[q].at \in {"visit", "kill"}
        PROVE  /\ req[q].now <= clock'
               /\ \A i \in Ids :
                    lastCallTime'[i] # Never /\ Expired(req[q].now, lastCallTime'[i]) =>
                        \/ i \in req[q].todo
                        \/ At(q, "kill") /\ req[q].victim = i
                        \/ proc'[i] = "dead"
    <3>1. req[q].now <= clock /\ req[q].now <= clock'
      BY <1>1, <2>3 DEF Timely, Forward
    <3>2. ASSUME NEW i \in Ids, lastCallTime'[i] # Never,
                 Expired(req[q].now, lastCallTime'[i])
          PROVE  \/ i \in req[q].todo
                 \/ At(q, "kill") /\ req[q].victim = i
                 \/ proc'[i] = "dead"
      <4>1. lastCallTime'[i] # clock  BY <3>1, <3>2 DEF Expired
      <4>2. lastCallTime'[i] = lastCallTime[i]  BY <1>1, <4>1 DEF Forward
      <4> QED  BY <1>1, <1>2, <2>3, <3>2, <4>2 DEF Timely, Keeps
    <3> QED  BY <3>1, <3>2
  <2>4. req[q].at \in {"sweep", "visit", "kill"} => Computing(q)  OBVIOUS
  <2> HIDE DEF Computing
  <2>5. Computing(q)' <=> Computing(q)  BY DEF Computing
  <2>6. \A i \in Ids : Expired(req'[q].now, lastCallTime'[i])
                           <=> Expired(req[q].now, lastCallTime'[i])
    OBVIOUS
  <2> QED  BY <2>1, <2>2, <2>3, <2>5, <2>6 DEF Timely
<1> QED  BY <1>4, <1>5

LEMMA ProceedTimely ==
    ASSUME InTime, Next, NEW r \in Requests, Proceed(r)
    PROVE  Timely(r)'
<1> USE HoldingType, Times DEF At, id, Fresh, Computing, InTime
<1> DEFINE i == id(r)
<1>0. /\ Timely(r) /\ Registered(r) /\ i \in Ids
      /\ ~At(r, "idle") /\ ~At(r, "done")
  BY DEF Proceed, Put, Attach, Touch, StartSweep, Visit, Kill, EndSweep, Lookup,
         Refresh, Open, Send, Receive, ReceiveTogether
<1>1. \A j \in Ids : Keeps(j)  BY NextKeeps
<1>2. req \in [Requests -> RequestType]  BY Types
<1>3. clock' = clock
  BY DEF Proceed, Put, Attach, Touch, StartSweep, Visit, Kill, EndSweep, Lookup,
         Refresh, Open, Send, Receive, ReceiveTogether
\* A step to somewhere outside of a sweep.
<1>4. ASSUME req'[r].at \notin {"sweep", "visit", "kill"}, Computing(r),
             req'[r].began = req[r].began
      PROVE  Timely(r)'
  BY <1>0, <1>3, <1>4 DEF Timely
<1>5. ASSUME req'[r].at \in {"receive", "done"}
      PROVE  Timely(r)'
  BY <1>5 DEF Timely
<1>6. CASE Put(r) \/ Attach(r)
  <2>1. req'[r] = [req[r] EXCEPT !.at = "attach"] \/ req'[r] = [req[r] EXCEPT !.at = "touch"]
    BY <1>2, <1>6, FollowingSteps DEF Put, Attach, Goto, Becomes
  <2> QED  BY <1>2, <1>4, <1>6, <2>1 DEF Put, Attach, RequestType
<1>7. CASE Touch(r) \/ Refresh(r)
  <2>1. req'[r] = [req[r] EXCEPT !.at = "sweep"]
    BY <1>7, <1>2, FollowingSteps DEF Touch, Refresh, Goto, Becomes
  <2>2. req'[r].at = "sweep" /\ req'[r].began = req[r].began /\ req'[r].id = i
    BY <1>2, <2>1 DEF RequestType
  <2>3. lastCallTime' = [lastCallTime EXCEPT ![i] = clock]
    BY <1>7 DEF Touch, Refresh, Touched
  <2>4. lastCallTime'[i] = clock  BY <1>0, <2>3 DEF TypeOK
  <2>5. req[r].began <= clock /\ clock - req[r].began <= Slack
    BY <1>0, <1>7 DEF Timely, Touch, Refresh
  <2> QED  BY <1>3, <2>2, <2>4, <2>5 DEF Timely
<1>8. CASE StartSweep(r)
  <2> DEFINE todo == {j \in Ids : lastCallTime[j] # Never}
  <2>1. req'[r] = [req[r] EXCEPT !.at = "visit", !.now = clock, !.todo = todo]
    BY <1>8, <1>2 DEF StartSweep, Becomes
  <2>2. /\ req'[r].at = "visit" /\ req'[r].now = clock /\ req'[r].todo = todo
        /\ req'[r].began = req[r].began /\ req'[r].id = i
        /\ req'[r].get = req[r].get /\ req'[r].found = req[r].found
    BY <1>2, <2>1 DEF RequestType
  <2>3. lastCallTime' = lastCallTime /\ req[r].at = "sweep"  BY <1>8 DEF StartSweep, maps
  <2> QED  BY <1>0, <1>3, <2>2, <2>3 DEF Timely
<1>9. CASE \E j \in Ids : Visit(r, j)
  <2>1. PICK j \in Ids : Visit(r, j)  BY <1>9
  <2>2. req[r] \in RequestType /\ req[r].at = "visit"
    BY <1>2, <2>1 DEF Visit
  <2>3. lastCallTime' = lastCallTime /\ proc' = proc
    BY <2>1 DEF Visit, maps, lives
  <2>4. CASE Expired(req[r].now, lastCallTime[j])
    <3>1. req'[r] = [req[r] EXCEPT !.todo = @ \ {j}, !.victim = j, !.at = "kill"]
      BY <1>2, <2>1, <2>4 DEF Visit, Becomes
    <3>2. /\ req'[r].at = "kill" /\ req'[r].now = req[r].now
          /\ req'[r].todo = req[r].todo \ {j} /\ req'[r].victim = j
          /\ req'[r].began = req[r].began /\ req'[r].id = i
          /\ req'[r].get = req[r].get /\ req'[r].found = req[r].found
      BY ONLY <2>2, <3>1 DEF RequestType, id
    <3>3. Fresh(r) => j # i
      BY <1>0, <2>2, <2>4 DEF Timely, Expired
    <3> QED  BY <1>0, <1>3, <2>2, <2>3, <3>2, <3>3 DEF Timely, Expired
  <2>5. CASE ~Expired(req[r].now, lastCallTime[j])
    <3>1. req'[r] = [req[r] EXCEPT !.todo = @ \ {j}]
      BY <1>2, <2>1, <2>5 DEF Visit, Becomes
    <3>2. /\ req'[r].at = "visit" /\ req'[r].now = req[r].now
          /\ req'[r].todo = req[r].todo \ {j}
          /\ req'[r].began = req[r].began /\ req'[r].id = i
          /\ req'[r].get = req[r].get /\ req'[r].found = req[r].found
      BY ONLY <2>2, <3>1 DEF RequestType, id
    <3> QED  BY <1>0, <1>3, <2>2, <2>3, <2>5, <3>2 DEF Timely, Expired
  <2> QED  BY <2>4, <2>5
<1>10. CASE Kill(r)
  <2> DEFINE v == req[r].victim
  <2>1. req'[r] = [req[r] EXCEPT !.at = "visit", !.victim = None]
    BY <1>10, <1>2 DEF Kill, Becomes
  <2>2. req[r] \in RequestType /\ req[r].at = "kill"
    BY <1>2, <1>10 DEF Kill
  <2>3. /\ req'[r].at = "visit" /\ req'[r].now = req[r].now
        /\ req'[r].todo = req[r].todo
        /\ req'[r].began = req[r].began /\ req'[r].id = i
        /\ req'[r].get = req[r].get /\ req'[r].found = req[r].found
    BY ONLY <2>1, <2>2 DEF RequestType, id
  <2>4. v \in Ids /\ lastCallTime[v] # Never => proc'[v] = "dead"
    <3>1. CASE v \in controllers
      BY <1>10, <3>1 DEF Kill, TypeOK
    <3>2. CASE v \notin controllers
      BY <1>10, <3>2 DEF Kill, TimedHeld, Held
    <3> QED  BY <3>1, <3>2
  <2>5. lastCallTime' = lastCallTime  BY <1>10 DEF Kill, maps
  <2> QED  BY <1>0, <1>1, <1>3, <2>2, <2>3, <2>4, <2>5 DEF Timely, Expired, Keeps
<1>11. CASE EndSweep(r)
  <2>1. ASSUME NEW s \in {"lookup", "open"},
               Becomes(r, [req[r] EXCEPT !.at = s, !.now = 0])
        PROVE  Timely(r)'
    <3>1. req'[r] = [req[r] EXCEPT !.at = s, !.now = 0]
      BY <2>1, <1>2 DEF Becomes
    <3>2. req'[r].at = s /\ req'[r].began = req[r].began
      BY <1>2, <3>1 DEF RequestType
    <3> QED  BY <1>4, <1>11, <3>2 DEF EndSweep
  <2>2. ASSUME NEW line, Answered(r, line)  PROVE Timely(r)'
    <3>1. req'[r].at = "done"  BY <2>2, <1>2 DEF Answered, Becomes, RequestType
    <3> QED  BY <3>1, <1>5
  <2> QED  BY <1>11, <2>1, <2>2 DEF EndSweep
<1>12. CASE Lookup(r)
  <2> DEFINE found == i \in controllers
  <2>1. req'[r] = [req[r] EXCEPT !.get = TRUE, !.found = found,
                                 !.at = AfterLookup(found)]
    BY <1>12, <1>2 DEF Lookup, Becomes
  <2>2. CASE found
    <3>1. found = TRUE  BY <2>2
    <3>2. req'[r] = [req[r] EXCEPT !.get = TRUE, !.found = TRUE, !.at = "refresh"]
      BY <2>1, <3>1, Zenon DEF AfterLookup
    <3>3. req'[r].at = "refresh" /\ req'[r].began = req[r].began
      BY <1>2, <3>2 DEF RequestType
    <3> QED  BY <1>4, <1>12, <3>3 DEF Lookup
  <2>3. CASE ~found
    <3>1. found = FALSE  BY <2>3
    <3>2. req'[r] = [req[r] EXCEPT !.get = TRUE, !.found = FALSE, !.at = "sweep"]
      BY <2>1, <3>1, Zenon DEF AfterLookup
    <3>3. /\ req'[r].at = "sweep" /\ req'[r].began = req[r].began
          /\ req'[r].get /\ ~req'[r].found
      BY <1>2, <3>2 DEF RequestType
    <3> QED  BY <1>0, <1>3, <1>12, <3>3 DEF Lookup, Timely
  <2> QED  BY <2>2, <2>3
<1>13. CASE Open(r)
  <2>1. req'[r] = [req[r] EXCEPT !.at = AfterOpen(req[r].kind)]
    BY <1>13, <1>2 DEF Open, Goto, Becomes
  <2>2. req'[r].at \in {"receive", "send"} /\ req'[r].began = req[r].began
    BY <1>2, <2>1 DEF RequestType, AfterOpen
  <2> QED  BY <1>4, <1>13, <2>2 DEF Open
<1>14. CASE Send(r) \/ Receive(r) \/ ReceiveTogether(r)
  <2>1. Goto(r, "receive") \/ \E line : Answered(r, line)
    BY <1>14 DEF Send, Receive, ReceiveTogether
  <2>2. ASSUME NEW line, Answered(r, line)  PROVE req'[r].at = "done"
    BY <1>2, <2>2 DEF Answered, Becomes, RequestType
  <2>3. Goto(r, "receive") => req'[r].at = "receive"
    BY <1>2 DEF Goto, Becomes, RequestType
  <2> QED  BY <2>1, <2>2, <2>3, <1>5
<1> QED  BY <1>6, <1>7, <1>8, <1>9, <1>10, <1>11, <1>12, <1>13, <1>14 DEF Proceed

LEMMA StartTimely ==
    ASSUME InTime, Next, NEW r \in Requests,
           StartFails(r) \/ \E i \in Ids : StartRun(r, i) \/ StartTalk(r, i)
    PROVE  Timely(r)'
<1> USE HoldingType, Times DEF At, Computing, InTime
<1>1. req \in [Requests -> RequestType]  BY Types
<1>2. CASE StartFails(r)
  <2>1. req'[r].at = "done"
    BY <1>1, <1>2 DEF StartFails, Becomes, RequestType
  <2> QED  BY <2>1 DEF Timely
<1>3. CASE \E i \in Ids : StartRun(r, i) \/ StartTalk(r, i)
  <2>1. PICK i \in Ids : StartRun(r, i) \/ StartTalk(r, i)  BY <1>3
  <2>2. \E s \in {"put", "lookup"}, k \in {"run", "talk"} :
          req'[r] = [req[r] EXCEPT !.at = s, !.kind = k, !.id = i, !.began = clock]
    BY <1>1, <2>1 DEF StartRun, StartTalk, Becomes, RunOrder
  <2>3. req'[r].at \in {"put", "lookup"} /\ req'[r].began = clock
    BY <1>1, <2>2 DEF RequestType
  <2>4. clock' = clock  BY <2>1 DEF StartRun, StartTalk
  <2> QED  BY <2>3, <2>4 DEF Timely
<1> QED  BY <1>2, <1>3

LEMMA NextInTime == InTime /\ [Next]_vars => InTime'
<1> SUFFICES ASSUME InTime, [Next]_vars PROVE InTime'  OBVIOUS
<1>1. Holding'  BY NextHolding DEF InTime
<1>2. CASE UNCHANGED vars
  <2>1. \A r \in Requests : Timely(r)'
    BY <1>2 DEF InTime, vars, Timely, Computing, Fresh, Expired, At, id
  <2> QED  BY <1>1, <2>1 DEF InTime
<1>3. CASE Next
  <2>1. ASSUME NEW q \in Requests  PROVE Timely(q)'
    BY <1>3, OwnSteps, OthersTimely, ProceedTimely, StartTimely DEF InTime
  <2> QED  BY <1>1, <2>1 DEF InTime
<1> QED  BY <1>2, <1>3

LEMMA SafetyInTime == Safety => []InTime
<1> QED  BY InTimeInit, NextInTime, PTL DEF Safety

\* The sweep of a request never ends the session the request touched.
THEOREM OwnSpared == Safety => []OwnSweepSpares
<1>1. InTime => OwnSweepSpares
  BY DEF InTime, Timely, Fresh, OwnSweepSpares
<1> QED  BY <1>1, SafetyInTime, PTL

\* A sweep leaves no session that was idle for too long.
THEOREM IdleCaught == Safety => SweepsCatchIdle
<1> DEFINE Caught ==
        \A r \in Requests : EndSweep(r) =>
            \A i \in controllers :
                /\ lastCallTime[i] # Never
                /\ req[r].now - lastCallTime[i] > Timeout
                => proc[i] = "dead"
<1>1. InTime => Caught
  <2> SUFFICES ASSUME InTime, NEW r \in Requests, EndSweep(r), NEW i \in controllers,
                      lastCallTime[i] # Never, req[r].now - lastCallTime[i] > Timeout
               PROVE  proc[i] = "dead"
    OBVIOUS
  <2>1. i \in Ids  BY HoldingType DEF InTime, TypeOK
  <2> QED  BY <2>1 DEF InTime, Timely, Expired, EndSweep, At
<1>2. InTime /\ [Next]_vars => [Caught]_vars
  BY <1>1
<1> QED  BY <1>2, SafetyInTime, PTL DEF Safety, SweepsCatchIdle

-----------------------------------------------------------------------------
(* Lines and the requests that wait for them *)

kind(r) == req[r].kind

\* Sessions whose lines and requests may be out of step.
Untidy == shared \cup garbled

\* m has sent its line to session i and has not got an answer.
Waiting(m, i) == m \in Requests /\ kind(m) = "talk" /\ id(m) = i /\ At(m, "receive")

\* What request r knows of the others that use its session.
Paired(r) ==
    /\ At(r, "idle") => kind(r) = None
    /\ ~At(r, "idle") => kind(r) \in {"run", "talk"}
    /\ At(r, "send") => kind(r) = "talk"
    /\ kind(r) = "run" /\ id(r) \in Ids =>
          /\ proc[id(r)] # "none"
          /\ \A q \in Requests : kind(q) = "run" /\ id(q) = id(r) => q = r
    /\ kind(r) = "talk" => id(r) \in Known
    /\ kind(r) = "talk" /\ id(r) \notin Untidy /\ ~At(r, "done") =>
          \A q \in Talking(id(r)) : q = r
    /\ kind(r) = "talk" /\ id(r) \notin Untidy /\ At(r, "done") =>
          req[r].reply \in {r, "gone", "error"}

\* Before the program prints its first line, its pipes are empty.
Quiet(i) ==
    /\ proc[i] \in {"none", "starting"} => stdin[i] = <<>> /\ stdout[i] = <<>>
    /\ i \in Known => proc[i] \in {"alive", "dead"}

\* One line at most is under way, and its request waits for it.
OneLine(i) ==
    /\ Len(stdout[i]) <= 1
    /\ proc[i] = "alive" => Len(stdin[i]) + Len(stdout[i]) <= 1
    /\ \A n \in DOMAIN stdout[i] :
          \/ stdout[i][n] = "init" /\ i \notin Known
          \/ Waiting(stdout[i][n], i)
    /\ proc[i] = "alive" => \A n \in DOMAIN stdin[i] : Waiting(stdin[i][n], i)

Exchange ==
    /\ Holding
    /\ \A r \in Requests : Paired(r)
    /\ \A i \in Ids : Quiet(i)
    /\ \A i \in Ids \ Untidy : OneLine(i)

LEMMA ExchangeInit == Init => Exchange
<1> SUFFICES ASSUME Init PROVE Exchange  OBVIOUS
<1>1. Known = {}  BY DEF Init, Known, At
<1>2. \A r \in Requests : Paired(r)
  BY DEF Init, Paired, At, kind, None
<1>3. \A i \in Ids : Quiet(i)
  BY <1>1 DEF Init, Quiet
<1>4. \A i \in Ids : OneLine(i)
  BY DEF Init, OneLine
<1> QED  BY <1>2, <1>3, <1>4, HoldingInit DEF Exchange

\* A step after which every request knows what it knew.
Same ==
    /\ Untidy \subseteq Untidy'
    /\ \A q \in Requests :
          /\ kind(q)' = kind(q) /\ id(q)' = id(q)
          /\ At(q, "idle")' <=> At(q, "idle")
          /\ At(q, "done")' <=> At(q, "done")
          /\ At(q, "done") => req'[q].reply = req[q].reply
          /\ At(q, "receive") => At(q, "receive")'
          /\ At(q, "send")' => At(q, "send") \/ kind(q) = "talk"

LEMMA SameDerived ==
    ASSUME Same
    PROVE  /\ Known' = Known
           /\ \A i : Talking(i)' = Talking(i)
           /\ \A m, i : Waiting(m, i) => Waiting(m, i)'
<1>1. Known' = Known  BY DEF Same, Known, kind
<1>2. \A i : Talking(i)' = Talking(i)  BY DEF Same, Talking, id, kind
<1>3. \A m, i : Waiting(m, i) => Waiting(m, i)'  BY DEF Same, Waiting
<1> QED  BY <1>1, <1>2, <1>3

\* How a step may change a process.
Lives(i) ==
    /\ proc[i] # "none" => proc'[i] # "none"
    /\ proc[i] \in {"alive", "dead"} => proc'[i] \in {"alive", "dead"}

LEMMA SamePaired ==
    ASSUME Exchange, Same, \A i \in Ids : Lives(i), NEW r \in Requests
    PROVE  Paired(r)'
<1>1. Paired(r)  BY DEF Exchange
<1> QED  BY <1>1, SameDerived DEF Same, Paired, Lives

\* Steps that do not touch the pipes.
LEMMA SameExchange ==
    ASSUME Exchange, Holding', Same, UNCHANGED <<proc, pipes>>
    PROVE  Exchange'
<1>1. \A i \in Ids : Lives(i)  BY DEF Lives
<1>2. \A r \in Requests : Paired(r)'  BY <1>1, SamePaired
<1>3. \A i \in Ids : Quiet(i)'
  BY SameDerived DEF Exchange, Quiet, pipes
<1>4. \A i \in Ids \ Untidy' : OneLine(i)'
  BY SameDerived DEF Exchange, OneLine, pipes, Same
<1> QED  BY <1>2, <1>3, <1>4 DEF Exchange

LEMMA OnlyOne ==
    ASSUME NEW n \in Nat \ {0}, n <= 1
    PROVE  n = 1
OBVIOUS

LEMMA TailOfOne ==
    ASSUME NEW S, NEW seq \in Seq(S), Len(seq) = 1
    PROVE  Tail(seq) = <<>>
<1>1. seq # <<>>  BY EmptySeq
<1>2. Tail(seq) \in Seq(S) /\ Len(Tail(seq)) = Len(seq) - 1
  BY <1>1, HeadTailProperties
<1>3. Len(Tail(seq)) = 0  BY <1>2
<1> QED  BY <1>2, <1>3, EmptySeq

LEMMA OneOfTwo ==
    ASSUME NEW m \in Nat, NEW n \in Nat, m + n <= 1
    PROVE  m + 0 <= 1 /\ (m # 0 => m = 1 /\ n = 0)
OBVIOUS

LEMMA ProgramExchange ==
    ASSUME Exchange, Holding', NEW i \in Ids,
           Boot(i) \/ Answer(i) \/ ProcessExits(i) \/ Reap(i)
    PROVE  Exchange'
<1>1. Same
  BY DEF Same, Untidy, Boot, Answer, ProcessExits, Reap, ReadErrors, ReadOutput,
         Remove, requests, kind, id, At
<1>2. TypeOK  BY HoldingType DEF Exchange
<1>3. \A j \in Ids : Lives(j)
  BY <1>2 DEF Lives, TypeOK, Boot, Answer, ProcessExits, Reap, ReadErrors,
             ReadOutput, Remove, lives
<1>4. \A r \in Requests : Paired(r)'  BY <1>1, <1>3, SamePaired
<1>5. ASSUME NEW j \in Ids, UNCHANGED <<proc[j], stdin[j], stdout[j]>>
      PROVE  Quiet(j)' /\ (j \notin Untidy' => OneLine(j)')
  BY <1>1, <1>5, SameDerived DEF Exchange, Quiet, OneLine, Same
<1>6. \A j \in Ids \ {i} : UNCHANGED <<proc[j], stdin[j], stdout[j]>>
  BY <1>2 DEF TypeOK, Boot, Answer, ProcessExits, Reap, ReadErrors, ReadOutput,
              Remove, lives, pipes
<1>7. Quiet(i)' /\ (i \notin Untidy' => OneLine(i)')
  <2>0. /\ Quiet(i) /\ (i \notin Untidy => OneLine(i))
        /\ stdin[i] \in Seq(Requests) /\ stdout[i] \in Seq(Requests \cup {"init"})
    BY <1>2 DEF Exchange, TypeOK
  <2> Len(stdin[i]) \in Nat /\ Len(stdout[i]) \in Nat
    BY <2>0, LenProperties
  <2> i \notin Untidy' => i \notin Untidy  BY <1>1 DEF Same
  <2>1. CASE Boot(i)
    <3>1. stdout'[i] = <<"init">> /\ stdin'[i] = <<>> /\ proc'[i] = "alive"
          /\ i \notin Known
      BY <1>2, <2>0, <2>1 DEF Boot, Quiet, TypeOK
    <3> QED  BY <3>1, <1>1, SameDerived DEF Quiet, OneLine
  <2>2. CASE Answer(i)
    <3>1. /\ stdin'[i] = Tail(stdin[i]) /\ stdin[i] # <<>>
          /\ proc'[i] = "alive" /\ proc[i] = "alive"
      BY <1>2, <2>2 DEF Answer, TypeOK, lives
    <3>2. Quiet(i)'  BY <2>0, <3>1, <1>1, SameDerived DEF Quiet
    <3>4. PICK n \in 0 .. MaxAnswers :
             /\ stdout' = [stdout EXCEPT ![i] = @ \o [k \in 1 .. n |-> Head(stdin[i])]]
             /\ garbled' = IF n = 1 THEN garbled ELSE garbled \cup {i}
      BY <2>2 DEF Answer
    <3>3. ASSUME i \notin Untidy'  PROVE OneLine(i)'
      <4>8. n = 1 /\ i \notin Untidy  BY <1>1, <3>3, <3>4 DEF Untidy, Same
      <4>9. stdout'[i] = stdout[i] \o <<Head(stdin[i])>>
        <5>1. [k \in 1 .. 1 |-> Head(stdin[i])] = <<Head(stdin[i])>>  OBVIOUS
        <5>2. stdout'[i] = stdout[i] \o [k \in 1 .. n |-> Head(stdin[i])]
          BY <1>2, <3>4 DEF TypeOK
        <5> QED  BY <4>8, <5>1, <5>2
      <4>0. Len(stdin[i]) \in Nat \ {0}  BY <2>0, <3>1, EmptySeq
      <4>1. Len(stdin[i]) + Len(stdout[i]) <= 1
        BY <2>0, <3>1, <4>8 DEF OneLine
      <4>2. Len(stdin[i]) = 1 /\ Len(stdout[i]) = 0
        BY <4>0, <4>1, OneOfTwo
      <4>3. stdout[i] = <<>>  BY <2>0, <4>2, EmptySeq
      <4>5. Head(stdin[i]) = stdin[i][1]  OBVIOUS
      <4>6. Tail(stdin[i]) = <<>>  BY <2>0, <4>2, TailOfOne
      <4>7. stdin'[i] = <<>> /\ stdout'[i] = <<stdin[i][1]>>
        BY <3>1, <4>3, <4>5, <4>6, <4>9
      <4>4. Waiting(stdin[i][1], i)
        BY <2>0, <3>1, <4>8, <4>2 DEF OneLine
      <4> QED  BY <4>7, <4>4, <1>1, SameDerived DEF OneLine
    <3> QED  BY <3>2, <3>3
  <2>3. CASE ProcessExits(i)
    <3>1. proc'[i] = "dead" /\ UNCHANGED pipes
      BY <1>2, <2>3 DEF ProcessExits, TypeOK
    <3> QED  BY <2>0, <3>1, <1>1, SameDerived DEF Quiet, OneLine, pipes
  <2>4. CASE ReadErrors(i) \/ Remove(i)
    <3>1. UNCHANGED <<proc[i], stdin[i], stdout[i]>>
      BY <2>4 DEF ReadErrors, Remove, pipes
    <3> QED  BY <3>1, <1>5
  <2>5. CASE ReadOutput(i)
    <3>1. stdout'[i] = <<>> /\ UNCHANGED <<proc, stdin>>
      BY <1>2, <2>5 DEF ReadOutput, TypeOK
    <3>2. Quiet(i)'  BY <2>0, <3>1, <1>1, SameDerived DEF Quiet
    <3>3. ASSUME i \notin Untidy  PROVE OneLine(i)'
      <4>1. Len(stdout'[i]) = 0 /\ DOMAIN stdout'[i] = {}  BY <3>1
      <4>2. OneLine(i)  BY <2>0, <3>3
      <4>3. proc'[i] = "alive" => Len(stdin'[i]) + Len(stdout'[i]) <= 1
        BY <3>1, <4>1, <4>2, OneOfTwo DEF OneLine
      <4> QED  BY <3>1, <4>1, <4>2, <4>3, <1>1, SameDerived DEF OneLine
    <3> QED  BY <3>2, <3>3
  <2> QED  BY <2>1, <2>2, <2>3, <2>4, <2>5 DEF Reap
<1> QED  BY <1>1, <1>4, <1>5, <1>6, <1>7 DEF Exchange, Same

\* A step of one request that neither begins nor ends it.
LEMMA SameStep ==
    ASSUME Exchange, NEW r \in Requests, NEW record, Becomes(r, record),
           record.kind = kind(r), record.id = id(r),
           req[r].at \notin {"idle", "receive", "done"},
           record.at \notin {"idle", "done"}, Untidy' = Untidy,
           record.at = "send" => kind(r) = "talk"
    PROVE  Same
<1>1. req \in [Requests -> RequestType]  BY HoldingType, Types DEF Exchange
<1>2. \A q \in Requests : q = r \/ req'[q] = req[q]  BY <1>1 DEF Becomes
<1>3. req'[r] = record  BY <1>1 DEF Becomes
<1> QED  BY <1>2, <1>3 DEF Same, kind, id, At

LEMMA SilentSame ==
    ASSUME Exchange, NEW r \in Requests,
           \/ Put(r) \/ Attach(r) \/ Touch(r) \/ Refresh(r) \/ StartSweep(r)
           \/ (\E i \in Ids : Visit(r, i)) \/ Kill(r) \/ Lookup(r) \/ Open(r)
           \/ Send(r)
    PROVE  Same
<1> req[r] \in RequestType  BY HoldingType, Types DEF Exchange
<1> USE DEF At, kind, id, Untidy
<1>1. ASSUME NEW step \in {"attach", "touch", "sweep", "receive", "send"},
             Goto(r, step), req[r].at \notin {"idle", "receive", "done"},
             Untidy' = Untidy, step = "send" => kind(r) = "talk"
      PROVE  Same
  <2> DEFINE record == [req[r] EXCEPT !.at = step]
  <2>1. record.kind = kind(r) /\ record.id = id(r) /\ record.at = step
    BY DEF RequestType
  <2>2. Becomes(r, record)  BY <1>1 DEF Goto
  <2> HIDE DEF record
  <2> QED  BY <1>1, <2>1, <2>2, SameStep
<1>2. CASE Put(r) \/ Attach(r) \/ Touch(r) \/ Refresh(r)
  BY <1>1, <1>2, FollowingSteps DEF Put, Attach, Touch, Refresh
<1>3. CASE Open(r) \/ Send(r)
  <2>1. /\ AfterOpen(req[r].kind) \in {"receive", "send"}
        /\ AfterOpen(req[r].kind) = "send" => kind(r) # "run"
    BY DEF AfterOpen
  <2>2. kind(r) \in {"run", "talk"}
    BY <1>3 DEF Exchange, Paired, Open, Send
  <2> QED  BY <1>1, <1>3, <2>1, <2>2 DEF Open, Send
<1>4. CASE StartSweep(r)
  <2> DEFINE record == [req[r] EXCEPT !.at = "visit", !.now = clock,
                         !.todo = {i \in Ids : lastCallTime[i] # Never}]
  <2>1. record.kind = kind(r) /\ record.id = id(r) /\ record.at = "visit"
    BY DEF RequestType
  <2>2. Becomes(r, record) /\ req[r].at = "sweep" /\ Untidy' = Untidy
    BY <1>4 DEF StartSweep
  <2> HIDE DEF record
  <2> QED  BY <2>1, <2>2, SameStep
<1>5. CASE \E i \in Ids : Visit(r, i)
  <2> PICK i \in Ids : Visit(r, i)  BY <1>5
  <2> DEFINE expired == [req[r] EXCEPT !.todo = @ \ {i}, !.victim = i, !.at = "kill"]
             recent == [req[r] EXCEPT !.todo = @ \ {i}]
  <2>1. /\ expired.kind = kind(r) /\ expired.id = id(r) /\ expired.at = "kill"
        /\ recent.kind = kind(r) /\ recent.id = id(r) /\ recent.at = req[r].at
    BY DEF RequestType
  <2>2. /\ Becomes(r, expired) \/ Becomes(r, recent)
        /\ req[r].at = "visit" /\ Untidy' = Untidy
    BY DEF Visit
  <2> HIDE DEF expired, recent
  <2> QED  BY <2>1, <2>2, SameStep
<1>6. CASE Kill(r)
  <2> DEFINE record == [req[r] EXCEPT !.at = "visit", !.victim = None]
  <2>1. record.kind = kind(r) /\ record.id = id(r) /\ record.at = "visit"
    BY DEF RequestType
  <2>2. Becomes(r, record) /\ req[r].at = "kill" /\ Untidy' = Untidy
    BY <1>6 DEF Kill
  <2> HIDE DEF record
  <2> QED  BY <2>1, <2>2, SameStep
<1>7. CASE Lookup(r)
  <2> DEFINE record == [req[r] EXCEPT !.get = TRUE,
                                 !.found = id(r) \in controllers,
                                 !.at = AfterLookup(id(r) \in controllers)]
  <2>1. record.kind = kind(r) /\ record.id = id(r)
        /\ record.at = AfterLookup(id(r) \in controllers)
    BY Zenon DEF RequestType
  <2>2. AfterLookup(id(r) \in controllers) \in {"refresh", "sweep"}
    BY Zenon DEF AfterLookup
  <2>3. Becomes(r, record) /\ req[r].at = "lookup" /\ Untidy' = Untidy
    BY <1>7 DEF Lookup
  <2> HIDE DEF record
  <2> QED  BY <2>1, <2>2, <2>3, SameStep
<1> QED  BY <1>2, <1>3, <1>4, <1>5, <1>6, <1>7

LEMMA SilentExchange ==
    ASSUME Exchange, Holding', NEW r \in Requests,
           \/ Put(r) \/ Attach(r) \/ Touch(r) \/ Refresh(r) \/ StartSweep(r)
           \/ (\E i \in Ids : Visit(r, i)) \/ Lookup(r) \/ Open(r)
    PROVE  Exchange'
<1>1. Same  BY SilentSame
<1>2. UNCHANGED <<proc, pipes>>
  BY DEF Put, Attach, Touch, Refresh, StartSweep, Visit, Lookup, Open, lives
<1> QED  BY <1>1, <1>2, SameExchange

LEMMA KillExchange ==
    ASSUME Exchange, Holding', NEW r \in Requests, Kill(r)
    PROVE  Exchange'
<1>1. Same  BY SilentSame
<1>2. TypeOK  BY HoldingType DEF Exchange
<1> PICK v : v = req[r].victim  OBVIOUS
<1>3. CASE v \notin controllers
  <2>1. UNCHANGED <<proc, pipes>>  BY <1>3 DEF Kill, pipes
  <2> QED  BY <1>1, <2>1, SameExchange
<1>4. CASE v \in controllers
  <2>1. PICK n \in 0 .. Len(stdout[v]) :
            /\ proc' = [proc EXCEPT ![v] = "dead"]
            /\ stdout' = [stdout EXCEPT ![v] = SubSeq(@, 1, n)]
            /\ stdin' = stdin
    BY <1>4 DEF Kill
  <2>2. v \in Ids  BY <1>2, <1>4 DEF TypeOK
  <2>3. \A i \in Ids : Lives(i)  BY <1>2, <2>1 DEF Lives, TypeOK
  <2>4. \A q \in Requests : Paired(q)'  BY <1>1, <2>3, SamePaired
  <2>5. ASSUME NEW i \in Ids, i # v
        PROVE  Quiet(i)' /\ (i \notin Untidy => OneLine(i)')
    <3>1. UNCHANGED <<proc[i], stdin[i], stdout[i]>>
      BY <1>2, <2>1, <2>5 DEF TypeOK
    <3> QED  BY <1>1, <3>1, SameDerived DEF Exchange, Quiet, OneLine
  <2>6. Quiet(v)' /\ (v \notin Untidy => OneLine(v)')
    <3>1. proc'[v] = "dead"  BY <1>2, <2>1, <2>2 DEF TypeOK
    <3>2. Quiet(v)'  BY <3>1 DEF Quiet
    <3>3. ASSUME v \notin Untidy  PROVE OneLine(v)'
      <4>1. stdout[v] \in Seq(Requests \cup {"init"})  BY <1>2, <2>2 DEF TypeOK
      <4>2. stdout'[v] = SubSeq(stdout[v], 1, n)  BY <1>2, <2>1, <2>2 DEF TypeOK
      <4>3. /\ Len(stdout'[v]) = n
            /\ \A m \in DOMAIN stdout'[v] :
                  m \in DOMAIN stdout[v] /\ stdout'[v][m] = stdout[v][m]
        BY <4>1, <4>2
      <4>4. OneLine(v)  BY <2>2, <3>3 DEF Exchange
      <4>5. Len(stdout'[v]) <= 1
        <5>1. Len(stdout[v]) <= 1 /\ Len(stdout[v]) \in Nat
          BY <4>1, <4>4, LenProperties DEF OneLine
        <5>2. n \in Int /\ n <= Len(stdout[v])  BY <5>1
        <5> QED  BY <4>3, <5>1, <5>2
      <4> QED  BY <3>1, <4>3, <4>4, <4>5, <1>1, SameDerived DEF OneLine
    <3> QED  BY <3>2, <3>3
  <2> QED  BY <1>1, <2>4, <2>5, <2>6 DEF Exchange, Same
<1> QED  BY <1>3, <1>4

\* The steps that begin or end a request change one record of it.
LEMMA OneRecord ==
    ASSUME Exchange, NEW r \in Requests, NEW record, Becomes(r, record)
    PROVE  req'[r] = record /\ \A q \in Requests \ {r} : req'[q] = req[q]
BY HoldingType, Types DEF Exchange, Becomes

LEMMA NoElements ==
    ASSUME NEW S, NEW seq \in Seq(S), DOMAIN seq = {}
    PROVE  seq = <<>>
<1> SUFFICES ASSUME seq # <<>> PROVE FALSE  OBVIOUS
<1>1. Len(seq) \in Nat \ {0}  BY EmptySeq
<1>2. DOMAIN seq = 1 .. Len(seq)  BY LenProperties
<1>3. 1 \in DOMAIN seq  BY <1>1, <1>2
<1> QED  BY <1>3

LEMMA SendExchange ==
    ASSUME Exchange, Holding', NEW r \in Requests, Send(r)
    PROVE  Exchange'
<1>1. Same  BY SilentSame
<1>2. TypeOK  BY HoldingType DEF Exchange
<1> PICK i : i = id(r)  OBVIOUS
<1>3. /\ i \in Ids /\ At(r, "send") /\ kind(r) = "talk" /\ i \in Known
  BY HoldingType DEF Exchange, Send, At, Paired
<1>4. CASE proc[i] = "dead"
  <2>1. UNCHANGED <<proc, pipes>>  BY <1>4 DEF Send, Sent, lives, pipes
  <2> QED  BY <1>1, <2>1, SameExchange
<1>5. CASE proc[i] # "dead"
  <2>1. /\ stdin' = [stdin EXCEPT ![i] = Append(@, r)]
        /\ stdout' = stdout /\ proc' = proc
    BY <1>5 DEF Send, Sent, lives
  <2>2. \A j \in Ids : Lives(j)  BY <2>1 DEF Lives
  <2>3. \A q \in Requests : Paired(q)'  BY <1>1, <2>2, SamePaired
  <2>4. ASSUME NEW j \in Ids, j # i
        PROVE  Quiet(j)' /\ (j \notin Untidy => OneLine(j)')
    <3>1. UNCHANGED <<proc[j], stdin[j], stdout[j]>>
      BY <1>2, <2>1, <2>4 DEF TypeOK
    <3> QED  BY <1>1, <3>1, SameDerived DEF Exchange, Quiet, OneLine
  <2>5. proc[i] = "alive" /\ Quiet(i)'
    BY <1>1, <1>3, <1>5, <2>1, SameDerived DEF Exchange, Quiet
  <2>6. ASSUME i \notin Untidy  PROVE OneLine(i)'
    <3>1. OneLine(i)  BY <1>3, <2>6 DEF Exchange
    <3>2. \A m : ~Waiting(m, i)
      BY <1>3, <2>6 DEF Exchange, Paired, Talking, Waiting, At, kind, id
    <3>3. DOMAIN stdout[i] = {} /\ DOMAIN stdin[i] = {}
      BY <1>3, <2>5, <3>1, <3>2 DEF OneLine
    <3>4. stdout[i] = <<>> /\ stdin[i] = <<>>
      BY <1>2, <1>3, <3>3, NoElements DEF TypeOK
    <3>5. stdout'[i] = <<>> /\ stdin'[i] = <<r>>
      BY <1>2, <1>3, <2>1, <3>4 DEF TypeOK
    <3>6. At(r, "receive")'
      <4>1. req'[r] = [req[r] EXCEPT !.at = "receive"]
        BY OneRecord DEF Send, Goto
      <4> QED  BY <4>1, HoldingType, Types DEF Exchange, RequestType, At
    <3>7. Waiting(r, i)'
      BY <1>1, <1>3, <3>6 DEF Waiting, Same
    <3> QED  BY <3>5, <3>7 DEF OneLine
  <2> QED  BY <1>1, <2>3, <2>4, <2>5, <2>6 DEF Exchange, Same
<1> QED  BY <1>4, <1>5

\* A request that ends without a line: its reply is not one.
LEMMA EndedPaired ==
    ASSUME Exchange, NEW r \in Requests, NEW line, Answered(r, line),
           req[r].at \notin {"idle", "done"}, UNCHANGED <<proc, Untidy>>,
           Known \subseteq Known',
           kind(r) = "talk" /\ id(r) \notin Untidy => line \in {r, "gone", "error"}
    PROVE  \A q \in Requests : Paired(q)'
<1>1. req[r] \in RequestType  BY HoldingType, Types DEF Exchange
<1> DEFINE record ==
        [req[r] EXCEPT !.at = "done", !.reply = line, !.now = 0,
                       !.began = 0, !.get = FALSE, !.found = FALSE]
<1>2. /\ record.at = "done" /\ record.reply = line
      /\ record.kind = kind(r) /\ record.id = id(r)
  BY <1>1 DEF RequestType, kind, id
<1> HIDE DEF record
<1>3. req'[r] = record /\ \A q \in Requests \ {r} : req'[q] = req[q]
  BY OneRecord DEF Answered, record
<1>4. \A q \in Requests : kind(q)' = kind(q) /\ id(q)' = id(q)
  BY <1>2, <1>3 DEF kind, id
<1>5. ASSUME NEW i  PROVE Talking(i)' \subseteq Talking(i)
  BY <1>2, <1>3 DEF Talking, At, kind, id
<1> SUFFICES ASSUME NEW q \in Requests PROVE Paired(q)'  OBVIOUS
<1>6. Paired(q)  BY DEF Exchange
<1>7. CASE q = r
  BY <1>2, <1>3, <1>4, <1>6, <1>7 DEF Paired, At
<1>8. CASE q # r
  BY <1>3, <1>4, <1>5, <1>6, <1>8 DEF Paired, At
<1> QED  BY <1>7, <1>8

\* What an answer changes for the others.
LEMMA AnsweredOthers ==
    ASSUME Exchange, NEW r \in Requests, NEW line, Answered(r, line),
           req[r].at \notin {"idle", "done"}
    PROVE  /\ Known' = IF kind(r) = "run" /\ line # "error"
                       THEN Known \cup {id(r)} ELSE Known
           /\ \A m, j : Waiting(m, j) /\ m # r => Waiting(m, j)'
<1>1. req[r] \in RequestType  BY HoldingType, Types DEF Exchange
<1> DEFINE record ==
        [req[r] EXCEPT !.at = "done", !.reply = line, !.now = 0,
                       !.began = 0, !.get = FALSE, !.found = FALSE]
<1>2. /\ record.at = "done" /\ record.reply = line
      /\ record.kind = kind(r) /\ record.id = id(r)
  BY <1>1 DEF RequestType, kind, id
<1> HIDE DEF record
<1>3. req'[r] = record /\ \A q \in Requests \ {r} : req'[q] = req[q]
  BY OneRecord DEF Answered, record
<1>4. \A m, j : Waiting(m, j) /\ m # r => Waiting(m, j)'
  BY <1>3 DEF Waiting, kind, id, At
<1> PICK K : K = {q \in Requests :
                    req[q].kind = "run" /\ At(q, "done") /\ req[q].reply # "error"}
  OBVIOUS
<1> PICK L : L = {q \in Requests :
                    req'[q].kind = "run" /\ At(q, "done")' /\ req'[q].reply # "error"}
  OBVIOUS
<1>5. Known = {id(q) : q \in K} /\ Known' = {req'[q].id : q \in L}
  BY DEF Known, id
<1>6. \A q \in Requests : req'[q].id = id(q)
  BY <1>2, <1>3 DEF id
<1>7. L = IF kind(r) = "run" /\ line # "error" THEN K \cup {r} ELSE K
  BY <1>2, <1>3 DEF At, kind
<1>8. K \subseteq Requests /\ L \subseteq Requests  OBVIOUS
<1>9. CASE kind(r) = "run" /\ line # "error"
  <2>1. L = K \cup {r}  BY <1>7, <1>9
  <2>2. {req'[q].id : q \in L} = {id(q) : q \in K} \cup {id(r)}
    BY ONLY <2>1, <1>6, <1>8
  <2> QED  BY <1>4, <1>5, <1>9, <2>2
<1>10. CASE ~(kind(r) = "run" /\ line # "error")
  <2>1. L = K  BY <1>7, <1>10
  <2>2. {req'[q].id : q \in L} = {id(q) : q \in K}
    BY ONLY <2>1, <1>6, <1>8
  <2> QED  BY <1>4, <1>5, <1>10, <2>2
<1> QED  BY <1>9, <1>10

LEMMA EndSweepExchange ==
    ASSUME Exchange, Holding', NEW r \in Requests, EndSweep(r)
    PROVE  Exchange'
<1>1. req[r] \in RequestType /\ req[r].at = "visit" /\ Untidy' = Untidy
      /\ UNCHANGED <<proc, pipes>>
  BY HoldingType, Types DEF Exchange, EndSweep, At, lives, Untidy
<1>2. ASSUME NEW s \in {"lookup", "open"},
             Becomes(r, [req[r] EXCEPT !.at = s, !.now = 0])
      PROVE  Exchange'
  <2> DEFINE record == [req[r] EXCEPT !.at = s, !.now = 0]
  <2>1. record.at = s /\ record.kind = kind(r) /\ record.id = id(r)
    BY <1>1 DEF RequestType, kind, id
  <2>2. Becomes(r, record)  BY <1>2
  <2> HIDE DEF record
  <2>3. Same  BY <1>1, <2>1, <2>2, SameStep
  <2> QED  BY <1>1, <2>3, SameExchange
<1>3. ASSUME NEW line \in {"error", "gone"}, Answered(r, line),
             kind(r) = "run" => line = "error"
      PROVE  Exchange'
  <2>1. /\ Known' = Known
        /\ \A m, j : Waiting(m, j) => Waiting(m, j)'
    BY <1>1, <1>3, AnsweredOthers DEF Waiting, At
  <2>2. \A q \in Requests : Paired(q)'
    BY <1>1, <1>3, <2>1, EndedPaired
  <2>3. \A j \in Ids : Quiet(j)'
    BY <1>1, <2>1 DEF Exchange, Quiet, pipes
  <2>4. \A j \in Ids \ Untidy' : OneLine(j)'
    BY <1>1, <2>1 DEF Exchange, OneLine, pipes
  <2> QED  BY <2>2, <2>3, <2>4 DEF Exchange
<1>4. CASE Answered(r, IF req[r].kind = "run" THEN "error" ELSE "gone")
  <2> PICK line : line = IF kind(r) = "run" THEN "error" ELSE "gone"  OBVIOUS
  <2>1. Answered(r, line)  BY <1>4 DEF kind
  <2> QED  BY <1>3, <2>1
<1> QED  BY <1>2, <1>4 DEF EndSweep

\* A request that receives the only line of its session.
LEMMA ReceiveExchange ==
    ASSUME Exchange, Holding', NEW r \in Requests, Receive(r)
    PROVE  Exchange'
<1>1. /\ req[r].at = "receive" /\ UNCHANGED <<proc, stdin, Untidy>>
      /\ TypeOK
  BY HoldingType DEF Exchange, Receive, At, lives, Untidy
<1> PICK i : i = id(r)  OBVIOUS
<1>2. i \in Ids /\ kind(r) \in {"run", "talk"}
  BY <1>1, HoldingType DEF Exchange, Paired, At
<1>3. /\ stdin[i] \in Seq(Requests) /\ stdout[i] \in Seq(Requests \cup {"init"})
      /\ Quiet(i) /\ Paired(r) /\ (i \notin Untidy => OneLine(i))
  BY <1>1, <1>2 DEF Exchange, TypeOK
<1>4. CASE stdout[i] = <<>>
  <2>1. Answered(r, "error") /\ UNCHANGED pipes  BY <1>1, <1>4 DEF Receive, pipes
  <2>2. Known' = Known /\ \A m, j : Waiting(m, j) /\ m # r => Waiting(m, j)'
    BY <1>1, <2>1, AnsweredOthers
  <2>3. \A q \in Requests : Paired(q)'
    BY <1>1, <2>1, <2>2, EndedPaired
  <2>4. \A j \in Ids : Quiet(j)'
    BY <1>1, <2>1, <2>2 DEF Exchange, Quiet, pipes
  <2>5. ASSUME NEW j \in Ids \ Untidy, j # i  PROVE OneLine(j)'
    <3>1. \A m : Waiting(m, j) => Waiting(m, j)'
      BY <2>2, <2>5 DEF Waiting
    <3> QED  BY <1>1, <2>1, <2>2, <3>1 DEF Exchange, OneLine, pipes
  <2>6. i \notin Untidy => OneLine(i)'
    <3>1. proc[i] = "dead"  BY <1>1, <1>4 DEF Receive
    <3> QED  BY <1>1, <1>4, <2>1, <3>1 DEF OneLine, pipes
  <2> QED  BY <1>1, <2>3, <2>4, <2>5, <2>6 DEF Exchange
<1>5. CASE stdout[i] # <<>>
  <2> PICK line : line = Head(stdout[i])  OBVIOUS
  <2>1. Answered(r, line) /\ stdout' = [stdout EXCEPT ![i] = Tail(@)]
    BY <1>1, <1>5 DEF Receive
  <2>2. Known \subseteq Known' /\ Known' \subseteq Known \cup {i}
        /\ \A m, j : Waiting(m, j) /\ m # r => Waiting(m, j)'
    BY <1>1, <2>1, AnsweredOthers
  <2>3. proc[i] \in {"alive", "dead"}
    BY <1>1, <1>2, <1>3, <1>5 DEF Quiet, TypeOK
  <2>4. line = stdout[i][1] /\ 1 \in DOMAIN stdout[i]
        /\ Len(stdout[i]) \in Nat \ {0}
    <3>1. Len(stdout[i]) \in Nat \ {0}  BY <1>3, <1>5, EmptySeq
    <3>2. DOMAIN stdout[i] = 1 .. Len(stdout[i])  BY <1>3, LenProperties
    <3> QED  BY <3>1, <3>2
  <2>5. kind(r) = "talk" /\ i \notin Untidy => line = r
    BY <1>1, <1>3, <2>4 DEF Paired, OneLine, Waiting, Talking, At, kind, id
  <2>6. \A q \in Requests : Paired(q)'
    BY <1>1, <2>1, <2>2, <2>5, EndedPaired
  <2>7. \A j \in Ids \ {i} : UNCHANGED <<proc[j], stdin[j], stdout[j]>>
    BY <1>1, <2>1 DEF TypeOK
  <2>8. ASSUME NEW j \in Ids, j # i
        PROVE  Quiet(j)' /\ (j \notin Untidy => OneLine(j)')
    <3>1. (j \in Known' <=> j \in Known)
          /\ \A m : Waiting(m, j) => Waiting(m, j)'
      BY <2>2, <2>8 DEF Waiting
    <3> QED  BY <2>7, <2>8, <3>1 DEF Exchange, Quiet, OneLine
  <2>9. Quiet(i)'  BY <1>1, <2>3 DEF Quiet
  <2>10. ASSUME i \notin Untidy  PROVE OneLine(i)'
    <3>1. stdout'[i] = Tail(stdout[i])  BY <1>1, <1>2, <2>1 DEF TypeOK
    <3>0. Len(stdout[i]) <= 1  BY <1>3, <2>10 DEF OneLine
    <3>2. Len(stdout[i]) = 1  BY <2>4, <3>0, OnlyOne
    <3>5. Tail(stdout[i]) = <<>>
      BY <1>3, <3>2, TailOfOne
    <3>3. stdout'[i] = <<>>  BY <3>1, <3>5
    <3>4. proc[i] = "alive" => stdin[i] = <<>>
      <4>1. Len(stdin[i]) \in Nat  BY <1>3, LenProperties
      <4>2. proc[i] = "alive" => Len(stdin[i]) = 0
        BY <1>3, <2>10, <3>2, <4>1, OneOfTwo DEF OneLine
      <4> QED  BY <1>3, <4>2, EmptySeq
    <3> QED  BY <1>1, <3>3, <3>4 DEF OneLine
  <2> QED  BY <1>1, <2>6, <2>8, <2>9, <2>10 DEF Exchange
<1> QED  BY <1>4, <1>5

\* Two requests are inside one Scanner only when they share the session.
LEMMA TogetherExchange ==
    ASSUME Exchange, Holding', NEW r \in Requests, ReceiveTogether(r)
    PROVE  Exchange'
<1>1. /\ req[r].at = "receive" /\ UNCHANGED <<proc, stdin, Untidy>>
      /\ TypeOK
  BY HoldingType DEF Exchange, ReceiveTogether, At, lives, Untidy
<1> PICK i : i = id(r)  OBVIOUS
<1>2. i \in Ids /\ kind(r) \in {"run", "talk"} /\ Paired(r)
  BY <1>1, HoldingType DEF Exchange, Paired, At
<1>3. PICK q \in Requests \ {r} : At(q, "receive") /\ id(q) = i
  BY DEF ReceiveTogether
<1>4. kind(q) \in {"run", "talk"} /\ Paired(q)
  BY <1>3 DEF Exchange, Paired, At
<1>5. ASSUME NEW p \in Requests, kind(p) = "run", id(p) = i, At(p, "receive")
      PROVE  i \notin Known
  <2>1. ASSUME i \in Known  PROVE FALSE
    <3>1. PICK s \in Requests : kind(s) = "run" /\ At(s, "done") /\ id(s) = i
      BY <2>1 DEF Known, kind
    <3>2. s = p  BY <1>2, <1>5, <3>1 DEF Exchange, Paired
    <3> QED  BY <1>5, <3>1, <3>2 DEF At
  <2> QED  BY <2>1
<1>6. i \in Untidy
  <2>1. CASE kind(r) = "run"
    BY <1>1, <1>2, <1>3, <1>4, <1>5, <2>1 DEF Paired, At
  <2>2. CASE kind(r) = "talk" /\ kind(q) = "run"
    BY <1>2, <1>3, <1>5, <2>2 DEF Paired
  <2>3. CASE kind(r) = "talk" /\ kind(q) = "talk"
    BY <1>1, <1>2, <1>3, <2>3 DEF Paired, Talking, At, kind, id
  <2> QED  BY <1>2, <1>4, <2>1, <2>2, <2>3
<1>7. PICK line : Answered(r, line)
  BY DEF ReceiveTogether
<1>8. Known \subseteq Known' /\ Known' \subseteq Known \cup {i}
      /\ \A m, j : Waiting(m, j) /\ m # r => Waiting(m, j)'
  BY <1>1, <1>7, AnsweredOthers
<1>9. \A p \in Requests : Paired(p)'
  BY <1>1, <1>6, <1>7, <1>8, EndedPaired
<1>10. proc[i] \in {"alive", "dead"}
  BY <1>1, <1>2 DEF Exchange, Quiet, TypeOK, ReceiveTogether
<1>11. \A j \in Ids \ {i} : UNCHANGED <<proc[j], stdin[j], stdout[j]>>
  BY <1>1 DEF ReceiveTogether, TypeOK
<1>12. ASSUME NEW j \in Ids, j # i
       PROVE  Quiet(j)' /\ (j \notin Untidy => OneLine(j)')
  <2>1. (j \in Known' <=> j \in Known)
        /\ \A m : Waiting(m, j) => Waiting(m, j)'
    BY <1>8, <1>12 DEF Waiting
  <2> QED  BY <1>11, <1>12, <2>1 DEF Exchange, Quiet, OneLine
<1>13. Quiet(i)'  BY <1>1, <1>10 DEF Quiet
<1> QED  BY <1>1, <1>6, <1>9, <1>12, <1>13 DEF Exchange

LEMMA StartFailsExchange ==
    ASSUME Exchange, Holding', NEW r \in Requests, StartFails(r)
    PROVE  Exchange'
<1>1. /\ UNCHANGED <<proc, pipes, Untidy>>
      /\ req[r] \in RequestType /\ At(r, "idle") /\ id(r) = None
  BY HoldingType, Types DEF StartFails, lives, Exchange, Registered, Untidy
<1> DEFINE record == [req[r] EXCEPT !.at = "done", !.kind = "run", !.reply = "error"]
<1>2. /\ record.at = "done" /\ record.kind = "run" /\ record.reply = "error"
      /\ record.id = None
  BY <1>1 DEF RequestType, id
<1> HIDE DEF record
<1>3. req'[r] = record /\ \A q \in Requests \ {r} : req'[q] = req[q]
  BY OneRecord DEF StartFails, record
<1>4. Known' = Known
  BY <1>1, <1>2, <1>3 DEF Known, At, id
<1>5. \A m, j : Waiting(m, j) => Waiting(m, j)'
  BY <1>1, <1>3 DEF Waiting, At, kind, id
<1>6. ASSUME NEW i  PROVE Talking(i)' \subseteq Talking(i)
  BY <1>2, <1>3 DEF Talking, At
<1>7. ASSUME NEW q \in Requests  PROVE Paired(q)'
  <2>1. CASE q = r
    BY <1>2, <1>3, <2>1 DEF Paired, At, kind, id
  <2>2. CASE q # r
    <3>1. Paired(q)  BY DEF Exchange
    <3>2. \A p \in Requests : kind(p)' = "run" /\ id(p)' \in Ids =>
              kind(p) = "run" /\ id(p) = id(p)'
      BY <1>2, <1>3 DEF kind, id
    <3>3. kind(q)' = kind(q) /\ id(q)' = id(q)  BY <1>3, <2>2 DEF kind, id
    <3> QED  BY <1>1, <1>3, <1>4, <1>6, <2>2, <3>1, <3>2, <3>3 DEF Paired, At
  <2> QED  BY <2>1, <2>2
<1>8. \A j \in Ids : Quiet(j)'
  BY <1>1, <1>4 DEF Exchange, Quiet, pipes
<1>9. \A j \in Ids \ Untidy' : OneLine(j)'
  BY <1>1, <1>4, <1>5 DEF Exchange, OneLine, pipes, Untidy
<1> QED  BY <1>7, <1>8, <1>9 DEF Exchange

LEMMA StartRunExchange ==
    ASSUME Exchange, Holding', NEW r \in Requests, NEW i \in Ids, StartRun(r, i)
    PROVE  Exchange'
<1>1. /\ UNCHANGED <<pipes, Untidy>> /\ proc[i] = "none"
      /\ proc' = [proc EXCEPT ![i] = "starting"] /\ TypeOK
      /\ req[r] \in RequestType /\ At(r, "idle") /\ id(r) = None
  BY HoldingType, Types DEF StartRun, Exchange, Registered, Untidy
<1> DEFINE record == [req[r] EXCEPT !.at = RunOrder[1], !.kind = "run", !.id = i,
                                    !.began = clock]
<1>2. record.at = "put" /\ record.kind = "run" /\ record.id = i
  BY <1>1 DEF RequestType, RunOrder
<1> HIDE DEF record
<1>3. req'[r] = record /\ \A q \in Requests \ {r} : req'[q] = req[q]
  BY OneRecord DEF StartRun, record
<1>4. Known' = Known
  BY <1>1, <1>2, <1>3 DEF Known, At, id
<1>5. \A m, j : Waiting(m, j) => Waiting(m, j)'
  BY <1>1, <1>3 DEF Waiting, At, kind, id
<1>6. ASSUME NEW j  PROVE Talking(j)' \subseteq Talking(j)
  BY <1>2, <1>3 DEF Talking, At
<1>7. i \notin Known  BY <1>1 DEF Exchange, Quiet
<1>8. \A q \in Requests : ~(kind(q) = "run" /\ id(q) = i)
  BY <1>1 DEF Exchange, Paired
<1>9. proc'[i] = "starting" /\ \A j \in Ids \ {i} : proc'[j] = proc[j]
  BY <1>1 DEF TypeOK
<1>10. ASSUME NEW q \in Requests  PROVE Paired(q)'
  <2>1. CASE q = r
    <3>1. \A p \in Requests : kind(p)' = "run" /\ id(p)' = i => p = r
      BY <1>3, <1>8 DEF kind, id
    <3> QED  BY <1>2, <1>3, <1>9, <2>1, <3>1 DEF Paired, At, kind, id
  <2>2. CASE q # r
    <3>1. Paired(q)  BY DEF Exchange
    <3>2. kind(q)' = kind(q) /\ id(q)' = id(q)  BY <1>3, <2>2 DEF kind, id
    <3>3. kind(q) = "run" => id(q) # i  BY <1>8
    <3>4. \A p \in Requests : kind(p)' = "run" /\ id(p)' # i =>
              kind(p) = "run" /\ id(p) = id(p)'
      BY <1>2, <1>3 DEF kind, id
    <3> QED  BY <1>1, <1>3, <1>4, <1>6, <1>9, <2>2, <3>1, <3>2, <3>3, <3>4
             DEF Paired, At
  <2> QED  BY <2>1, <2>2
<1>11. \A j \in Ids : Quiet(j)'
  BY <1>1, <1>4, <1>7, <1>9 DEF Exchange, Quiet, pipes
<1>12. \A j \in Ids \ Untidy' : OneLine(j)'
  BY <1>1, <1>4, <1>5, <1>9 DEF Exchange, OneLine, pipes
<1> QED  BY <1>10, <1>11, <1>12 DEF Exchange

LEMMA StartTalkExchange ==
    ASSUME Exchange, Holding', NEW r \in Requests, NEW i \in Ids, StartTalk(r, i)
    PROVE  Exchange'
<1>1. /\ UNCHANGED <<pipes, proc>> /\ i \in Known
      /\ shared' = IF Talking(i) = {} THEN shared ELSE shared \cup {i}
      /\ garbled' = garbled
      /\ req[r] \in RequestType /\ At(r, "idle") /\ id(r) = None
  BY HoldingType, Types DEF StartTalk, Exchange, Registered, lives
<1> DEFINE record == [req[r] EXCEPT !.at = "lookup", !.kind = "talk", !.id = i,
                                    !.began = clock]
<1>2. record.at = "lookup" /\ record.kind = "talk" /\ record.id = i
  BY <1>1 DEF RequestType
<1> HIDE DEF record
<1>3. req'[r] = record /\ \A q \in Requests \ {r} : req'[q] = req[q]
  BY OneRecord DEF StartTalk, record
<1>4. Known' = Known
  BY <1>1, <1>2, <1>3 DEF Known, At, id
<1>5. \A m, j : Waiting(m, j) => Waiting(m, j)'
  BY <1>1, <1>3 DEF Waiting, At, kind, id
<1>6. ASSUME NEW j  PROVE Talking(j)' \subseteq Talking(j) \cup (IF j = i THEN {r} ELSE {})
  BY <1>2, <1>3 DEF Talking, At, id
<1>7. ASSUME NEW q \in Requests  PROVE Paired(q)'
  <2>1. CASE q = r
    <3>1. i \notin Untidy' => Talking(i)' \subseteq {r}  BY <1>1, <1>6 DEF Untidy
    <3> QED  BY <1>1, <1>2, <1>3, <1>4, <2>1, <3>1 DEF Paired, At, kind, id
  <2>2. CASE q # r
    <3>1. Paired(q)  BY DEF Exchange
    <3>2. kind(q)' = kind(q) /\ id(q)' = id(q)  BY <1>3, <2>2 DEF kind, id
    <3>3. \A p \in Requests : kind(p)' = "run" => kind(p) = "run" /\ id(p) = id(p)'
      BY <1>2, <1>3 DEF kind, id
    <3>4. ASSUME id(q) = i, kind(q) = "talk", ~At(q, "done")  PROVE i \in Untidy'
      BY <1>1, <3>4 DEF Talking, kind, id, Untidy
    <3>5. Untidy \subseteq Untidy'  BY <1>1 DEF Untidy
    <3> QED  BY <1>1, <1>3, <1>4, <1>6, <2>2, <3>1, <3>2, <3>3, <3>4, <3>5
             DEF Paired, At
  <2> QED  BY <2>1, <2>2
<1>8. \A j \in Ids : Quiet(j)'
  BY <1>1, <1>4 DEF Exchange, Quiet, pipes
<1>9. \A j \in Ids \ Untidy' : OneLine(j)'
  BY <1>1, <1>4, <1>5 DEF Exchange, OneLine, pipes, Untidy
<1> QED  BY <1>7, <1>8, <1>9 DEF Exchange

LEMMA NextExchange == Exchange /\ [Next]_vars => Exchange'
<1> SUFFICES ASSUME Exchange, [Next]_vars PROVE Exchange'  OBVIOUS
<1>1. Holding'  BY NextHolding DEF Exchange
<1>2. CASE \E r \in Requests : Proceed(r)
  <2> PICK r \in Requests : Proceed(r)  BY <1>2
  <2> QED  BY <1>1, SilentExchange, KillExchange, SendExchange, EndSweepExchange,
              ReceiveExchange, TogetherExchange DEF Proceed
<1>3. CASE \E r \in Requests : StartFails(r) \/ \E i \in Ids : StartRun(r, i) \/ StartTalk(r, i)
  BY <1>1, <1>3, StartFailsExchange, StartRunExchange, StartTalkExchange
<1>4. CASE \E i \in Ids : Boot(i) \/ Answer(i) \/ ProcessExits(i) \/ Reap(i)
  BY <1>1, <1>4, ProgramExchange
<1>5. CASE Tick \/ UNCHANGED vars
  <2>1. Same /\ UNCHANGED <<proc, pipes>>
    BY <1>5 DEF Tick, vars, Same, Untidy, requests, lives, pipes, kind, id, At
  <2> QED  BY <1>1, <2>1, SameExchange
<1> QED  BY <1>2, <1>3, <1>4, <1>5 DEF Next

\* As long as a client waits for each answer and sends whole commands, it gets
\* the answer to its line.
THEOREM RepliesMatch == Safety => []SequentialRepliesMatch
<1>1. Exchange => SequentialRepliesMatch
  BY DEF Exchange, Paired, SequentialRepliesMatch, kind, Untidy
<1> QED  BY <1>1, ExchangeInit, NextExchange, PTL DEF Safety
=============================================================================
