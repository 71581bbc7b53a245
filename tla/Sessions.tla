------------------------------ MODULE Sessions ------------------------------
(***************************************************************************)
(* Maintained processes of the web IDE: the requests                       *)
(* /api/run-maintain and /api/communicate-maintain of RunCodeAPI.java, the *)
(* maps of ExecutionHolder.java and the life of an ExecutionController,    *)
(* whose termination callbacks run in the thread that reaps the process.   *)
(*                                                                         *)
(* Every request is a thread of the web server.  One access to a           *)
(* concurrent map, to a pipe or to the clock is one step.  A line is the   *)
(* request it answers, or "init", the first line a program prints.         *)
(***************************************************************************)
EXTENDS Integers, Sequences, FiniteSets

CONSTANTS
    Requests,   \* the HTTP requests, each served by a thread
    Ids,        \* session identifiers
    Timeout,    \* TIMEOUT, in ticks of the clock
    Slack,      \* ticks a request may take when it does not wait for a line
    MaxClock,   \* the bound of the clock
    MaxAnswers  \* the bound of the answers a program prints to one line

ASSUME BoundsAssumption ==
    /\ Timeout \in Nat /\ Slack \in Nat /\ MaxClock \in Nat
    /\ Slack <= Timeout
    /\ MaxAnswers \in Nat

None == "none"
Never == -1

ASSUME NamesAssumption ==
    /\ None \notin Ids
    /\ Requests \cap {None, "init", "gone", "error"} = {}

VARIABLES
    clock,          \* System.currentTimeMillis()
    controllers,    \* the identifiers that have a controller in the map
    lastCallTime,   \* the second map; Never for an absent key
    proc,           \* the process of each controller
    finish,         \* how far the future finish of the controller is
    attached,       \* controllers on which onTermination was called
    opened,         \* controllers whose input is not null
    stdin, stdout,  \* the pipes of the process
    req,            \* the thread of each request
    shared,         \* sessions that served two requests at once (history)
    garbled         \* sessions sent a line that is not one command (history)

vars == <<clock, controllers, lastCallTime, proc, finish, attached, opened,
          stdin, stdout, req, shared, garbled>>
maps == <<controllers, lastCallTime>>
pipes == <<stdin, stdout>>
lives == <<proc, finish, attached, opened>>
requests == <<req, shared, garbled>>

Steps == {"idle", "put", "attach", "touch", "sweep", "visit", "kill",
          "lookup", "refresh", "open", "send", "receive", "done"}

TypeOK ==
    /\ clock \in 0 .. MaxClock
    /\ controllers \subseteq Ids
    /\ lastCallTime \in [Ids -> {Never} \cup 0 .. MaxClock]
    /\ proc \in [Ids -> {"none", "starting", "alive", "dead"}]
    /\ finish \in [Ids -> {"waiting", "reading", "read", "removed"}]
    /\ attached \subseteq Ids
    /\ opened \subseteq Ids
    /\ stdin \in [Ids -> Seq(Requests)]
    /\ stdout \in [Ids -> Seq(Requests \cup {"init"})]
    /\ req \in [Requests ->
          [at : Steps, kind : {None, "run", "talk"}, id : Ids \cup {None},
           get : BOOLEAN, found : BOOLEAN, now : 0 .. MaxClock,
           todo : SUBSET Ids, victim : Ids \cup {None},
           began : 0 .. MaxClock,
           reply : Requests \cup {None, "init", "gone", "error"}]]
    /\ shared \subseteq Ids
    /\ garbled \subseteq Ids

Init ==
    /\ clock = 0
    /\ controllers = {}
    /\ lastCallTime = [i \in Ids |-> Never]
    /\ proc = [i \in Ids |-> "none"]
    /\ finish = [i \in Ids |-> "waiting"]
    /\ attached = {}
    /\ opened = {}
    /\ stdin = [i \in Ids |-> <<>>]
    /\ stdout = [i \in Ids |-> <<>>]
    /\ req = [r \in Requests |->
          [at |-> "idle", kind |-> None, id |-> None, get |-> FALSE,
           found |-> FALSE, now |-> 0, todo |-> {}, victim |-> None,
           began |-> 0, reply |-> None]]
    /\ shared = {}
    /\ garbled = {}

-----------------------------------------------------------------------------
At(r, step) == req[r].at = step
id(r) == req[r].id
Becomes(r, record) == req' = [req EXCEPT ![r] = record]
Goto(r, step) == Becomes(r, [req[r] EXCEPT !.at = step])
Answered(r, line) ==
    Becomes(r, [req[r] EXCEPT !.at = "done", !.reply = line, !.now = 0,
                              !.began = 0, !.get = FALSE, !.found = FALSE])

\* Requests that have looked up session i and have not answered yet.
Talking(i) ==
    {r \in Requests :
        req[r].id = i /\ req[r].kind = "talk" /\ ~At(r, "done")}

\* The identifiers a client can name: those run-maintain has returned.
Known == {id(r) : r \in {q \in Requests :
                 req[q].kind = "run" /\ At(q, "done") /\ req[q].reply # "error"}}

-----------------------------------------------------------------------------
(* /api/run-maintain: ExecutionHolder.run *)

\* The order in which run registers a session.
RunOrder_AttachFirst == <<"attach", "put", "touch", "sweep">>
RunOrder == <<"put", "attach", "touch", "sweep">>
Following(step) ==
    CHOOSE next \in Steps :
        \E n \in 1 .. 3 : RunOrder[n] = step /\ RunOrder[n + 1] = next

\* new ExecutionController(commands): the process starts.
StartRun(r, i) ==
    /\ At(r, "idle")
    /\ proc[i] = "none"
    /\ proc' = [proc EXCEPT ![i] = "starting"]
    /\ Becomes(r, [req[r] EXCEPT !.at = RunOrder[1], !.kind = "run", !.id = i,
                                 !.began = clock])
    /\ UNCHANGED <<clock, maps, finish, attached, opened, pipes, shared, garbled>>

\* The VM cannot be executed: process stays null and start() throws.
StartFails(r) ==
    /\ At(r, "idle")
    /\ Becomes(r, [req[r] EXCEPT !.at = "done", !.kind = "run",
                                 !.reply = "error"])
    /\ UNCHANGED <<clock, maps, lives, pipes, shared, garbled>>

Put(r) ==
    /\ At(r, "put")
    /\ controllers' = controllers \cup {id(r)}
    /\ Goto(r, Following("put"))
    /\ UNCHANGED <<clock, lastCallTime, lives, pipes, shared, garbled>>

\* onTermination: on a future that is already complete, the action runs now.
Attach(r) ==
    /\ At(r, "attach")
    /\ attached' = attached \cup {id(r)}
    /\ IF finish[id(r)] = "read"
       THEN /\ controllers' = controllers \ {id(r)}
            /\ finish' = [finish EXCEPT ![id(r)] = "removed"]
       ELSE UNCHANGED <<controllers, finish>>
    /\ Goto(r, Following("attach"))
    /\ UNCHANGED <<clock, lastCallTime, proc, opened, pipes, shared, garbled>>

Touched_Never(i) == lastCallTime
Touched_Deadline(i) == [lastCallTime EXCEPT ![i] = clock + Timeout]
Touched(i) == [lastCallTime EXCEPT ![i] = clock]

Touch(r) ==
    /\ At(r, "touch")
    /\ lastCallTime' = Touched(id(r))
    /\ Goto(r, Following("touch"))
    /\ UNCHANGED <<clock, controllers, lives, pipes, shared, garbled>>

-----------------------------------------------------------------------------
(* cleanUnused: called by run and by get *)

Expired_Doubled(now, time) == now - time > 2 * Timeout + 1
Expired(now, time) == now - time > Timeout

StartSweep(r) ==
    /\ At(r, "sweep")
    /\ Becomes(r, [req[r] EXCEPT !.at = "visit", !.now = clock,
                         !.todo = {i \in Ids : lastCallTime[i] # Never}])
    /\ UNCHANGED <<clock, maps, lives, pipes, shared, garbled>>

\* The entry of the map is read here; a stale one is acted upon later.
Visit(r, i) ==
    /\ At(r, "visit")
    /\ i \in req[r].todo
    /\ Becomes(r,
          IF Expired(req[r].now, lastCallTime[i])
          THEN [req[r] EXCEPT !.todo = @ \ {i}, !.victim = i, !.at = "kill"]
          ELSE [req[r] EXCEPT !.todo = @ \ {i}])
    /\ UNCHANGED <<clock, maps, lives, pipes, shared, garbled>>

\* computeIfPresent(id, terminate): the controller stays in the map until
\* its process is reaped.  destroyForcibly also closes the pipes: only the
\* lines the Scanner had already taken out of the pipe can still be read.
Kill(r) ==
    /\ At(r, "kill")
    /\ LET i == req[r].victim IN
       IF i \in controllers
       THEN /\ proc' = [proc EXCEPT ![i] = "dead"]
            /\ \E n \in 0 .. Len(stdout[i]) :
                  stdout' = [stdout EXCEPT ![i] = SubSeq(@, 1, n)]
       ELSE UNCHANGED <<proc, stdout>>
    /\ Becomes(r, [req[r] EXCEPT !.at = "visit", !.victim = None])
    /\ UNCHANGED <<clock, maps, finish, attached, opened, stdin, shared, garbled>>

\* run goes on to get; get returns the controller or null.  run-maintain
\* does not test for null.
EndSweep(r) ==
    /\ At(r, "visit")
    /\ req[r].todo = {}
    /\ \/ ~req[r].get
          /\ Becomes(r, [req[r] EXCEPT !.at = "lookup", !.now = 0])
       \/ req[r].get /\ req[r].found
          /\ Becomes(r, [req[r] EXCEPT !.at = "open", !.now = 0])
       \/ /\ req[r].get /\ ~req[r].found
          /\ Answered(r, IF req[r].kind = "run" THEN "error" ELSE "gone")
    /\ UNCHANGED <<clock, maps, lives, pipes, shared, garbled>>

-----------------------------------------------------------------------------
(* ExecutionHolder.get *)

\* /api/communicate-maintain with an identifier the client was given.
StartTalk(r, i) ==
    /\ At(r, "idle")
    /\ i \in Known
    /\ Becomes(r, [req[r] EXCEPT !.at = "lookup", !.kind = "talk", !.id = i,
                                 !.began = clock])
    /\ shared' = IF Talking(i) = {} THEN shared ELSE shared \cup {i}
    /\ UNCHANGED <<clock, maps, lives, pipes, garbled>>

AfterLookup_Unrefreshed(found) == "sweep"
AfterLookup(found) == IF found THEN "refresh" ELSE "sweep"

Lookup(r) ==
    /\ At(r, "lookup")
    /\ Becomes(r, [req[r] EXCEPT !.get = TRUE,
                                 !.found = id(r) \in controllers,
                                 !.at = AfterLookup(id(r) \in controllers)])
    /\ UNCHANGED <<clock, maps, lives, pipes, shared, garbled>>

Refresh(r) ==
    /\ At(r, "refresh")
    /\ lastCallTime' = Touched(id(r))
    /\ Goto(r, Following("touch"))
    /\ UNCHANGED <<clock, controllers, lives, pipes, shared, garbled>>

-----------------------------------------------------------------------------
(* The exchange of lines *)

\* openInput; communicate-maintain writes a line first.
AfterOpen_Unread(kind) == IF kind = "run" THEN "done" ELSE "send"
AfterOpen(kind) == IF kind = "run" THEN "receive" ELSE "send"

Open(r) ==
    /\ At(r, "open")
    /\ opened' = opened \cup {id(r)}
    /\ Goto(r, AfterOpen(req[r].kind))
    /\ UNCHANGED <<clock, maps, proc, finish, attached, pipes, shared, garbled>>

\* println and flush: a line for a dead process is dropped silently.
Sent_Unflushed(r) == stdin
Sent(r) == IF proc[id(r)] = "dead" THEN stdin
           ELSE [stdin EXCEPT ![id(r)] = Append(@, r)]

Send(r) ==
    /\ At(r, "send")
    /\ stdin' = Sent(r)
    /\ Goto(r, "receive")
    /\ UNCHANGED <<clock, maps, lives, stdout, shared, garbled>>

\* nextLine waits for a line, and throws at the end of the stream.
Receive(r) ==
    /\ At(r, "receive")
    /\ \/ /\ stdout[id(r)] # <<>>
          /\ Answered(r, Head(stdout[id(r)]))
          /\ stdout' = [stdout EXCEPT ![id(r)] = Tail(@)]
       \/ /\ stdout[id(r)] = <<>> /\ proc[id(r)] = "dead"
          /\ Answered(r, "error")
          /\ stdout' = stdout
    /\ UNCHANGED <<clock, maps, lives, stdin, shared, garbled>>

\* Two threads inside the same Scanner, which has no lock: lines may be read
\* twice or lost, and nextLine may throw.
ReceiveTogether(r) ==
    /\ At(r, "receive")
    /\ \E q \in Requests \ {r} : At(q, "receive") /\ id(q) = id(r)
    /\ stdout[id(r)] # <<>>
    /\ \E line \in {Head(stdout[id(r)]), "error"} : Answered(r, line)
    /\ \E n \in 1 .. Len(stdout[id(r)]) + 1 :
          stdout' = [stdout EXCEPT ![id(r)] = SubSeq(@, n, Len(@))]
    /\ UNCHANGED <<clock, maps, lives, stdin, shared, garbled>>

-----------------------------------------------------------------------------
(* The process: it prints a line, then answers to those it reads *)

Boot(i) ==
    /\ proc[i] = "starting"
    /\ proc' = [proc EXCEPT ![i] = "alive"]
    /\ stdout' = [stdout EXCEPT ![i] = Append(@, "init")]
    /\ UNCHANGED <<clock, maps, finish, attached, opened, stdin, requests>>

\* A whole command is answered by one line.  What the client sent need not be
\* one: a number that cannot be read is answered and its word is left as the
\* next command, which is answered too, as is every further word; a command
\* that is incomplete gets no answer, and takes the words of the next line for
\* its arguments, whose request gets the answer.
Answer(i) ==
    /\ proc[i] = "alive"
    /\ stdin[i] # <<>>
    /\ stdin' = [stdin EXCEPT ![i] = Tail(@)]
    /\ \E n \in 0 .. MaxAnswers :
          /\ stdout' = [stdout EXCEPT ![i] = @ \o [k \in 1 .. n |-> Head(stdin[i])]]
          /\ garbled' = IF n = 1 THEN garbled ELSE garbled \cup {i}
    /\ UNCHANGED <<clock, maps, lives, req, shared>>

ProcessExits(i) ==
    /\ proc[i] \in {"starting", "alive"}
    /\ proc' = [proc EXCEPT ![i] = "dead"]
    /\ UNCHANGED <<clock, maps, finish, attached, opened, pipes, requests>>

-----------------------------------------------------------------------------
(* The thread that reaps the process: the stages of the future finish *)

Exited_Unwaited(i) == proc[i] # "none"
Exited(i) == proc[i] = "dead"

\* stderr is read; then input is tested once, without the lock openInput
\* holds when it sets it: this thread may still see null.
ReadErrors(i) ==
    /\ Exited(i)
    /\ finish[i] = "waiting"
    /\ \E next \in {"reading"} \cup (IF i \in opened THEN {"read"} ELSE {}) :
          finish' = [finish EXCEPT ![i] = next]
    /\ UNCHANGED <<clock, maps, proc, attached, opened, pipes, requests>>

\* input was null: what is left of the output goes to the field stdout.
ReadOutput(i) ==
    /\ finish[i] = "reading"
    /\ finish' = [finish EXCEPT ![i] = "read"]
    /\ stdout' = [stdout EXCEPT ![i] = <<>>]
    /\ UNCHANGED <<clock, maps, proc, attached, opened, stdin, requests>>

\* The action of onTermination.
Remove(i) ==
    /\ finish[i] = "read"
    /\ i \in attached
    /\ finish' = [finish EXCEPT ![i] = "removed"]
    /\ controllers' = controllers \ {i}
    /\ UNCHANGED <<clock, lastCallTime, proc, attached, opened, pipes, requests>>

-----------------------------------------------------------------------------
\* Time passes while no request that could go on is older than Slack.
Computing(r) == ~At(r, "idle") /\ ~At(r, "receive") /\ ~At(r, "done")

Tick ==
    /\ clock < MaxClock
    /\ \A r \in Requests : Computing(r) => clock - req[r].began < Slack
    /\ clock' = clock + 1
    /\ UNCHANGED <<maps, lives, pipes, requests>>

Proceed(r) ==
    \/ Put(r) \/ Attach(r) \/ Touch(r)
    \/ StartSweep(r) \/ (\E i \in Ids : Visit(r, i)) \/ Kill(r)
    \/ EndSweep(r)
    \/ Lookup(r) \/ Refresh(r) \/ Open(r) \/ Send(r)
    \/ Receive(r) \/ ReceiveTogether(r)

Reap(i) == ReadErrors(i) \/ ReadOutput(i) \/ Remove(i)

Next ==
    \/ \E r \in Requests :
          \/ Proceed(r) \/ StartFails(r)
          \/ \E i \in Ids : StartRun(r, i) \/ StartTalk(r, i)
    \/ \E i \in Ids : Boot(i) \/ Answer(i) \/ ProcessExits(i) \/ Reap(i)
    \/ Tick

Safety == Init /\ [][Next]_vars

\* Threads and the reaper are scheduled; a program prints its first line and
\* reads the lines it is sent, until it exits.
Fairness ==
    /\ \A r \in Requests : WF_vars(Proceed(r))
    /\ \A i \in Ids : WF_vars(Reap(i)) /\ WF_vars(Boot(i)) /\ WF_vars(Answer(i))

Spec == Safety /\ Fairness

-----------------------------------------------------------------------------
(* Properties *)

\* As long as the client waits for each answer before its next line, and each
\* of its lines is one whole command with numbers that can be read, a request
\* gets the answer to its own line, and never the first line of the program or
\* the answer to another request.
SequentialRepliesMatch ==
    \A r \in Requests :
        req[r].kind = "talk" /\ At(r, "done") /\ id(r) \notin shared \cup garbled =>
            req[r].reply \in {r, "gone", "error"}

\* cleanUnused never terminates the session its own request just touched.
OwnSweepSpares ==
    \A r \in Requests :
        At(r, "kill") => req[r].victim # id(r) \/ (req[r].get /\ ~req[r].found)

\* When a sweep is over, every session that was idle for longer than the
\* timeout when it began, and still is, has been terminated.
SweepsCatchIdle ==
    [][\A r \in Requests : EndSweep(r) =>
          \A i \in controllers :
              /\ lastCallTime[i] # Never
              /\ req[r].now - lastCallTime[i] > Timeout
              => proc[i] = "dead"]_vars

\* "No such process" is the answer only when the process has ended.
MissingMeansDead ==
    \A r \in Requests : req[r].reply = "gone" => proc[id(r)] = "dead"

\* A process that outlives the request that started it can be found by its
\* identifier and, when idle, by a sweep.
LiveProcessesHeld ==
    \A r \in Requests :
        /\ req[r].kind = "run" /\ At(r, "done") /\ id(r) # None
        /\ proc[id(r)] # "dead"
        => id(r) \in controllers /\ lastCallTime[id(r)] # Never

\* The controller of a process that has ended leaves the map, also when the
\* process ends before onTermination is called.
DeadSessionsForgotten ==
    \A i \in Ids : proc[i] = "dead" ~> i \notin controllers

\* A request gets its answer, as long as its program reads on or exits, no
\* other request used the session meanwhile, and every line sent to it was one
\* whole command: no answer comes to an incomplete one.
RequestsEnd ==
    \A r \in Requests :
        ~At(r, "idle") ~> (At(r, "done") \/ id(r) \in shared \cup garbled)

\* "TIMEOUT = 30*60*1000; // 30 minutes": a session is terminated only when
\* its last call is older than that.  The code does not keep this: cleanUnused
\* acts on a time it read before a concurrent call refreshed it.
OnlyIdleKilled ==
    [][\A r \in Requests :
          Kill(r) /\ req[r].victim \in controllers =>
              Expired(clock, lastCallTime[req[r].victim])]_vars
=============================================================================
