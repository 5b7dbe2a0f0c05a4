----------------------------- MODULE AdapterHost -----------------------------
(***************************************************************************)
(* The declarative adapter host (adapter_host.py) and its stdio clients    *)
(* (downstream_mcp.py) with the server processes they start.  One thread   *)
(* starts and closes the host; every read and every target call runs in a  *)
(* thread of its own, and threads that use the same client share its pipe, *)
(* its counter of ids and its queue of responses.  Or else, in another     *)
(* initial state, the first server is driven by an agent, which sends      *)
(* whatever it likes (the surface of mcp.py's main).                       *)
(***************************************************************************)
EXTENDS McpServer

CONSTANTS
    Configs,        \* adapter configurations: how many downstreams, and which
                    \* of them, in the order they are started, serves a call
    ReadCalls,      \* the calls of Calls that are reads; the others are targets
    AtomicIds,      \* the interpreter switches threads only at calls and loops
                    \* (CPython from 3.10), not between any two operations (3.9)
    AgentLines,     \* lines an agent may send
    MaxLines,       \* bound: lines an agent sends
    Starter         \* the thread that starts and closes the host

ASSUME HostAssumption ==
    /\ \A f \in Configs :
         f.downstreams \in Nat \ {0} /\ f.server \in [Calls -> 1..f.downstreams]
    /\ 1 \in Sessions /\ Sessions \subseteq Nat
    /\ ReadCalls \subseteq Calls
    /\ AtomicIds \in BOOLEAN
    /\ AgentLines \subseteq Lines
    /\ MaxLines \in Nat
    /\ Starter \notin Calls /\ NoCall \notin Calls

VARIABLES
    config,     \* the configuration of the host, which never changes
    host,       \* the host: its phase, started, its clients and those left to close
    nextId,     \* session -> its client's next_id
    responses,  \* session -> its client's queue of responses
    reader,     \* session -> its client's reader thread goes on
    task,       \* thread -> what it is doing
    outcome,    \* call -> how it ended
    answerOf,   \* history: call -> the call whose result it returned
    peer,       \* who drives the servers: the host or, in session 1, an agent
    agent       \* lines the agent may still send

clientVars == <<nextId, responses, reader>>
callVars == <<outcome, answerOf>>
agents == <<peer, agent, config>>
vars == <<serverVars, host, clientVars, task, callVars, agents>>

Threads == Calls \union {Starter}
Targets == Calls \ ReadCalls

\* An item of the queue of responses: a line, or an error of the reader.
Broken == [id |-> Null, body |-> "reader error", call |-> NoCall]

Idle == [step |-> "idle"]
Tasks ==
    {Idle} \union
    [step : {"counting", "sending", "writing", "waiting"}, session : Sessions, id : Nat] \union
    [step : {"notifying", "closing"}, session : Sessions]

TypeOK ==
    /\ ServerTypeOK
    /\ config \in Configs
    /\ host \in [phase : {"stopped", "starting", "running", "closing"}, started : BOOLEAN,
                 clients : Seq(Sessions), left : 0..config.downstreams]
    /\ Len(host.clients) <= config.downstreams
    /\ nextId \in [Sessions -> Nat]
    /\ responses \in [Sessions -> Seq(Replies \union {Broken})]
    /\ reader \in [Sessions -> BOOLEAN]
    /\ task \in [Threads -> Tasks]
    /\ outcome \in [Calls -> {"none", "refused", "raised", "unknown", "answered", "malformed"}]
    /\ answerOf \in [Calls -> Calls \union {NoCall}]
    /\ peer \in {"host", "agent"}
    /\ agent \in 0..MaxLines

Stopped == [phase |-> "stopped", started |-> FALSE, clients |-> <<>>, left |-> 0]

Init ==
    /\ config \in Configs
    /\ host = Stopped
    /\ nextId = [s \in Sessions |-> 1]
    /\ responses = [s \in Sessions |-> <<>>]
    /\ reader = [s \in Sessions |-> TRUE]
    /\ task = [t \in Threads |-> Idle]
    /\ outcome = [c \in Calls |-> "none"]
    /\ answerOf = [c \in Calls |-> NoCall]
    /\ \/ ServerInit({}) /\ peer = "host" /\ agent = 0
       \/ ServerInit({1}) /\ peer = "agent" /\ agent = MaxLines

-----------------------------------------------------------------------------
(* An agent's session.                                                     *)

\* Bound: the agent sends a line when the one before has been handled and
\* its answer read; the server handles one line at a time anyway.
AgentSends ==
    /\ peer = "agent" /\ agent > 0 /\ stdinOpen[1]
    /\ stdin[1] = <<>> /\ stdout[1] = <<>>
    /\ agent' = agent - 1
    /\ \E line \in AgentLines : Write(1, line)
    /\ UNCHANGED <<host, clientVars, task, callVars, peer, config>>

AgentReads ==
    /\ peer = "agent" /\ stdout[1] # <<>>
    /\ stdout' = [stdout EXCEPT ![1] = Tail(@)]
    /\ UNCHANGED <<child, lifecycle, stdin, stdinOpen, heard, executed>>
    /\ UNCHANGED <<host, clientVars, task, callVars, agents>>

AgentHangsUp ==
    /\ peer = "agent" /\ stdinOpen[1]
    /\ HangUp(1)
    /\ UNCHANGED <<host, clientVars, task, callVars, agents>>

-----------------------------------------------------------------------------
(* A request of a client: take an id, send, wait, check the answer.        *)

Doing(t, step) == task[t].step = step
Proceed(t, j) == task' = [task EXCEPT ![t] = j]

Request(id, method, c) ==
    [method |-> method, asks |-> TRUE, id |-> id, params |-> "accepted", call |-> c]

InitializedLine ==
    [method |-> "notifications/initialized", asks |-> FALSE, id |-> Null,
     params |-> "accepted", call |-> NoCall]

\* An exception ends the thread's work.  A target's is always reported as an
\* unknown outcome; a constructor closes its client first, then the host
\* closes the others.
Fails(t) ==
    IF t = Starter
      THEN /\ Proceed(t, [step |-> "closing", session |-> task[t].session])
           /\ stdinOpen' = [stdinOpen EXCEPT ![task[t].session] = FALSE]
           /\ host' = [host EXCEPT !.phase = "closing", !.left = Len(host.clients)]
           /\ UNCHANGED outcome
      ELSE /\ Proceed(t, Idle)
           /\ outcome' = [outcome EXCEPT ![t] = IF t \in Targets THEN "unknown" ELSE "raised"]
           /\ UNCHANGED <<stdinOpen, host>>

\* A client that is closed, or whose server is gone, sends nothing.
CanSend(s) == stdinOpen[s] /\ child[s] = "running"

\* The write to the pipe, which has no timeout: the line is longer than the room
\* the server leaves in it, and the call waits in the write.  (The starter's
\* two lines are short, and the only ones in the pipe.)
SendBlocks(c) ==
    /\ Doing(c, "sending") /\ CanSend(task[c].session)
    /\ Proceed(c, [task[c] EXCEPT !.step = "writing"])
    /\ UNCHANGED <<serverVars, host, clientVars, callVars, agents>>

\* The end of the line is in the pipe.  To close the pipe does not stop a
\* write that has begun.
Send(t) ==
    LET s == task[t].session IN
    /\ \/ Doing(t, "sending") /\ CanSend(s)
       \/ t \in Calls /\ Doing(t, "writing") /\ child[s] = "running"
    /\ IF t = Starter THEN Write(s, Request(task[t].id, "initialize", NoCall))
                      ELSE Write(s, Request(task[t].id, "tools/call", t))
    /\ Proceed(t, [task[t] EXCEPT !.step = "waiting"])
    /\ UNCHANGED <<host, clientVars, callVars, agents>>

\* The client is closed, or the server is gone, before the write; or the server
\* dies with the line half read.
SendFails(t) ==
    /\ \/ task[t].step \in {"sending", "notifying"} /\ ~CanSend(task[t].session)
       \/ t \in Calls /\ Doing(t, "writing") /\ child[task[t].session] = "gone"
    /\ Fails(t)
    /\ Untouched
    /\ UNCHANGED <<clientVars, answerOf, agents>>

\* _read_responses: a line goes to the queue; a line that is too long, or the
\* end of the output, is reported once and ends the reader.
ReadLine(s) ==
    /\ peer = "host" /\ reader[s] /\ stdout[s] # <<>>
    /\ stdout' = [stdout EXCEPT ![s] = Tail(@)]
    /\ LET line == Head(stdout[s])
           tooLong == line.body = "oversized"
       IN  /\ responses' = [responses EXCEPT ![s] = Append(@, IF tooLong THEN Broken ELSE line)]
           /\ reader' = [reader EXCEPT ![s] = ~tooLong]
    /\ UNCHANGED <<child, lifecycle, stdin, stdinOpen, heard, executed>>
    /\ UNCHANGED <<host, nextId, task, callVars, agents>>

ReadEof(s) ==
    /\ peer = "host" /\ reader[s] /\ stdout[s] = <<>> /\ child[s] = "gone"
    /\ responses' = [responses EXCEPT ![s] = Append(@, Broken)]
    /\ reader' = [reader EXCEPT ![s] = FALSE]
    /\ UNCHANGED <<serverVars, host, nextId, task, callVars, agents>>

\* The queue gives its head to whichever thread waits.
Gets(t) ==
    LET s == task[t].session IN
    /\ Doing(t, "waiting")
    /\ responses[s] # <<>>
    /\ responses' = [responses EXCEPT ![s] = Tail(@)]
    /\ Untouched
    /\ UNCHANGED <<nextId, reader, agents>>

Got(t) == Head(responses[task[t].session])

\* Mutant of Accepted: the id of the response is not compared.
AcceptedAnyId(t) == Got(t).body \in {"object", "not an object", "result"}

\* The response is bound to the request by its id, and is no error.
Accepted(t) == Got(t).id = task[t].id /\ Got(t).body \in {"object", "not an object", "result"}

GetsRejected(t) ==
    /\ Gets(t) /\ ~Accepted(t)
    /\ Fails(t)
    /\ UNCHANGED answerOf

\* The host wants an object from a tool.
GetsResult(c) ==
    /\ Gets(c) /\ Accepted(c)
    /\ outcome' = [outcome EXCEPT ![c] = IF Got(c).body = "object" THEN "answered"
                                         ELSE "malformed"]
    /\ answerOf' = [answerOf EXCEPT ![c] = Got(c).call]
    /\ Proceed(c, Idle)
    /\ UNCHANGED <<host, stdinOpen>>

\* Mutant of TimesOut: the request is sent again.
TimesOutAndResends(t) ==
    /\ Doing(t, "waiting") /\ responses[task[t].session] = <<>>
    /\ Proceed(t, [task[t] EXCEPT !.step = "sending"])
    /\ UNCHANGED <<serverVars, host, clientVars, callVars, agents>>

\* Mutant of TimesOut: the queue is read without a timeout.
TimesOutNever(t) == FALSE /\ UNCHANGED vars

\* The queue stayed empty for timeout_seconds.  The request stays sent.
TimesOut(t) ==
    /\ Doing(t, "waiting") /\ responses[task[t].session] = <<>>
    /\ Fails(t)
    /\ Untouched
    /\ UNCHANGED <<clientVars, answerOf, agents>>

-----------------------------------------------------------------------------
(* DeclarativeAdapterHost.start and close, and the constructor and close   *)
(* of a client.                                                            *)

Start ==
    /\ peer = "host" /\ host.phase = "stopped"
    /\ host' = [host EXCEPT !.phase = "starting"]
    /\ UNCHANGED <<serverVars, clientVars, task, callVars, agents>>

Starting ==
    /\ host.phase = "starting"
    /\ task[Starter] = Idle

Fresh == {s \in Sessions : child[s] = "none"}

\* Popen and the first lines of the constructor.
Spawn ==
    /\ Starting /\ Len(host.clients) < config.downstreams
    /\ \E s \in Fresh :
         /\ \A other \in Fresh : s <= other
         /\ child' = [child EXCEPT ![s] = "running"]
         /\ Proceed(Starter, [step |-> "sending", session |-> s, id |-> nextId[s]])
         /\ nextId' = [nextId EXCEPT ![s] = @ + 1]
    /\ UNCHANGED <<lifecycle, stdin, stdinOpen, stdout, heard, executed>>
    /\ UNCHANGED <<host, responses, reader, callVars, agents>>

\* Mutant of CannotSpawn: start raises and leaves the clients it has.
CannotSpawnLeaves ==
    /\ Starting /\ Len(host.clients) < config.downstreams
    /\ host' = Stopped
    /\ UNCHANGED <<serverVars, clientVars, task, callVars, agents>>

\* A variable of the environment is missing, or Popen raises.
CannotSpawn ==
    /\ Starting /\ Len(host.clients) < config.downstreams
    /\ host' = [host EXCEPT !.phase = "closing", !.left = Len(host.clients)]
    /\ UNCHANGED <<serverVars, clientVars, task, callVars, agents>>

GetsInitialized ==
    /\ Gets(Starter) /\ Accepted(Starter)
    /\ Proceed(Starter, [step |-> "notifying", session |-> task[Starter].session])
    /\ UNCHANGED <<host, stdinOpen, callVars>>

\* The notification is sent; the constructor returns and start keeps the client.
Notify ==
    LET s == task[Starter].session IN
    /\ Doing(Starter, "notifying") /\ CanSend(s)
    /\ Write(s, InitializedLine)
    /\ host' = [host EXCEPT !.clients = Append(@, s)]
    /\ Proceed(Starter, Idle)
    /\ UNCHANGED <<clientVars, callVars, agents>>

Started ==
    /\ Starting /\ Len(host.clients) = config.downstreams
    /\ host' = [host EXCEPT !.phase = "running", !.started = TRUE]
    /\ UNCHANGED <<serverVars, clientVars, task, callVars, agents>>

\* Mutant of Close: the clients are counted from one past the last.
CloseFromPastTheEnd ==
    /\ host.phase = "running"
    /\ host' = [host EXCEPT !.phase = "closing", !.left = Len(host.clients) + 1]
    /\ UNCHANGED <<serverVars, clientVars, task, callVars, agents>>

\* Until the last client is closed the host says that it is started.
Close ==
    /\ host.phase = "running"
    /\ host' = [host EXCEPT !.phase = "closing", !.left = Len(host.clients)]
    /\ UNCHANGED <<serverVars, clientVars, task, callVars, agents>>

\* close of the next client, the last one started first: no more requests.
CloseClient ==
    /\ host.phase = "closing" /\ task[Starter] = Idle /\ host.left > 0
    /\ LET s == host.clients[host.left]
       IN  /\ HangUp(s)
           /\ Proceed(Starter, [step |-> "closing", session |-> s])
    /\ host' = [host EXCEPT !.left = @ - 1]
    /\ UNCHANGED <<clientVars, callVars, agents>>

\* The server did not exit in time: terminate, then kill.
Kill ==
    /\ Doing(Starter, "closing")
    /\ Dies(task[Starter].session)
    /\ UNCHANGED <<host, clientVars, task, callVars, agents>>

\* The reader is joined and the pipe closed.  A call that uses the client may
\* still find lines in its queue; if none does, they are lost with it.
Reap ==
    LET s == task[Starter].session
        used == \E c \in Calls : task[c] # Idle /\ task[c].session = s
    IN
    /\ Doing(Starter, "closing") /\ child[s] = "gone"
    /\ Proceed(Starter, Idle)
    /\ IF used
         THEN UNCHANGED <<stdout, responses, reader>>
         ELSE /\ stdout' = [stdout EXCEPT ![s] = <<>>]
              /\ responses' = [responses EXCEPT ![s] = <<>>]
              /\ reader' = [reader EXCEPT ![s] = FALSE]
    /\ UNCHANGED <<child, lifecycle, stdin, stdinOpen, heard, executed>>
    /\ UNCHANGED <<host, nextId, callVars, agents>>

Closed ==
    /\ host.phase = "closing" /\ task[Starter] = Idle /\ host.left = 0
    /\ host' = Stopped
    /\ UNCHANGED <<serverVars, clientVars, task, callVars, agents>>

-----------------------------------------------------------------------------
(* call_read, and the execute of broker_actions.                           *)

New(c) == peer = "host" /\ outcome[c] = "none" /\ task[c] = Idle
Ends(c, how) == outcome' = [outcome EXCEPT ![c] = how]

\* A target's arguments lack the idempotency field: nothing is sent.
FieldMissing(c) ==
    /\ New(c) /\ c \in Targets
    /\ Ends(c, "refused")
    /\ UNCHANGED <<serverVars, host, clientVars, task, answerOf, agents>>

\* _client raises; execute reports even that as an unknown outcome.
NotStarted(c) ==
    /\ New(c) /\ ~host.started
    /\ Ends(c, IF c \in Targets THEN "unknown" ELSE "refused")
    /\ UNCHANGED <<serverVars, host, clientVars, task, answerOf, agents>>

\* request_id = self.next_id.  No other thread has an id taken and not counted
\* where the interpreter does not switch threads there.
TakeUp(c) ==
    /\ New(c) /\ host.started
    /\ AtomicIds => \A other \in Calls : ~Doing(other, "counting")
    /\ LET s == host.clients[config.server[c]]
       IN  Proceed(c, [step |-> "counting", session |-> s, id |-> nextId[s]])
    /\ UNCHANGED <<serverVars, host, clientVars, callVars, agents>>

\* self.next_id += 1 adds one to what the counter is, or was on the way.
Count(c) ==
    LET s == task[c].session IN
    /\ Doing(c, "counting")
    /\ \E n \in task[c].id..nextId[s] : nextId' = [nextId EXCEPT ![s] = n + 1]
    /\ Proceed(c, [task[c] EXCEPT !.step = "sending"])
    /\ UNCHANGED <<serverVars, host, responses, reader, callVars, agents>>

-----------------------------------------------------------------------------
Open == Spawn \/ CannotSpawn \/ GetsInitialized \/ Notify \/ Started
Shut == CloseClient \/ Kill \/ Reap \/ Closed

ThreadStep(t) == Send(t) \/ SendFails(t) \/ GetsRejected(t) \/ TimesOut(t)
CallStep(c) ==
    FieldMissing(c) \/ NotStarted(c) \/ TakeUp(c) \/ Count(c) \/ SendBlocks(c) \/ GetsResult(c)
ReaderStep(s) == ReadLine(s) \/ ReadEof(s)
Servers(s) == ServerStep(s) /\ UNCHANGED <<host, clientVars, task, callVars, agents>>

Next ==
    \/ Start \/ Open \/ Close \/ Shut
    \/ \E t \in Threads : ThreadStep(t)
    \/ \E c \in Calls : CallStep(c)
    \/ \E s \in Sessions : ReaderStep(s) \/ Servers(s)
    \/ AgentSends \/ AgentReads \/ AgentHangsUp

Spec == Init /\ [][Next]_vars

\* A call goes on by itself, unless it waits in a write that has begun: only
\* the server can take the rest of the line.
GoesOn(c) ==
    \/ Count(c) \/ SendBlocks(c) \/ SendFails(c)
    \/ GetsResult(c) \/ GetsRejected(c) \/ TimesOut(c)

\* The threads of the host run; the servers owe nothing, not even to read or
\* to exit.
FairSpec ==
    /\ Spec
    /\ WF_vars(Open \/ Shut \/ ThreadStep(Starter))
    /\ \A c \in Calls : WF_vars(GoesOn(c))

-----------------------------------------------------------------------------
(* Properties.                                                             *)

\* A call that returns a result returns the result of its own request, never
\* the late answer to a call that timed out before it and never the answer to
\* a call of another thread (downstream_mcp.py, _request).
AnswersOwn == \A c \in Calls : outcome[c] \in {"answered", "malformed"} => answerOf[c] = c

\* The host's report is honest about the effect: nothing is run twice, what is
\* reported as a result was run, and what is reported as refused was not and
\* never will be, late lines in the pipes included (adapter_host.py, execute).
OutcomeHonest ==
    \A c \in Calls :
        /\ peer = "host" => executed[c] <= 1
        /\ outcome[c] \in {"answered", "malformed"} => executed[c] = 1
        /\ outcome[c] = "refused" => executed[c] = 0

\* When start has raised or close has ended, no server of the host lives on
\* (adapter_host.py, start and close; downstream_mcp.py, close).
NoOrphanChild ==
    peer = "host" /\ host.phase = "stopped" => \A s \in Sessions : child[s] # "running"

\* A tool is run only in a session that was initialized and then told so,
\* whoever the client is and whatever it sends (mcp.py, process_message).
HandshakeFirst ==
    \A s \in Sessions : \A k \in 1..Len(heard[s]) :
        heard[s][k] = "run" =>
            \E i, j \in 1..k : i < j /\ heard[s][i] = "initialize" /\ heard[s][j] = "initialized"

\* Every start and every close ends, although servers hang, die, answer late and
\* answer the wrong thread.  Every call ends or waits for a server that does not
\* read the rest of its line, and a close ends even such a call, because it
\* kills the server (downstream_mcp.py, _send and close).
EverythingEnds ==
    /\ host.phase \in {"starting", "closing"} ~> host.phase \in {"stopped", "running"}
    /\ \A c \in Calls :
         /\ task[c] # Idle ~> task[c] = Idle \/ Doing(c, "writing")
         /\ task[c] # Idle /\ host.phase = "closing" ~> task[c] = Idle
=============================================================================
