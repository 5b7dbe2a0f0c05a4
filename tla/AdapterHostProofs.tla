-------------------------- MODULE AdapterHostProofs --------------------------
(***************************************************************************)
(* Proofs about McpServer and AdapterHost, for any number of servers,      *)
(* calls and configurations, and for every set of lines of an agent.       *)
(***************************************************************************)
EXTENDS AdapterHost, SequenceTheorems, TLAPS

-----------------------------------------------------------------------------
(* What is in a pipe or a queue.                                           *)

Items(q) == {q[k] : k \in 1..Len(q)}

LEMMA ItemsHead ==
  ASSUME NEW S, NEW q \in Seq(S), q # <<>>
  PROVE  /\ Head(q) \in Items(q) /\ Head(q) = q[1] /\ Head(q) \in S
         /\ Len(q) \in Nat \ {0}
         /\ Tail(q) \in Seq(S)
         /\ Items(Tail(q)) \subseteq Items(q)
  <1>1. Len(q) \in Nat \ {0} /\ Head(q) = q[1] /\ Head(q) \in S
    BY EmptySeq, LenProperties, HeadTailProperties
  <1>2. /\ Tail(q) \in Seq(S)
        /\ Len(Tail(q)) = Len(q) - 1
        /\ \A k \in 1..Len(Tail(q)) : Tail(q)[k] = q[k + 1]
    BY HeadTailProperties
  <1>3. \A k \in 1..Len(Tail(q)) : k + 1 \in 1..Len(q)
    BY <1>1, <1>2
  <1>4. Items(Tail(q)) \subseteq Items(q)
    BY <1>2, <1>3 DEF Items
  <1>5. QED
    BY <1>1, <1>2, <1>4 DEF Items

LEMMA ItemsAppend ==
  ASSUME NEW S, NEW q \in Seq(S), NEW x \in S
  PROVE  /\ Append(q, x) \in Seq(S)
         /\ Len(Append(q, x)) = Len(q) + 1
         /\ Items(Append(q, x)) = Items(q) \union {x}
  <1>1. /\ Append(q, x) \in Seq(S)
        /\ Len(Append(q, x)) = Len(q) + 1
        /\ \A k \in 1..Len(q) : Append(q, x)[k] = q[k]
        /\ Append(q, x)[Len(q) + 1] = x
        /\ Len(q) \in Nat
    BY AppendProperties, LenProperties
  <1>2. \A k : k \in 1..Len(q) + 1 <=> k \in 1..Len(q) \/ k = Len(q) + 1
    BY <1>1
  <1>3. QED
    BY <1>1, <1>2 DEF Items

LEMMA ItemsEmpty ==
  ASSUME NEW S
  PROVE  <<>> \in Seq(S) /\ Items(<<>>) = {} /\ Len(<<>>) = 0
  BY EmptySeq DEF Items

-----------------------------------------------------------------------------
(* The server: what handling a line does to the pipes.                     *)

Answers(s, r) == stdout' = [stdout EXCEPT ![s] = Append(@, r)]

LEMMA MessageType ==
  ASSUME ServerTypeOK, NEW s \in Sessions, stdin[s] # <<>>
  PROVE  Message(s) \in Lines /\ Message(s) \in Items(stdin[s])
  BY ItemsHead DEF ServerTypeOK, Message

\* A line is answered at most once, with its own id and its own call; only a
\* line that could not be read is answered without its id, and only a tool
\* that was run answers a call of a tool.
Answered(s, r) ==
    /\ Answers(s, r)
    /\ r.call = Message(s).call
    /\ r.id = Message(s).id \/ (r.id = Null /\ r.body = "parse error")
    /\ \/ /\ UNCHANGED executed
          /\ r.body \notin ToolAnswers
          /\ Message(s).method = "tools/call" => r.body # "result"
       \/ /\ Message(s).method = "tools/call"
          /\ executed' = [executed EXCEPT ![Message(s).call] = @ + 1]

Handles(s) ==
    /\ Takes(s)
    /\ UNCHANGED <<stdout, executed>> \/ \E r \in Replies : Answered(s, r)

LEMMA HandledLine ==
  ASSUME ServerTypeOK, NEW s \in Sessions, HandleLine(s)
  PROVE  Handles(s)
  <1>1. Takes(s)
    BY DEF HandleLine, RejectUnreadable, RejectInvalid, Initialized, IgnoreNotification,
           Initialize, RefuseInitialize, Ping, TooEarly, ListTools, CallTool, UnknownMethod, Asked
  <1>2. Message(s) \in Lines
    BY <1>1, MessageType DEF Takes
  <1>3. ASSUME NEW id \in {Message(s).id, Null}, NEW body \in Errors \union ToolAnswers \union {"result"},
               Answer(s, id, body)
        PROVE  \E r \in Replies : /\ Answers(s, r) /\ r.call = Message(s).call
                                  /\ r.id = id /\ r.body = body
    <2> DEFINE r == [id |-> id, body |-> body, call |-> Message(s).call]
    <2>1. r \in Replies
      BY <1>2 DEF Lines, Replies, Null
    <2>2. Answers(s, r)
      BY <1>3 DEF Answer, Answers
    <2>3. QED
      BY <2>1, <2>2
  <1>4. CASE RejectUnreadable(s)
    <2>1. \E r \in Replies : /\ Answers(s, r) /\ r.call = Message(s).call
                            /\ r.id = Null /\ r.body = "parse error"
      BY <1>3, <1>4 DEF RejectUnreadable, Errors
    <2>2. UNCHANGED executed /\ Message(s).method = "unreadable"
      BY <1>4 DEF RejectUnreadable, Unmoved
    <2>3. QED
      BY <1>1, <2>1, <2>2 DEF Handles, Answered, ToolAnswers
  <1>5. CASE Initialized(s) \/ IgnoreNotification(s)
    BY <1>1, <1>5 DEF Initialized, IgnoreNotification, Silent, Unmoved, Handles, Answered
  <1>6. ASSUME NEW body \in Errors \union {"result"}, Reply(s, body), UNCHANGED executed,
               Message(s).method = "tools/call" => body # "result"
        PROVE  Handles(s)
    <2>1. \E r \in Replies : /\ Answers(s, r) /\ r.call = Message(s).call
                            /\ r.id = Message(s).id /\ r.body = body
      BY <1>3, <1>6 DEF Reply
    <2>2. body \notin ToolAnswers
      BY DEF Errors, ToolAnswers
    <2>3. QED
      BY <1>1, <1>6, <2>1, <2>2 DEF Handles, Answered
  <1>7. CASE CallTool(s)
    <2>1. CASE Message(s).params = "accepted"
      <3>1. /\ Message(s).method = "tools/call"
            /\ executed' = [executed EXCEPT ![Message(s).call] = @ + 1]
        BY <1>7, <2>1 DEF CallTool, Asked
      <3>2. PICK body \in ToolAnswers \union {"tool failed"} : Reply(s, body)
        BY <1>7, <2>1 DEF CallTool
      <3>3. \E r \in Replies : /\ Answers(s, r) /\ r.call = Message(s).call
                              /\ r.id = Message(s).id
        BY <1>3, <3>2 DEF Reply, Errors
      <3>4. QED
        BY <1>1, <3>1, <3>3 DEF Handles, Answered
    <2>2. CASE Message(s).params # "accepted"
      BY <1>6, <1>7, <2>2 DEF CallTool, Unmoved, Errors
    <2>3. QED
      BY <2>1, <2>2
  <1>8. CASE RejectInvalid(s) \/ RefuseInitialize(s) \/ TooEarly(s) \/ UnknownMethod(s)
    BY <1>6, <1>8 DEF RejectInvalid, RefuseInitialize, TooEarly, UnknownMethod, Unmoved, Errors
  <1>9. CASE Initialize(s) \/ Ping(s) \/ ListTools(s)
    <2>1. Message(s).method # "tools/call" /\ UNCHANGED executed
      BY <1>9 DEF Initialize, Ping, ListTools, Asked, Unmoved
    <2>2. Reply(s, "result") \/ Reply(s, "invalid params")
      BY <1>9 DEF Initialize, Ping, ListTools
    <2>3. QED
      BY <1>6, <2>1, <2>2 DEF Errors
  <1>10. QED
    BY <1>4, <1>5, <1>7, <1>8, <1>9 DEF HandleLine

\* What the server remembers of its session.
LEMMA RememberedType ==
  ASSUME ServerTypeOK, NEW s \in Sessions, ServerStep(s)
  PROVE  /\ lifecycle' \in [Sessions -> Lifecycle]
         /\ heard' \in [Sessions -> Seq({"initialize", "initialized", "run"})]
  <1> DEFINE Heard == {"initialize", "initialized", "run"}
  <1>1. ASSUME NEW what \in Heard, Hears(s, what)
        PROVE  heard' \in [Sessions -> Seq(Heard)]
    BY <1>1, ItemsAppend DEF ServerTypeOK, Hears
  <1>2. heard' \in [Sessions -> Seq(Heard)]
    BY <1>1 DEF ServerTypeOK, ServerStep, HandleLine, RejectUnreadable, RejectInvalid, Initialized,
           IgnoreNotification, Initialize, RefuseInitialize, Ping, TooEarly, ListTools, CallTool,
           UnknownMethod, ExitAtEof, DiesInTool, Dies, Unmoved
  <1>3. lifecycle' \in [Sessions -> Lifecycle]
    BY DEF ServerTypeOK, ServerStep, HandleLine, RejectUnreadable, RejectInvalid, Initialized,
           IgnoreNotification, Initialize, RefuseInitialize, Ping, TooEarly, ListTools, CallTool,
           UnknownMethod, ExitAtEof, DiesInTool, Dies, Gone, Unmoved, Lifecycle
  <1>4. QED
    BY <1>2, <1>3

LEMMA CountedOnce ==
  ASSUME executed \in [Calls -> Nat], NEW c, executed' = [executed EXCEPT ![c] = @ + 1]
  PROVE  /\ executed' \in [Calls -> Nat]
         /\ \A d \in Calls : executed'[d] = IF d = c THEN executed[d] + 1 ELSE executed[d]
  <1>1. CASE c \in Calls
    BY <1>1
  <1>2. CASE c \notin Calls
    <2>1. executed' = executed
      BY <1>2
    <2>2. QED
      BY <1>2, <2>1
  <1>3. QED
    BY <1>1, <1>2

LEMMA ServerStepType ==
  ASSUME ServerTypeOK, NEW s \in Sessions, ServerStep(s)
  PROVE  ServerTypeOK'
  <1>1. CASE HandleLine(s)
    <2>0. Handles(s)
      BY <1>1, HandledLine
    <2>1. /\ UNCHANGED <<child, stdinOpen>>
          /\ stdin' \in [Sessions -> Seq(Lines)]
      <3>1. Tail(stdin[s]) \in Seq(Lines)
        BY <2>0, ItemsHead DEF Handles, Takes, ServerTypeOK
      <3>2. QED
        BY <2>0, <3>1 DEF Handles, Takes, ServerTypeOK
    <2>2. stdout' \in [Sessions -> Seq(Replies)]
      <3>1. CASE UNCHANGED stdout
        BY <3>1 DEF ServerTypeOK
      <3>2. ASSUME NEW r \in Replies, Answers(s, r) PROVE stdout' \in [Sessions -> Seq(Replies)]
        BY <3>2, ItemsAppend DEF Answers, ServerTypeOK
      <3>3. QED
        BY <2>0, <3>1, <3>2 DEF Handles, Answered
    <2>3. executed' \in [Calls -> Nat]
      <3>1. UNCHANGED executed \/ executed' = [executed EXCEPT ![Message(s).call] = @ + 1]
        BY <2>0 DEF Handles, Answered
      <3>2. QED
        BY <3>1, CountedOnce DEF ServerTypeOK
    <2>4. QED
      BY <2>1, <2>2, <2>3, RememberedType DEF ServerTypeOK
  <1>2. CASE ExitAtEof(s) \/ DiesInTool(s) \/ Dies(s)
    <2>1. /\ child' = [child EXCEPT ![s] = "gone"]
          /\ stdin' = [stdin EXCEPT ![s] = <<>>]
          /\ UNCHANGED <<stdinOpen, stdout>>
      BY <1>2 DEF ExitAtEof, DiesInTool, Dies, Gone
    <2>2. executed' \in [Calls -> Nat]
      BY <1>2, CountedOnce DEF ExitAtEof, DiesInTool, Dies, ServerTypeOK
    <2>3. QED
      BY <2>1, <2>2, RememberedType, ItemsEmpty DEF ServerTypeOK
  <1>3. QED
    BY <1>1, <1>2 DEF ServerStep

-----------------------------------------------------------------------------
(* Type correctness.                                                       *)

HostType == [phase : {"stopped", "starting", "running", "closing"}, started : BOOLEAN,
             clients : Seq(Sessions), left : 0..config.downstreams]

\* Where the starter is in start and close, and what the host then holds.
StarterInv ==
    /\ host.left <= Len(host.clients)
    /\ host.phase \in {"stopped", "starting"} => ~host.started
    /\ host.phase = "stopped" => host.clients = <<>>
    /\ host.started => Len(host.clients) = config.downstreams
    /\ task[Starter].step # "counting"
    /\ task[Starter].step \in {"sending", "writing", "waiting", "notifying"} =>
         host.phase = "starting" /\ Len(host.clients) < config.downstreams
    /\ task[Starter].step = "closing" => host.phase = "closing"
    /\ \A c \in Calls : task[c].step \notin {"notifying", "closing"}
    /\ peer = "agent" => /\ host.phase = "stopped"
                         /\ \A t \in Threads : task[t] = Idle
                         /\ \A c \in Calls : outcome[c] = "none"

\* What a thread that is doing something holds.
LEMMA TaskShape ==
  ASSUME TypeOK, NEW t \in Threads
  PROVE  /\ task[t].step \in {"counting", "sending", "writing", "waiting"}
              => task[t].session \in Sessions /\ task[t].id \in Nat
         /\ task[t].step \in {"notifying", "closing"} => task[t].session \in Sessions
         /\ task[t].step = "idle" <=> task[t] = Idle
         /\ task[t].step \in {"idle", "counting", "sending", "writing", "waiting", "notifying",
                             "closing"}
  BY DEF TypeOK, Tasks, Idle

Requests == [step : {"counting", "sending", "writing", "waiting"}, session : Sessions, id : Nat]

LEMMA RequestMoves ==
  ASSUME NEW r \in Requests, NEW step \in {"counting", "sending", "writing", "waiting"}
  PROVE  /\ [r EXCEPT !.step = step] \in Requests
         /\ [r EXCEPT !.step = step].step = step
         /\ [r EXCEPT !.step = step].session = r.session
         /\ [r EXCEPT !.step = step].id = r.id
  BY DEF Requests

\* A request keeps its id and its session when it goes on.
LEMMA TaskMoves ==
  ASSUME TypeOK, NEW t \in Threads, task[t].step \in {"counting", "sending", "writing", "waiting"},
         NEW step \in {"counting", "sending", "writing", "waiting"}
  PROVE  /\ [task[t] EXCEPT !.step = step] \in Tasks
         /\ [task[t] EXCEPT !.step = step].step = step
         /\ [task[t] EXCEPT !.step = step].session = task[t].session
         /\ [task[t] EXCEPT !.step = step].id = task[t].id
  <1>1. task[t] \in Requests
    <2>1. task[t] \in Tasks
      BY DEF TypeOK
    <2>2. task[t] # Idle
      BY DEF Idle
    <2>3. task[t] \notin [step : {"notifying", "closing"}, session : Sessions]
      OBVIOUS
    <2>4. QED
      BY <2>1, <2>2, <2>3 DEF Tasks, Requests
  <1>2. Requests \subseteq Tasks
    BY DEF Requests, Tasks
  <1>3. QED
    BY <1>1, <1>2, RequestMoves

LEMMA LineTypes ==
  /\ \A id \in Nat : Request(id, "initialize", NoCall) \in Lines
  /\ \A id \in Nat, c \in Calls : Request(id, "tools/call", c) \in Lines
  /\ InitializedLine \in Lines
  BY DEF Request, InitializedLine, Lines, Null

LEMMA TypeInit == Init => TypeOK
  <1> SUFFICES ASSUME Init PROVE TypeOK
    OBVIOUS
  <1> USE HostAssumption
  <1>1. config.downstreams \in Nat
    BY DEF Init
  <1>2. ServerTypeOK
    <2>1. /\ <<>> \in Seq(Lines) /\ <<>> \in Seq(Replies)
          /\ <<>> \in Seq({"initialize", "initialized", "run"})
      BY ItemsEmpty
    <2>2. PICK running \in {{}, {1}} : ServerInit(running)
      BY DEF Init
    <2>3. QED
      BY <2>1, <2>2 DEF ServerInit, ServerTypeOK, Lifecycle
  <1>3. Stopped \in HostType /\ Len(Stopped.clients) <= config.downstreams
    BY <1>1, ItemsEmpty DEF Stopped, HostType
  <1>4. responses \in [Sessions -> Seq(Replies \union {Broken})]
    BY ItemsEmpty DEF Init
  <1>5. QED
    BY <1>2, <1>3, <1>4 DEF Init, TypeOK, Tasks, HostType

\* What the host and an agent do to the servers' side of a session.
LEMMA ServerSideType ==
  ASSUME ServerTypeOK, NEW s \in Sessions,
         \/ UNCHANGED serverVars
         \/ \E line \in Lines : Write(s, line)
         \/ Untouched /\ stdinOpen' \in [Sessions -> BOOLEAN]
         \/ /\ stdout[s] # <<>> /\ stdout' = [stdout EXCEPT ![s] = Tail(@)]
            /\ UNCHANGED <<child, lifecycle, stdin, stdinOpen, heard, executed>>
         \/ /\ stdout' = [stdout EXCEPT ![s] = <<>>]
            /\ UNCHANGED <<child, lifecycle, stdin, stdinOpen, heard, executed>>
         \/ /\ child' = [child EXCEPT ![s] = "running"]
            /\ UNCHANGED <<lifecycle, stdin, stdinOpen, stdout, heard, executed>>
  PROVE  ServerTypeOK'
  <1>1. CASE UNCHANGED serverVars
    BY <1>1 DEF serverVars, ServerTypeOK
  <1>2. ASSUME NEW line \in Lines, Write(s, line) PROVE ServerTypeOK'
    BY <1>2, ItemsAppend DEF Write, ServerTypeOK
  <1>3. CASE Untouched /\ stdinOpen' \in [Sessions -> BOOLEAN]
    BY <1>3 DEF Untouched, ServerTypeOK
  <1>4. CASE /\ stdout[s] # <<>> /\ stdout' = [stdout EXCEPT ![s] = Tail(@)]
             /\ UNCHANGED <<child, lifecycle, stdin, stdinOpen, heard, executed>>
    <2>1. Tail(stdout[s]) \in Seq(Replies)
      BY <1>4, ItemsHead DEF ServerTypeOK
    <2>2. QED
      BY <1>4, <2>1 DEF ServerTypeOK
  <1>5. CASE /\ stdout' = [stdout EXCEPT ![s] = <<>>]
             /\ UNCHANGED <<child, lifecycle, stdin, stdinOpen, heard, executed>>
    BY <1>5, ItemsEmpty DEF ServerTypeOK
  <1>6. CASE /\ child' = [child EXCEPT ![s] = "running"]
             /\ UNCHANGED <<lifecycle, stdin, stdinOpen, stdout, heard, executed>>
    BY <1>6 DEF ServerTypeOK
  <1>7. QED
    BY <1>1, <1>2, <1>3, <1>4, <1>5, <1>6

\* What Fails, which ends many of a thread's steps, leaves behind.
LEMMA FailsType ==
  ASSUME TypeOK, NEW t \in Threads, Fails(t),
         task[t].step \in {"sending", "writing", "waiting", "notifying"}, UNCHANGED config
  PROVE  /\ stdinOpen' \in [Sessions -> BOOLEAN]
         /\ task' \in [Threads -> Tasks]
         /\ host' \in HostType' /\ Len(host'.clients) <= config.downstreams
         /\ outcome' \in [Calls -> {"none", "refused", "raised", "unknown", "answered", "malformed"}]
  <1>1. task[t].session \in Sessions
    BY TaskShape
  <1>2. CASE t = Starter
    <2>1. /\ Proceed(t, [step |-> "closing", session |-> task[t].session])
          /\ stdinOpen' = [stdinOpen EXCEPT ![task[t].session] = FALSE]
          /\ host' = [host EXCEPT !.phase = "closing", !.left = Len(host.clients)]
          /\ UNCHANGED outcome
      BY <1>2 DEF Fails
    <2>2. [step |-> "closing", session |-> task[t].session] \in Tasks
      BY <1>1 DEF Tasks
    <2>3. Len(host.clients) \in 0..config.downstreams
      BY LenProperties, HostAssumption DEF TypeOK
    <2>4. host' \in HostType /\ host'.clients = host.clients
      BY <2>1, <2>3 DEF TypeOK, HostType
    <2>5. QED
      BY <2>1, <2>2, <2>4 DEF TypeOK, Proceed, HostType, ServerTypeOK
  <1>3. CASE t # Starter
    <2>1. /\ Proceed(t, Idle)
          /\ outcome' = [outcome EXCEPT ![t] = IF t \in Targets THEN "unknown" ELSE "raised"]
          /\ UNCHANGED <<stdinOpen, host>>
      BY <1>3 DEF Fails
    <2>2. QED
      BY <2>1 DEF TypeOK, Proceed, HostType, ServerTypeOK, Tasks
  <1>4. QED
    BY <1>2, <1>3

LEMMA GetsType ==
  ASSUME TypeOK, NEW t \in Threads, Gets(t)
  PROVE  /\ Got(t) \in Replies \union {Broken}
         /\ responses' \in [Sessions -> Seq(Replies \union {Broken})]
  <1>1. /\ task[t].session \in Sessions /\ responses[task[t].session] # <<>>
        /\ responses' = [responses EXCEPT ![task[t].session] = Tail(@)]
    BY TaskShape DEF Gets, Doing
  <1>2. /\ Head(responses[task[t].session]) \in Replies \union {Broken}
        /\ Tail(responses[task[t].session]) \in Seq(Replies \union {Broken})
    BY <1>1, ItemsHead DEF TypeOK
  <1>3. QED
    BY <1>1, <1>2 DEF TypeOK, Got

LEMMA AgentType ==
  ASSUME TypeOK, AgentSends \/ AgentReads \/ AgentHangsUp
  PROVE  TypeOK'
  <1> USE HostAssumption
  <1>1. ServerTypeOK'
    <2>1. CASE AgentSends
      <3>1. PICK line \in AgentLines : Write(1, line)
        BY <2>1 DEF AgentSends
      <3>2. QED
        BY <3>1, ServerSideType DEF TypeOK
    <2>2. CASE AgentReads
      BY <2>2, ServerSideType DEF TypeOK, AgentReads
    <2>3. CASE AgentHangsUp
      <3>1. Untouched /\ stdinOpen' \in [Sessions -> BOOLEAN]
        BY <2>3 DEF AgentHangsUp, HangUp, TypeOK, ServerTypeOK
      <3>2. QED
        BY <3>1, ServerSideType DEF TypeOK
    <2>4. QED
      BY <2>1, <2>2, <2>3
  <1>2. UNCHANGED <<host, clientVars, task, callVars, peer, config>> /\ agent' \in 0..MaxLines
    BY DEF AgentSends, AgentReads, AgentHangsUp, agents, TypeOK
  <1>3. QED
    BY <1>1, <1>2 DEF TypeOK, clientVars, callVars

LEMMA ThreadType ==
  ASSUME TypeOK, NEW t \in Threads, ThreadStep(t)
  PROVE  TypeOK'
  <1>1. CASE Send(t)
    <2>1. /\ task[t].session \in Sessions /\ task[t].id \in Nat
          /\ [task[t] EXCEPT !.step = "waiting"] \in Tasks
      BY <1>1, TaskShape, TaskMoves DEF Send, Doing
    <2>2. \E line \in Lines : Write(task[t].session, line)
      BY <1>1, <2>1, LineTypes DEF Send, Threads
    <2>3. ServerTypeOK'
      BY <2>1, <2>2, ServerSideType DEF TypeOK
    <2>4. task' \in [Threads -> Tasks]
      BY <1>1, <2>1 DEF Send, Proceed, TypeOK
    <2>5. QED
      BY <1>1, <2>3, <2>4 DEF Send, TypeOK, clientVars, callVars, agents
  <1>2. CASE SendFails(t) \/ TimesOut(t)
    <2>1. /\ task[t].step \in {"sending", "writing", "waiting", "notifying"} /\ Fails(t) /\ Untouched
          /\ UNCHANGED <<clientVars, answerOf, agents>>
      BY <1>2 DEF SendFails, TimesOut, Doing
    <2>2. task[t].session \in Sessions
      BY <2>1, TaskShape
    <2>3. ServerTypeOK'
      BY <2>1, <2>2, FailsType, ServerSideType DEF TypeOK, agents
    <2>4. QED
      BY <2>1, <2>3, FailsType DEF TypeOK, HostType, clientVars, agents
  <1>3. CASE GetsRejected(t)
    <2>1. /\ task[t].step = "waiting" /\ Gets(t) /\ Fails(t) /\ Untouched
          /\ UNCHANGED <<nextId, reader, answerOf, agents>>
      BY <1>3 DEF GetsRejected, Gets, Doing
    <2>2. task[t].session \in Sessions
      BY <2>1, TaskShape
    <2>3. ServerTypeOK'
      BY <2>1, <2>2, FailsType, ServerSideType DEF TypeOK, agents
    <2>4. QED
      BY <2>1, <2>3, FailsType, GetsType DEF TypeOK, HostType, agents
  <1>4. QED
    BY <1>1, <1>2, <1>3 DEF ThreadStep

LEMMA ReaderType ==
  ASSUME TypeOK, NEW s \in Sessions, ReaderStep(s)
  PROVE  TypeOK'
  <1> DEFINE Item == Replies \union {Broken}
  <1>1. ASSUME NEW x \in Item, responses' = [responses EXCEPT ![s] = Append(@, x)]
        PROVE  responses' \in [Sessions -> Seq(Item)]
    BY <1>1, ItemsAppend DEF TypeOK
  <1>2. CASE ReadLine(s)
    <2> DEFINE x == IF Head(stdout[s]).body = "oversized" THEN Broken ELSE Head(stdout[s])
    <2>1. x \in Item
      BY <1>2, ItemsHead DEF ReadLine, TypeOK, ServerTypeOK
    <2>2. responses' = [responses EXCEPT ![s] = Append(@, x)] /\ reader' \in [Sessions -> BOOLEAN]
      BY <1>2 DEF ReadLine, TypeOK
    <2>3. ServerTypeOK'
      BY <1>2, ServerSideType DEF ReadLine, TypeOK
    <2> HIDE DEF x
    <2>4. QED
      BY <1>1, <1>2, <2>1, <2>2, <2>3 DEF ReadLine, TypeOK, callVars, agents
  <1>3. CASE ReadEof(s)
    <2>1. ServerTypeOK'
      BY <1>3, ServerSideType DEF ReadEof, TypeOK
    <2>2. QED
      BY <1>1, <1>3, <2>1 DEF ReadEof, TypeOK, callVars, agents
  <1>4. QED
    BY <1>2, <1>3 DEF ReaderStep

LEMMA CallType ==
  ASSUME TypeOK, StarterInv, NEW c \in Calls, CallStep(c)
  PROVE  TypeOK'
  <1> USE HostAssumption
  <1>0. c \in Threads /\ Calls \subseteq Threads
    BY DEF Threads
  <1>1. CASE FieldMissing(c) \/ NotStarted(c)
    <2>1. ServerTypeOK'
      BY <1>1 DEF FieldMissing, NotStarted, serverVars, ServerTypeOK, TypeOK
    <2>2. QED
      BY <1>1, <2>1 DEF FieldMissing, NotStarted, Ends, TypeOK, clientVars, agents
  <1>2. CASE Count(c)
    <2>1. /\ task[c].session \in Sessions /\ task[c].id \in Nat
          /\ [task[c] EXCEPT !.step = "sending"] \in Tasks
      BY <1>0, <1>2, TaskShape, TaskMoves DEF Count, Doing
    <2>2. nextId' \in [Sessions -> Nat]
      <3> DEFINE s == task[c].session
      <3>1. PICK n \in task[c].id..nextId[s] : nextId' = [nextId EXCEPT ![s] = n + 1]
        BY <1>2 DEF Count
      <3>2. nextId \in [Sessions -> Nat] /\ s \in Sessions
        BY <2>1 DEF TypeOK
      <3> HIDE DEF s
      <3>3. n + 1 \in Nat
        BY <2>1, <3>2
      <3>4. QED
        BY <3>1, <3>2, <3>3
    <2>3. task' \in [Threads -> Tasks]
      BY <1>2, <2>1 DEF Count, Proceed, TypeOK
    <2>4. ServerTypeOK'
      BY <1>2 DEF Count, serverVars, ServerTypeOK, TypeOK
    <2>5. QED
      BY <1>2, <2>2, <2>3, <2>4 DEF Count, TypeOK, callVars, agents
  <1>3. CASE GetsResult(c)
    <2>1. /\ task[c].session \in Sessions /\ Gets(c) /\ Untouched
          /\ UNCHANGED <<nextId, reader, agents, host, stdinOpen>>
      BY <1>0, <1>3, TaskShape DEF GetsResult, Gets, Doing
    <2>2. Got(c).call \in Calls \union {NoCall}
      <3>1. \A x \in Replies \union {Broken} : x.call \in Calls \union {NoCall}
        <4>1. \A x \in Replies : x.call \in Calls \union {NoCall}
          BY DEF Replies
        <4>2. Broken.call = NoCall
          BY DEF Broken
        <4>3. QED
          BY <4>1, <4>2
      <3>2. QED
        BY <1>0, <2>1, <3>1, GetsType
    <2>3. ServerTypeOK'
      BY <2>1, ServerSideType DEF TypeOK, ServerTypeOK
    <2>4. /\ task' \in [Threads -> Tasks]
          /\ outcome' \in [Calls -> {"none", "refused", "raised", "unknown", "answered", "malformed"}]
          /\ answerOf' \in [Calls -> Calls \union {NoCall}]
      BY <1>3, <2>2 DEF GetsResult, Proceed, TypeOK, Tasks
    <2>5. QED
      BY <1>0, <2>1, <2>3, <2>4, GetsType DEF TypeOK, agents
  <1>4. CASE TakeUp(c)
    <2> DEFINE s == host.clients[config.server[c]]
    <2>1. config.server[c] \in 1..Len(host.clients)
      BY <1>4 DEF TakeUp, StarterInv, TypeOK
    <2>2. s \in Sessions
      BY <2>1, ElementOfSeq DEF TypeOK
    <2>3. [step |-> "counting", session |-> s, id |-> nextId[s]] \in Tasks
      BY <2>2 DEF TypeOK, Tasks
    <2>4. task' \in [Threads -> Tasks]
      BY <1>4, <2>3 DEF TakeUp, Proceed, TypeOK
    <2>5. ServerTypeOK'
      BY <1>4 DEF TakeUp, serverVars, ServerTypeOK, TypeOK
    <2>6. QED
      BY <1>4, <2>4, <2>5 DEF TakeUp, TypeOK, clientVars, callVars, agents
  <1>5. CASE SendBlocks(c)
    <2>1. [task[c] EXCEPT !.step = "writing"] \in Tasks
      BY <1>0, <1>5, TaskMoves DEF SendBlocks, Doing
    <2>2. task' \in [Threads -> Tasks]
      BY <1>5, <2>1 DEF SendBlocks, Proceed, TypeOK
    <2>3. ServerTypeOK'
      BY <1>5 DEF SendBlocks, serverVars, ServerTypeOK, TypeOK
    <2>4. QED
      BY <1>5, <2>2, <2>3 DEF SendBlocks, TypeOK, clientVars, callVars, agents
  <1>6. QED
    BY <1>1, <1>2, <1>3, <1>4, <1>5 DEF CallStep

\* What the starter changes of the host's record.
LEMMA HostMoves ==
  ASSUME NEW h \in HostType
  PROVE  /\ [h EXCEPT !.phase = "starting"] \in HostType
         /\ [h EXCEPT !.phase = "starting"].clients = h.clients
         /\ [h EXCEPT !.phase = "running", !.started = TRUE] \in HostType
         /\ [h EXCEPT !.phase = "running", !.started = TRUE].clients = h.clients
         /\ \A n \in 0..config.downstreams :
              /\ [h EXCEPT !.phase = "closing", !.left = n] \in HostType
              /\ [h EXCEPT !.phase = "closing", !.left = n].clients = h.clients
              /\ [h EXCEPT !.left = n] \in HostType
              /\ [h EXCEPT !.left = n].clients = h.clients
         /\ \A q \in Seq(Sessions) :
              /\ [h EXCEPT !.clients = q] \in HostType
              /\ [h EXCEPT !.clients = q].clients = q
  BY DEF HostType

LEMMA OpenType ==
  ASSUME TypeOK, StarterInv, Start \/ Open \/ Close
  PROVE  TypeOK'
  <1> USE HostAssumption
  <1>0. Starter \in Threads /\ Len(host.clients) \in Nat /\ config.downstreams \in Nat
    BY LenProperties DEF Threads, TypeOK
  <1>1. CASE Start \/ CannotSpawn \/ Started \/ Close
    <2>1. UNCHANGED <<serverVars, clientVars, task, callVars, agents>>
      BY <1>1 DEF Start, CannotSpawn, Started, Close
    <2>2. host' \in HostType /\ host'.clients = host.clients
      <3>1. CASE Start
        BY <1>0, <3>1, HostMoves DEF Start, TypeOK, HostType
      <3>2. CASE CannotSpawn \/ Close
        <4>1. /\ host' = [host EXCEPT !.phase = "closing", !.left = Len(host.clients)]
              /\ Len(host.clients) \in 0..config.downstreams
          BY <1>0, <3>2 DEF CannotSpawn, Close, TypeOK
        <4>2. QED
          BY <4>1, HostMoves DEF TypeOK, HostType
      <3>3. CASE Started
        BY <1>0, <3>3, HostMoves DEF Started, TypeOK, HostType
      <3>4. QED
        BY <1>1, <3>1, <3>2, <3>3
    <2>3. ServerTypeOK'
      BY <2>1 DEF serverVars, ServerTypeOK, TypeOK
    <2>4. QED
      BY <2>1, <2>2, <2>3 DEF TypeOK, HostType, clientVars, callVars, agents
  <1>2. CASE Spawn
    <2>1. PICK s \in Sessions :
            /\ child' = [child EXCEPT ![s] = "running"]
            /\ Proceed(Starter, [step |-> "sending", session |-> s, id |-> nextId[s]])
            /\ nextId' = [nextId EXCEPT ![s] = @ + 1]
      BY <1>2 DEF Spawn, Fresh
    <2>2. ServerTypeOK'
      BY <1>2, <2>1, ServerSideType DEF Spawn, TypeOK
    <2>3. [step |-> "sending", session |-> s, id |-> nextId[s]] \in Tasks
      BY <2>1 DEF TypeOK, Tasks
    <2>4. task' \in [Threads -> Tasks]
      BY <2>1, <2>3 DEF Proceed, TypeOK
    <2>5. nextId' \in [Sessions -> Nat]
      BY <2>1 DEF TypeOK
    <2>6. QED
      BY <1>2, <2>2, <2>4, <2>5 DEF Spawn, TypeOK, callVars, agents
  <1>3. CASE GetsInitialized
    <2>1. /\ task[Starter].session \in Sessions /\ Gets(Starter) /\ Untouched
          /\ UNCHANGED <<nextId, reader, agents, host, stdinOpen, callVars>>
      BY <1>0, <1>3, TaskShape DEF GetsInitialized, Gets, Doing
    <2>2. ServerTypeOK'
      BY <2>1, ServerSideType DEF TypeOK, ServerTypeOK
    <2>3. [step |-> "notifying", session |-> task[Starter].session] \in Tasks
      BY <2>1 DEF Tasks
    <2>4. task' \in [Threads -> Tasks]
      BY <1>3, <2>3 DEF GetsInitialized, Proceed, TypeOK
    <2>5. QED
      BY <1>0, <2>1, <2>2, <2>4, GetsType DEF TypeOK, callVars, agents
  <1>4. CASE Notify
    <2>1. task[Starter].session \in Sessions /\ Len(host.clients) < config.downstreams
      BY <1>0, <1>4, TaskShape DEF Notify, Doing, StarterInv
    <2>2. ServerTypeOK'
      BY <1>4, <2>1, LineTypes, ServerSideType DEF Notify, TypeOK
    <2>3. /\ Append(host.clients, task[Starter].session) \in Seq(Sessions)
          /\ Len(Append(host.clients, task[Starter].session)) = Len(host.clients) + 1
      BY <2>1, ItemsAppend DEF TypeOK
    <2>4. host' \in HostType /\ Len(host'.clients) <= config.downstreams
      <3>1. host' = [host EXCEPT !.clients = Append(host.clients, task[Starter].session)]
        BY <1>4 DEF Notify
      <3>2. host \in HostType
        BY DEF TypeOK, HostType
      <3>3. /\ host' \in HostType
            /\ host'.clients = Append(host.clients, task[Starter].session)
        BY <2>3, <3>1, <3>2, HostMoves
      <3>4. QED
        BY <1>0, <2>1, <2>3, <3>3
    <2>5. QED
      BY <1>4, <2>2, <2>4 DEF Notify, Proceed, TypeOK, HostType, Tasks, clientVars, callVars, agents
  <1>5. QED
    BY <1>1, <1>2, <1>3, <1>4 DEF Open

LEMMA ShutType ==
  ASSUME TypeOK, StarterInv, Shut
  PROVE  TypeOK'
  <1> USE HostAssumption
  <1>0. Starter \in Threads /\ Len(host.clients) \in Nat /\ config.downstreams \in Nat
    BY LenProperties DEF Threads, TypeOK
  <1>1. CASE CloseClient
    <2> DEFINE s == host.clients[host.left]
    <2>1. s \in Sessions
      <3>1. host.left \in 1..Len(host.clients)
        BY <1>0, <1>1 DEF CloseClient, StarterInv, TypeOK
      <3>2. QED
        BY <3>1, ElementOfSeq DEF TypeOK
    <2>2. [step |-> "closing", session |-> s] \in Tasks
      BY <2>1 DEF Tasks
    <2>3. Untouched /\ stdinOpen' \in [Sessions -> BOOLEAN]
      BY <1>1, <2>1 DEF CloseClient, HangUp, TypeOK, ServerTypeOK
    <2>4. ServerTypeOK'
      BY <2>1, <2>3, ServerSideType DEF TypeOK
    <2>5. task' \in [Threads -> Tasks]
      BY <1>1, <2>2 DEF CloseClient, Proceed, TypeOK
    <2>6. host' \in HostType /\ host'.clients = host.clients
      <3>1. host.left \in 0..config.downstreams /\ config.downstreams \in Nat
        BY <1>0 DEF TypeOK
      <3>2. host.left > 0 /\ host' = [host EXCEPT !.left = host.left - 1]
        BY <1>1 DEF CloseClient
      <3>3. host.left - 1 \in 0..config.downstreams
        BY <3>1, <3>2
      <3>4. QED
        BY <3>2, <3>3, HostMoves DEF TypeOK, HostType
    <2>7. QED
      BY <1>1, <2>4, <2>5, <2>6 DEF CloseClient, TypeOK, HostType, clientVars, callVars, agents
  <1>2. CASE Kill
    <2>1. task[Starter].session \in Sessions
      BY <1>0, <1>2, TaskShape DEF Kill, Doing
    <2>2. ServerTypeOK'
      BY <1>2, <2>1, ServerStepType DEF Kill, ServerStep, TypeOK
    <2>3. QED
      BY <1>2, <2>2 DEF Kill, TypeOK, clientVars, callVars, agents
  <1>3. CASE Reap
    <2> DEFINE s == task[Starter].session
    <2>1. s \in Sessions
      BY <1>0, <1>3, TaskShape DEF Reap, Doing
    <2>2. CASE UNCHANGED <<stdout, responses, reader>>
      <3>1. ServerTypeOK'
        BY <1>3, <2>2 DEF Reap, TypeOK, ServerTypeOK
      <3>2. QED
        BY <1>3, <2>2, <3>1 DEF Reap, Proceed, TypeOK, Tasks, callVars, agents
    <2>3. CASE /\ stdout' = [stdout EXCEPT ![s] = <<>>]
               /\ responses' = [responses EXCEPT ![s] = <<>>]
               /\ reader' = [reader EXCEPT ![s] = FALSE]
      <3>1. ServerTypeOK'
        BY <1>3, <2>1, <2>3, ServerSideType DEF Reap, TypeOK
      <3>2. /\ responses' \in [Sessions -> Seq(Replies \union {Broken})]
            /\ reader' \in [Sessions -> BOOLEAN]
        BY <2>3, ItemsEmpty DEF TypeOK
      <3>3. QED
        BY <1>3, <3>1, <3>2 DEF Reap, Proceed, TypeOK, Tasks, callVars, agents
    <2>4. QED
      BY <1>3, <2>2, <2>3 DEF Reap
  <1>4. CASE Closed
    <2>1. host' \in HostType /\ Len(host'.clients) = 0
      BY <1>0, <1>4, ItemsEmpty DEF Closed, Stopped, HostType
    <2>2. ServerTypeOK'
      BY <1>4 DEF Closed, serverVars, ServerTypeOK, TypeOK
    <2>3. UNCHANGED <<config, nextId, responses, reader, task, outcome, answerOf, peer, agent>>
      BY <1>4 DEF Closed, clientVars, callVars, agents
    <2>4. 0 <= config.downstreams
      BY <1>0
    <2>5. QED
      BY <1>0, <2>1, <2>2, <2>3, <2>4 DEF TypeOK, HostType
  <1>5. QED
    BY <1>1, <1>2, <1>3, <1>4 DEF Shut

LEMMA TypeStep ==
  ASSUME TypeOK, StarterInv, [Next]_vars
  PROVE  TypeOK'
  <1>1. ASSUME NEW s \in Sessions, Servers(s) PROVE TypeOK'
    BY <1>1, ServerStepType DEF Servers, TypeOK, clientVars, callVars, agents
  <1>2. CASE UNCHANGED vars
    BY <1>2 DEF vars, serverVars, clientVars, callVars, agents, TypeOK, ServerTypeOK
  <1>3. QED
    BY <1>1, <1>2, AgentType, ThreadType, ReaderType, CallType, OpenType, ShutType DEF Next

-----------------------------------------------------------------------------
(* Where the starter is.                                                   *)

LEMMA StarterInit == Init => StarterInv
  <1> SUFFICES ASSUME Init PROVE StarterInv
    OBVIOUS
  <1>1. host = Stopped /\ \A t \in Threads : task[t] = Idle
    BY DEF Init
  <1>2. Starter \in Threads /\ Calls \subseteq Threads
    BY DEF Threads
  <1>3. \A c \in Calls : outcome[c] = "none"
    BY DEF Init
  <1>4. Idle.step = "idle" /\ Len(Stopped.clients) = 0
    BY ItemsEmpty DEF Idle, Stopped
  <1>5. QED
    BY <1>1, <1>2, <1>3, <1>4 DEF StarterInv, Stopped

LEMMA StarterFrame ==
  ASSUME StarterInv, UNCHANGED <<host, task, outcome, peer, config>>
  PROVE  StarterInv'
  BY DEF StarterInv

\* The step of a thread that serves a call.
LEMMA StarterCallMoves ==
  ASSUME TypeOK, StarterInv, NEW c \in Calls, peer = "host", UNCHANGED <<host, peer, config>>,
         NEW j \in Tasks, j.step \notin {"notifying", "closing"}, Proceed(c, j)
  PROVE  StarterInv'
  <1>1. /\ c # Starter /\ c \in Threads /\ Starter \in Threads /\ Calls \subseteq Threads
    BY HostAssumption DEF Threads
  <1>2. \A t \in Threads : task'[t] = IF t = c THEN j ELSE task[t]
    BY <1>1 DEF Proceed, TypeOK
  <1>3. QED
    BY <1>1, <1>2 DEF StarterInv

\* A step of the starter that leaves the host alone.
LEMMA StarterMoves ==
  ASSUME TypeOK, StarterInv, peer = "host", UNCHANGED <<host, outcome, peer, config>>,
         NEW j \in Tasks, Proceed(Starter, j),
         j.step # "counting",
         j.step \in {"sending", "writing", "waiting", "notifying"} =>
           host.phase = "starting" /\ Len(host.clients) < config.downstreams,
         j.step = "closing" => host.phase = "closing"
  PROVE  StarterInv'
  <1>1. /\ Starter \notin Calls /\ Starter \in Threads /\ Calls \subseteq Threads
    BY HostAssumption DEF Threads
  <1>2. \A t \in Threads : task'[t] = IF t = Starter THEN j ELSE task[t]
    BY <1>1 DEF Proceed, TypeOK
  <1>3. QED
    BY <1>1, <1>2 DEF StarterInv

\* Nobody but an agent acts in an agent's session.
LEMMA ActsForHost ==
  ASSUME StarterInv, NEW t \in Threads, task[t].step # "idle"
  PROVE  peer # "agent"
  BY DEF StarterInv, Idle

LEMMA StarterFails ==
  ASSUME TypeOK, StarterInv, NEW t \in Threads, Fails(t), UNCHANGED <<peer, config>>,
         task[t].step \in {"sending", "writing", "waiting", "notifying"}
  PROVE  StarterInv'
  <1>1. /\ Starter \notin Calls /\ Starter \in Threads /\ Calls \subseteq Threads
        /\ peer = "host" /\ Len(host.clients) \in Nat
    BY HostAssumption, ActsForHost, LenProperties DEF Threads, TypeOK
  <1>2. CASE t = Starter
    <2> DEFINE j == [step |-> "closing", session |-> task[t].session]
    <2>1. /\ host' = [host EXCEPT !.phase = "closing", !.left = Len(host.clients)]
          /\ Proceed(t, j)
          /\ UNCHANGED outcome
      BY <1>2 DEF Fails
    <2>2. /\ host'.phase = "closing" /\ host'.left = Len(host.clients)
          /\ host'.clients = host.clients /\ host'.started = host.started
      BY <2>1 DEF TypeOK
    <2>3. j.step = "closing" /\ \A u \in Threads : task'[u] = IF u = Starter THEN j ELSE task[u]
      BY <1>1, <1>2, <2>1 DEF Proceed, TypeOK
    <2> HIDE DEF j
    <2>4. QED
      BY <1>1, <2>2, <2>3 DEF StarterInv
  <1>3. CASE t # Starter
    <2>1. t \in Calls /\ Idle \in Tasks /\ Idle.step = "idle" /\ Proceed(t, Idle) /\ UNCHANGED host
      BY <1>3 DEF Threads, Fails, Tasks, Idle
    <2>2. QED
      BY <1>1, <2>1, StarterCallMoves
  <1>4. QED
    BY <1>2, <1>3

LEMMA StarterThread ==
  ASSUME TypeOK, StarterInv, NEW t \in Threads, ThreadStep(t)
  PROVE  StarterInv'
  <1>1. CASE Send(t)
    <2> DEFINE j == [task[t] EXCEPT !.step = "waiting"]
    <2>1. /\ task[t].step \in {"sending", "writing"} /\ Proceed(t, j)
          /\ UNCHANGED <<host, outcome, peer, config>>
      BY <1>1 DEF Send, Doing, callVars, agents
    <2>2. j \in Tasks /\ j.step = "waiting" /\ peer = "host"
      BY <2>1, TaskMoves, ActsForHost DEF TypeOK
    <2> HIDE DEF j
    <2>3. QED
      BY <2>1, <2>2, StarterMoves, StarterCallMoves DEF StarterInv, Threads
  <1>2. CASE SendFails(t) \/ TimesOut(t) \/ GetsRejected(t)
    BY <1>2, StarterFails DEF SendFails, TimesOut, GetsRejected, Gets, Doing, agents
  <1>3. QED
    BY <1>1, <1>2 DEF ThreadStep

LEMMA StarterCall ==
  ASSUME TypeOK, StarterInv, NEW c \in Calls, CallStep(c)
  PROVE  StarterInv'
  <1>0. c \in Threads /\ Idle \in Tasks /\ Idle.step = "idle"
    BY DEF Threads, Tasks, Idle
  <1>1. CASE FieldMissing(c) \/ NotStarted(c)
    <2>1. UNCHANGED <<host, task, peer, config>> /\ peer = "host"
      BY <1>1 DEF FieldMissing, NotStarted, New, agents
    <2>2. QED
      BY <2>1 DEF StarterInv
  <1>2. CASE TakeUp(c)
    <2> DEFINE s == host.clients[config.server[c]]
               j == [step |-> "counting", session |-> s, id |-> nextId[s]]
    <2>1. config.server[c] \in 1..Len(host.clients)
      BY <1>2, HostAssumption DEF TakeUp, StarterInv, TypeOK
    <2>2. s \in Sessions
      BY <2>1, ElementOfSeq DEF TypeOK
    <2>3. j \in Tasks /\ j.step = "counting"
      BY <2>2 DEF TypeOK, Tasks
    <2>4. UNCHANGED <<host, peer, config>> /\ peer = "host" /\ Proceed(c, j)
      BY <1>2 DEF TakeUp, New, agents
    <2> HIDE DEF j
    <2>5. QED
      BY <2>3, <2>4, StarterCallMoves
  <1>3. CASE Count(c)
    <2> DEFINE j == [task[c] EXCEPT !.step = "sending"]
    <2>1. task[c].step = "counting" /\ UNCHANGED <<host, peer, config>> /\ Proceed(c, j)
      BY <1>3 DEF Count, Doing, agents
    <2>2. j \in Tasks /\ j.step = "sending" /\ peer = "host"
      BY <1>0, <2>1, TaskMoves, ActsForHost DEF TypeOK
    <2> HIDE DEF j
    <2>3. QED
      BY <2>1, <2>2, StarterCallMoves
  <1>4. CASE GetsResult(c)
    <2>1. task[c].step = "waiting" /\ UNCHANGED <<host, peer, config>> /\ Proceed(c, Idle)
      BY <1>4 DEF GetsResult, Gets, Doing, agents
    <2>2. peer = "host"
      BY <1>0, <2>1, ActsForHost DEF TypeOK
    <2>3. QED
      BY <1>0, <2>1, <2>2, StarterCallMoves
  <1>5. CASE SendBlocks(c)
    <2> DEFINE j == [task[c] EXCEPT !.step = "writing"]
    <2>1. task[c].step = "sending" /\ UNCHANGED <<host, peer, config>> /\ Proceed(c, j)
      BY <1>5 DEF SendBlocks, Doing, agents
    <2>2. j \in Tasks /\ j.step = "writing" /\ peer = "host"
      BY <1>0, <2>1, TaskMoves, ActsForHost DEF TypeOK
    <2> HIDE DEF j
    <2>3. QED
      BY <2>1, <2>2, StarterCallMoves
  <1>6. QED
    BY <1>1, <1>2, <1>3, <1>4, <1>5 DEF CallStep

LEMMA StarterOpen ==
  ASSUME TypeOK, StarterInv, Start \/ Open \/ Close
  PROVE  StarterInv'
  <1>0. /\ Starter \notin Calls /\ Starter \in Threads /\ Calls \subseteq Threads
        /\ Len(host.clients) \in Nat /\ config.downstreams \in Nat /\ Idle.step = "idle"
    BY HostAssumption, LenProperties DEF Threads, TypeOK, Idle
  <1>1. CASE Start \/ CannotSpawn \/ Started \/ Close
    <2>1. UNCHANGED <<task, outcome, peer, config>>
      BY <1>1 DEF Start, CannotSpawn, Started, Close, callVars, agents
    <2>2. CASE Start
      <3>1. /\ peer = "host" /\ host.phase = "stopped" /\ host'.phase = "starting"
            /\ host'.started = host.started /\ host'.clients = host.clients
            /\ host'.left = host.left
        BY <2>2 DEF Start, TypeOK
      <3>2. QED
        BY <1>0, <2>1, <3>1 DEF StarterInv
    <2>3. CASE CannotSpawn \/ Close
      <3>1. /\ host.phase \in {"starting", "running"} /\ host'.phase = "closing"
            /\ host'.started = host.started /\ host'.clients = host.clients
            /\ host'.left = Len(host.clients)
            /\ host.phase = "starting" => task[Starter] = Idle
        BY <2>3 DEF CannotSpawn, Starting, Close, TypeOK
      <3>2. QED
        BY <1>0, <2>1, <3>1 DEF StarterInv
    <2>4. CASE Started
      <3>1. /\ host.phase = "starting" /\ host'.phase = "running"
            /\ host'.started /\ host'.clients = host.clients
            /\ host'.left = host.left /\ task[Starter] = Idle
            /\ Len(host.clients) = config.downstreams
        BY <2>4 DEF Started, Starting, TypeOK
      <3>2. QED
        BY <1>0, <2>1, <3>1 DEF StarterInv
    <2>5. QED
      BY <1>1, <2>2, <2>3, <2>4
  <1>2. CASE Spawn
    <2>1. PICK s \in Sessions : Proceed(Starter, [step |-> "sending", session |-> s, id |-> nextId[s]])
      BY <1>2 DEF Spawn, Fresh
    <2> DEFINE j == [step |-> "sending", session |-> s, id |-> nextId[s]]
    <2>2. j \in Tasks /\ j.step = "sending"
      BY <2>1 DEF TypeOK, Tasks
    <2>3. /\ UNCHANGED <<host, outcome, peer, config>> /\ host.phase = "starting"
          /\ Len(host.clients) < config.downstreams
      BY <1>2 DEF Spawn, Starting, callVars, agents
    <2>4. peer = "host"
      BY <2>3 DEF StarterInv, TypeOK
    <2> HIDE DEF j
    <2>5. QED
      BY <2>1, <2>2, <2>3, <2>4, StarterMoves DEF j
  <1>3. CASE GetsInitialized
    <2> DEFINE j == [step |-> "notifying", session |-> task[Starter].session]
    <2>1. /\ task[Starter].step = "waiting" /\ Proceed(Starter, j)
          /\ UNCHANGED <<host, outcome, peer, config>>
      BY <1>3 DEF GetsInitialized, Gets, Doing, callVars, agents
    <2>2. j \in Tasks /\ j.step = "notifying"
      BY <1>0, <2>1, TaskShape DEF Tasks
    <2>3. peer = "host"
      BY <1>0, <2>1, ActsForHost DEF TypeOK
    <2> HIDE DEF j
    <2>4. QED
      BY <2>1, <2>2, <2>3, StarterMoves DEF StarterInv
  <1>4. CASE Notify
    <2> DEFINE q == Append(host.clients, task[Starter].session)
    <2>1. task[Starter].session \in Sessions /\ task[Starter].step = "notifying"
      BY <1>0, <1>4, TaskShape DEF Notify, Doing
    <2>2. q \in Seq(Sessions) /\ Len(q) = Len(host.clients) + 1
      BY <2>1, ItemsAppend DEF TypeOK
    <2>3. /\ host'.phase = host.phase /\ host'.started = host.started /\ host'.left = host.left
          /\ host'.clients = q
      BY <1>4 DEF Notify, TypeOK
    <2>4. /\ UNCHANGED <<outcome, peer, config>>
          /\ \A t \in Threads : task'[t] = IF t = Starter THEN Idle ELSE task[t]
      BY <1>0, <1>4 DEF Notify, Proceed, TypeOK, callVars, agents
    <2>5. /\ host.phase = "starting" /\ peer # "agent"
          /\ host.left \in Nat /\ host.left <= Len(host.clients)
      BY <1>0, <2>1, ActsForHost DEF StarterInv, TypeOK
    <2> HIDE DEF q
    <2>6. QED
      BY <1>0, <2>2, <2>3, <2>4, <2>5 DEF StarterInv
  <1>5. QED
    BY <1>1, <1>2, <1>3, <1>4 DEF Open

LEMMA StarterShut ==
  ASSUME TypeOK, StarterInv, Shut
  PROVE  StarterInv'
  <1>0. /\ Starter \notin Calls /\ Starter \in Threads /\ Calls \subseteq Threads
        /\ Len(host.clients) \in Nat /\ Idle.step = "idle" /\ Idle \in Tasks
    BY HostAssumption, LenProperties DEF Threads, TypeOK, Idle, Tasks
  <1>1. CASE CloseClient
    <2> DEFINE j == [step |-> "closing", session |-> host.clients[host.left]]
    <2>1. /\ host.phase = "closing" /\ host'.phase = "closing" /\ host'.started = host.started
          /\ host'.clients = host.clients /\ host'.left = host.left - 1
          /\ UNCHANGED <<outcome, peer, config>>
          /\ Proceed(Starter, j)
          /\ host.left \in Nat
      BY <1>1 DEF CloseClient, TypeOK, callVars, agents
    <2>2. /\ j.step = "closing"
          /\ \A t \in Threads : task'[t] = IF t = Starter THEN j ELSE task[t]
      BY <1>0, <2>1 DEF Proceed, TypeOK
    <2> HIDE DEF j
    <2>3. QED
      BY <1>0, <2>1, <2>2 DEF StarterInv
  <1>2. CASE Kill
    BY <1>2, StarterFrame DEF Kill, callVars, agents
  <1>3. CASE Reap
    <2>1. /\ task[Starter].step = "closing" /\ Proceed(Starter, Idle)
          /\ UNCHANGED <<host, outcome, peer, config>>
      BY <1>3 DEF Reap, Doing, callVars, agents
    <2>2. peer = "host"
      BY <1>0, <2>1, ActsForHost DEF TypeOK
    <2>3. QED
      BY <1>0, <2>1, <2>2, StarterMoves
  <1>4. CASE Closed
    <2>1. /\ host' = Stopped /\ task[Starter] = Idle /\ host.phase = "closing"
          /\ UNCHANGED <<task, outcome, peer, config>>
      BY <1>4 DEF Closed, callVars, agents
    <2>2. Len(Stopped.clients) = 0
      BY ItemsEmpty DEF Stopped
    <2>3. QED
      BY <1>0, <2>1, <2>2 DEF StarterInv, Stopped
  <1>5. QED
    BY <1>1, <1>2, <1>3, <1>4 DEF Shut

LEMMA StarterStep ==
  ASSUME TypeOK, StarterInv, [Next]_vars
  PROVE  StarterInv'
  <1>1. CASE \E s \in Sessions : ReaderStep(s) \/ Servers(s)
    BY <1>1, StarterFrame DEF ReaderStep, ReadLine, ReadEof, Servers, callVars, agents
  <1>2. CASE AgentSends \/ AgentReads \/ AgentHangsUp
    BY <1>2, StarterFrame DEF AgentSends, AgentReads, AgentHangsUp, callVars, agents
  <1>3. CASE UNCHANGED vars
    BY <1>3, StarterFrame DEF vars, callVars, agents
  <1>4. QED
    BY <1>1, <1>2, <1>3, StarterThread, StarterCall, StarterOpen, StarterShut DEF Next

\* Every reachable state is well typed, and the starter is where start and
\* close have it.
THEOREM TypeCorrect == Spec => [](TypeOK /\ StarterInv)
  <1>1. Init => TypeOK /\ StarterInv
    BY TypeInit, StarterInit
  <1>2. TypeOK /\ StarterInv /\ [Next]_vars => (TypeOK /\ StarterInv)'
    BY TypeStep, StarterStep
  <1>3. QED
    BY <1>1, <1>2, PTL DEF Spec

-----------------------------------------------------------------------------
(* The handshake: what the server remembers is what it has heard.          *)

Greeted(q) == \E i \in 1..Len(q) : q[i] = "initialize"
Agreed(q) == \E i, j \in 1..Len(q) : i < j /\ q[i] = "initialize" /\ q[j] = "initialized"
Proper(q) ==
    \A k \in 1..Len(q) :
        q[k] = "run" => \E i, j \in 1..k : i < j /\ q[i] = "initialize" /\ q[j] = "initialized"

HandshakeInv ==
    \A s \in Sessions :
        /\ lifecycle[s] # "new" => Greeted(heard[s])
        /\ lifecycle[s] = "ready" => Agreed(heard[s])
        /\ Proper(heard[s])

LEMMA HeardMore ==
  ASSUME NEW q \in Seq({"initialize", "initialized", "run"}),
         NEW what \in {"initialize", "initialized", "run"}
  PROVE  /\ Greeted(q) => Greeted(Append(q, what))
         /\ Agreed(q) => Agreed(Append(q, what))
         /\ what = "initialize" => Greeted(Append(q, what))
         /\ what = "initialized" /\ Greeted(q) => Agreed(Append(q, what))
         /\ Proper(q) /\ (what = "run" => Agreed(q)) => Proper(Append(q, what))
  <1> DEFINE r == Append(q, what)
  <1>1. /\ Len(q) \in Nat /\ Len(r) = Len(q) + 1
        /\ \A i \in 1..Len(q) : r[i] = q[i]
        /\ r[Len(q) + 1] = what
    BY AppendProperties, LenProperties
  <1> HIDE DEF r
  <1>2. 1..Len(q) \subseteq 1..Len(r) /\ Len(r) \in 1..Len(r)
    BY <1>1
  <1>3. (Greeted(q) => Greeted(r)) /\ (Agreed(q) => Agreed(r))
    BY <1>1, <1>2 DEF Greeted, Agreed
  <1>4. what = "initialize" => Greeted(r)
    BY <1>1, <1>2 DEF Greeted
  <1>5. ASSUME what = "initialized", Greeted(q) PROVE Agreed(r)
    <2>1. PICK i \in 1..Len(q) : q[i] = "initialize"
      BY <1>5 DEF Greeted
    <2>2. i \in 1..Len(r) /\ i < Len(r) /\ r[i] = "initialize" /\ r[Len(r)] = "initialized"
      BY <1>1, <1>5, <2>1
    <2>3. QED
      BY <1>2, <2>2 DEF Agreed
  <1>6. ASSUME Proper(q), what = "run" => Agreed(q) PROVE Proper(r)
    <2> SUFFICES ASSUME NEW k \in 1..Len(r), r[k] = "run"
                 PROVE  \E i, j \in 1..k : i < j /\ r[i] = "initialize" /\ r[j] = "initialized"
      BY DEF Proper
    <2>1. CASE k \in 1..Len(q)
      <3>1. PICK i, j \in 1..k : i < j /\ q[i] = "initialize" /\ q[j] = "initialized"
        BY <1>1, <1>6, <2>1 DEF Proper
      <3>2. i \in 1..Len(q) /\ j \in 1..Len(q)
        BY <1>1, <2>1, <3>1
      <3>3. QED
        BY <1>1, <3>1, <3>2
    <2>2. CASE k = Len(q) + 1
      <3>1. PICK i, j \in 1..Len(q) : i < j /\ q[i] = "initialize" /\ q[j] = "initialized"
        BY <1>1, <1>6, <2>2 DEF Agreed
      <3>2. i \in 1..k /\ j \in 1..k
        BY <1>1, <2>2, <3>1
      <3>3. QED
        BY <1>1, <3>1, <3>2
    <2>3. QED
      BY <1>1, <2>1, <2>2
  <1>7. QED
    BY <1>3, <1>4, <1>5, <1>6 DEF r

\* Only ready servers run tools, and a server becomes ready in two steps.
LEMMA HandshakeServer ==
  ASSUME ServerTypeOK, HandshakeInv, NEW s \in Sessions, ServerStep(s)
  PROVE  HandshakeInv'
  <1> DEFINE q == heard[s]
  <1>0. q \in Seq({"initialize", "initialized", "run"})
    BY DEF ServerTypeOK
  <1>1. CASE UNCHANGED <<lifecycle, heard>>
    BY <1>1 DEF HandshakeInv
  <1>2. ASSUME NEW what \in {"initialize", "initialized", "run"}, NEW life,
               heard' = [heard EXCEPT ![s] = Append(@, what)],
               lifecycle' = [lifecycle EXCEPT ![s] = life],
               life # "new" => Greeted(Append(q, what)),
               life = "ready" => Agreed(Append(q, what)),
               what = "run" => Agreed(q)
        PROVE  HandshakeInv'
    <2>1. /\ heard'[s] = Append(q, what) /\ lifecycle'[s] = life
          /\ \A u \in Sessions : u # s => heard'[u] = heard[u] /\ lifecycle'[u] = lifecycle[u]
      BY <1>2 DEF ServerTypeOK
    <2>2. Proper(Append(q, what))
      BY <1>0, <1>2, HeardMore DEF HandshakeInv
    <2>3. QED
      BY <1>2, <2>1, <2>2 DEF HandshakeInv
  <1>3. CASE Initialized(s)
    <2> DEFINE life == IF lifecycle[s] = "initialize_responded" THEN "ready" ELSE lifecycle[s]
    <2>1. /\ heard' = [heard EXCEPT ![s] = Append(@, "initialized")]
          /\ lifecycle' = [lifecycle EXCEPT ![s] = life]
      BY <1>3 DEF Initialized, Hears
    <2>2. /\ life # "new" => Greeted(q)
          /\ life = "ready" => Greeted(q)
      BY DEF HandshakeInv
    <2> HIDE DEF life
    <2>3. /\ life # "new" => Greeted(Append(q, "initialized"))
          /\ life = "ready" => Agreed(Append(q, "initialized"))
      BY <1>0, <2>2, HeardMore
    <2>4. QED
      BY <1>2, <2>1, <2>3
  <1>4. CASE Initialize(s)
    <2>1. /\ heard' = [heard EXCEPT ![s] = Append(@, "initialize")]
          /\ lifecycle' = [lifecycle EXCEPT ![s] = "initialize_responded"]
      BY <1>4 DEF Initialize, Hears
    <2>2. Greeted(Append(q, "initialize"))
      BY <1>0, HeardMore
    <2>3. QED
      BY <1>2, <2>1, <2>2
  <1>5. CASE Hears(s, "run") /\ UNCHANGED lifecycle /\ lifecycle[s] = "ready"
    <2>1. /\ heard' = [heard EXCEPT ![s] = Append(@, "run")]
          /\ lifecycle' = [lifecycle EXCEPT ![s] = "ready"]
      BY <1>5 DEF Hears, ServerTypeOK
    <2>2. Greeted(q) /\ Agreed(q)
      BY <1>5 DEF HandshakeInv
    <2>3. Greeted(Append(q, "run")) /\ Agreed(Append(q, "run"))
      BY <1>0, <2>2, HeardMore
    <2>4. QED
      BY <1>2, <2>1, <2>2, <2>3
  <1>6. CASE CallTool(s) \/ DiesInTool(s)
    BY <1>1, <1>5, <1>6 DEF CallTool, DiesInTool, Gone, Unmoved
  <1>7. QED
    BY <1>1, <1>3, <1>4, <1>6
       DEF ServerStep, HandleLine, RejectUnreadable, RejectInvalid, IgnoreNotification,
           RefuseInitialize, Ping, TooEarly, ListTools, UnknownMethod, ExitAtEof, Dies, Gone, Unmoved

\* What the server has heard is changed by the server alone.
LEMMA HeardByServers ==
  ASSUME [Next]_vars, ~\E s \in Sessions : ServerStep(s), TypeOK
  PROVE  UNCHANGED <<lifecycle, heard>>
  <1>1. CASE Kill
    BY <1>1 DEF Kill, Dies, Gone
  <1>2. CASE Start \/ Open \/ Close \/ CloseClient \/ Reap \/ Closed
    BY <1>2 DEF Start, Open, Spawn, CannotSpawn, GetsInitialized, Gets, Notify, Started, Close,
                CloseClient, Reap, Closed, serverVars, Untouched, HangUp, Write
  <1>3. ASSUME NEW t \in Threads, ThreadStep(t) PROVE UNCHANGED <<lifecycle, heard>>
    BY <1>3 DEF ThreadStep, Send, SendFails, GetsRejected, Gets, TimesOut, Untouched, Write
  <1>4. ASSUME NEW c \in Calls, CallStep(c) PROVE UNCHANGED <<lifecycle, heard>>
    BY <1>4 DEF CallStep, FieldMissing, NotStarted, TakeUp, Count, SendBlocks, GetsResult, Gets,
                Untouched, serverVars
  <1>5. ASSUME NEW s \in Sessions, ReaderStep(s) PROVE UNCHANGED <<lifecycle, heard>>
    BY <1>5 DEF ReaderStep, ReadLine, ReadEof, serverVars
  <1>6. CASE AgentSends \/ AgentReads \/ AgentHangsUp
    BY <1>6 DEF AgentSends, AgentReads, AgentHangsUp, Write, HangUp, Untouched
  <1>7. CASE UNCHANGED vars
    BY <1>7 DEF vars, serverVars
  <1>8. QED
    BY <1>1, <1>2, <1>3, <1>4, <1>5, <1>6, <1>7 DEF Next, Shut, Servers

\* No tool runs in a session that was not initialized and told so, whoever the
\* client is and whatever it sends.
THEOREM HandshakeFirstHolds == Spec => []HandshakeFirst
  <1>1. Init => HandshakeInv
    <2> SUFFICES ASSUME Init, NEW s \in Sessions
                 PROVE  lifecycle[s] = "new" /\ Proper(heard[s])
      BY DEF HandshakeInv
    <2>1. heard[s] = <<>> /\ lifecycle[s] = "new"
      BY DEF Init, ServerInit
    <2>2. QED
      BY <2>1, ItemsEmpty DEF Proper
  <1>2. TypeOK /\ HandshakeInv /\ [Next]_vars => HandshakeInv'
    <2>1. ASSUME UNCHANGED <<lifecycle, heard>>, HandshakeInv PROVE HandshakeInv'
      BY <2>1 DEF HandshakeInv
    <2>2. QED
      BY <2>1, HandshakeServer, HeardByServers DEF TypeOK
  <1>3. HandshakeInv => HandshakeFirst
    BY DEF HandshakeInv, Proper, HandshakeFirst
  <1>4. QED
    BY <1>1, <1>2, <1>3, TypeCorrect, PTL DEF Spec

-----------------------------------------------------------------------------
(* Children: a server that runs is being started or closed, or is one of   *)
(* the clients that are still to be closed.                                *)

Held == IF host.phase = "closing" THEN host.left ELSE Len(host.clients)

ChildrenKept ==
    peer = "host" => \A s \in Sessions :
        child[s] = "running" =>
            \/ task[Starter] # Idle /\ task[Starter].session = s
            \/ \E k \in 1..Held : host.clients[k] = s

\* No step but Spawn makes a server run, and none forgets one.
LEMMA ChildMoves ==
  ASSUME TypeOK, [Next]_vars, NEW s \in Sessions
  PROVE  /\ child[s] # "none" => child'[s] # "none"
         /\ child'[s] = "running" => child[s] = "running" \/ Spawn
  <1>1. ASSUME NEW u \in Sessions, ServerStep(u)
        PROVE  UNCHANGED child \/ child' = [child EXCEPT ![u] = "gone"]
    BY <1>1, HandledLine DEF ServerStep, Handles, Takes, ExitAtEof, DiesInTool, Dies, Gone, TypeOK
  <1>2. CASE \E u \in Sessions : ServerStep(u)
    BY <1>1, <1>2 DEF TypeOK, ServerTypeOK
  <1>3. CASE Kill
    BY <1>3 DEF Kill, Dies, Gone, TypeOK, ServerTypeOK
  <1>4. CASE Spawn
    BY <1>4 DEF Spawn, Fresh, TypeOK, ServerTypeOK
  <1>5. CASE UNCHANGED child
    BY <1>5
  <1>6. ASSUME Start \/ CannotSpawn \/ GetsInitialized \/ Notify \/ Started \/ Close
                 \/ CloseClient \/ Reap \/ Closed
        PROVE  UNCHANGED child
    BY <1>6 DEF Start, CannotSpawn, GetsInitialized, Gets, Notify, Started, Close,
                CloseClient, Reap, Closed, serverVars, Untouched, HangUp, Write
  <1>7. ASSUME NEW t \in Threads, ThreadStep(t) PROVE UNCHANGED child
    BY <1>7 DEF ThreadStep, Send, SendFails, GetsRejected, Gets, TimesOut, Untouched, Write
  <1>8. ASSUME NEW c \in Calls, CallStep(c) PROVE UNCHANGED child
    BY <1>8 DEF CallStep, FieldMissing, NotStarted, TakeUp, Count, SendBlocks, GetsResult, Gets,
                Untouched, serverVars
  <1>9. ASSUME NEW u \in Sessions, ReaderStep(u) PROVE UNCHANGED child
    BY <1>9 DEF ReaderStep, ReadLine, ReadEof, serverVars
  <1>10. ASSUME AgentSends \/ AgentReads \/ AgentHangsUp PROVE UNCHANGED child
    BY <1>10 DEF AgentSends, AgentReads, AgentHangsUp, Write, HangUp, Untouched
  <1>11. ASSUME UNCHANGED vars PROVE UNCHANGED child
    BY <1>11 DEF vars, serverVars
  <1>12. QED
    BY <1>2, <1>3, <1>4, <1>5, <1>6, <1>7, <1>8, <1>9, <1>10, <1>11 DEF Next, Open, Shut, Servers

\* The servers that run stay held as long as the host holds no fewer clients
\* and the starter does not drop a server that runs.
LEMMA ChildrenFrame ==
  ASSUME TypeOK, ChildrenKept, UNCHANGED peer,
         \A s \in Sessions : child'[s] = "running" => child[s] = "running",
         \A k \in 1..Held : k \in 1..Held' /\ host'.clients[k] = host.clients[k],
         task[Starter] # Idle =>
           \/ task'[Starter] # Idle /\ task'[Starter].session = task[Starter].session
           \/ child'[task[Starter].session] # "running"
           \/ \E k \in 1..Held' : host'.clients[k] = task[Starter].session
  PROVE  ChildrenKept'
  <1> SUFFICES ASSUME peer = "host", NEW s \in Sessions, child'[s] = "running"
               PROVE  \/ task'[Starter] # Idle /\ task'[Starter].session = s
                      \/ \E k \in 1..Held' : host'.clients[k] = s
    BY DEF ChildrenKept
  <1>1. CASE task[Starter] # Idle /\ task[Starter].session = s
    BY <1>1
  <1>2. CASE \E k \in 1..Held : host.clients[k] = s
    BY <1>2
  <1>3. QED
    BY <1>1, <1>2 DEF ChildrenKept

LEMMA ChildrenThread ==
  ASSUME TypeOK, StarterInv, ChildrenKept, NEW t \in Threads, ThreadStep(t),
         \A s \in Sessions : child'[s] = "running" => child[s] = "running"
  PROVE  ChildrenKept'
  <1>0. /\ Starter \notin Calls /\ Starter \in Threads /\ Len(host.clients) \in Nat
        /\ UNCHANGED peer
    BY HostAssumption, LenProperties DEF Threads, TypeOK, ThreadStep, Send, SendFails,
       GetsRejected, Gets, TimesOut, agents
  <1>1. CASE Send(t)
    <2> DEFINE j == [task[t] EXCEPT !.step = "waiting"]
    <2>1. /\ task[t].step \in {"sending", "writing"} /\ UNCHANGED host
          /\ \A u \in Threads : task'[u] = IF u = t THEN j ELSE task[u]
      BY <1>1 DEF Send, Doing, Proceed, TypeOK
    <2>2. j # Idle /\ j.session = task[t].session
      BY <2>1, TaskMoves DEF Idle
    <2> HIDE DEF j
    <2>3. QED
      BY <1>0, <2>1, <2>2, ChildrenFrame DEF Held
  <1>2. CASE SendFails(t) \/ TimesOut(t) \/ GetsRejected(t)
    <2>1. Fails(t) /\ task[t].step \in {"sending", "writing", "waiting", "notifying"}
      BY <1>2 DEF SendFails, TimesOut, GetsRejected, Gets, Doing
    <2>2. CASE t = Starter
      <3> DEFINE j == [step |-> "closing", session |-> task[t].session]
      <3>1. /\ \A u \in Threads : task'[u] = IF u = t THEN j ELSE task[u]
            /\ host' = [host EXCEPT !.phase = "closing", !.left = Len(host.clients)]
        BY <2>1, <2>2 DEF Fails, Proceed, TypeOK
      <3>2. j # Idle /\ j.session = task[t].session
        BY DEF Idle
      <3>3. Held = Len(host.clients) /\ Held' = Len(host.clients) /\ host'.clients = host.clients
        BY <2>1, <2>2, <3>1 DEF Held, StarterInv, TypeOK
      <3> HIDE DEF j
      <3>4. QED
        BY <1>0, <2>2, <3>1, <3>2, <3>3, ChildrenFrame
    <2>3. CASE t # Starter
      <3>1. UNCHANGED host /\ task'[Starter] = task[Starter]
        BY <1>0, <2>1, <2>3 DEF Fails, Proceed, TypeOK
      <3>2. QED
        BY <1>0, <3>1, ChildrenFrame DEF Held
    <2>4. QED
      BY <2>2, <2>3
  <1>3. QED
    BY <1>1, <1>2 DEF ThreadStep

LEMMA ChildrenOpen ==
  ASSUME TypeOK, StarterInv, ChildrenKept, Start \/ Open \/ Close,
         \A s \in Sessions : child'[s] = "running" => child[s] = "running" \/ Spawn
  PROVE  ChildrenKept'
  <1>0. /\ Starter \in Threads /\ Len(host.clients) \in Nat
        /\ UNCHANGED peer
    BY LenProperties DEF Threads, TypeOK, Start, Open, Spawn, CannotSpawn,
       GetsInitialized, Gets, Notify, Started, Close, agents
  <1>1. CASE Start \/ CannotSpawn \/ Started \/ Close
    <2>1. UNCHANGED <<task, child>>
      BY <1>1 DEF Start, CannotSpawn, Started, Close, serverVars
    <2>2. Held' = Held /\ host'.clients = host.clients
      BY <1>1 DEF Held, Start, CannotSpawn, Starting, Started, Close, TypeOK
    <2>3. QED
      BY <1>0, <2>1, <2>2, ChildrenFrame
  <1>2. CASE Spawn
    <2>1. PICK s \in Sessions :
            /\ child' = [child EXCEPT ![s] = "running"]
            /\ Proceed(Starter, [step |-> "sending", session |-> s, id |-> nextId[s]])
      BY <1>2 DEF Spawn, Fresh
    <2>2. task'[Starter] # Idle /\ task'[Starter].session = s
      BY <1>0, <2>1 DEF Proceed, TypeOK, Idle
    <2>3. task[Starter] = Idle /\ UNCHANGED host
      BY <1>2 DEF Spawn, Starting
    <2>4. \A u \in Sessions : u # s => child'[u] = child[u]
      BY <2>1 DEF TypeOK, ServerTypeOK
    <2>5. QED
      BY <1>0, <2>2, <2>3, <2>4 DEF ChildrenKept, Held
  <1>3. CASE GetsInitialized
    <2>1. /\ UNCHANGED <<host, child>> /\ task'[Starter] # Idle
          /\ task'[Starter].session = task[Starter].session
      BY <1>0, <1>3 DEF GetsInitialized, Gets, Untouched, Proceed, TypeOK, Idle
    <2>2. QED
      BY <1>0, <2>1, ChildrenFrame DEF Held
  <1>4. CASE Notify
    <2> DEFINE s == task[Starter].session
    <2>1. s \in Sessions /\ host.phase = "starting" /\ UNCHANGED child
      BY <1>0, <1>4, TaskShape DEF Notify, Doing, StarterInv, Write
    <2>2. host'.phase = host.phase /\ host'.clients = Append(host.clients, s)
      BY <1>4 DEF Notify, TypeOK
    <2>3. /\ Len(host'.clients) = Len(host.clients) + 1
          /\ \A k \in 1..Len(host.clients) : host'.clients[k] = host.clients[k]
          /\ host'.clients[Len(host.clients) + 1] = s
      BY <2>1, <2>2, AppendProperties DEF TypeOK
    <2>4. Held = Len(host.clients) /\ Held' = Len(host.clients) + 1
      BY <2>1, <2>2, <2>3 DEF Held
    <2> HIDE DEF s
    <2>5. /\ \A k \in 1..Held : k \in 1..Held' /\ host'.clients[k] = host.clients[k]
          /\ \E k \in 1..Held' : host'.clients[k] = s
      BY <1>0, <2>3, <2>4
    <2>6. QED
      BY <1>0, <2>1, <2>5, ChildrenFrame DEF s
  <1>5. QED
    BY <1>1, <1>2, <1>3, <1>4 DEF Open

LEMMA ChildrenShut ==
  ASSUME TypeOK, StarterInv, ChildrenKept, Shut,
         \A s \in Sessions : child'[s] = "running" => child[s] = "running"
  PROVE  ChildrenKept'
  <1>0. /\ Starter \in Threads /\ Len(host.clients) \in Nat /\ UNCHANGED peer
    BY LenProperties DEF Threads, TypeOK, Shut, CloseClient, Kill, Reap, Closed, agents
  <1>1. CASE CloseClient
    <2> DEFINE last == host.clients[host.left]
    <2>1. /\ host.phase = "closing" /\ task[Starter] = Idle /\ host.left \in Nat
          /\ host'.phase = "closing" /\ host'.left = host.left - 1
          /\ host'.clients = host.clients
      BY <1>1 DEF CloseClient, TypeOK
    <2>2. task'[Starter] # Idle /\ task'[Starter].session = last
      BY <1>0, <1>1 DEF CloseClient, Proceed, TypeOK, Idle
    <2>3. Held = host.left /\ Held' = host.left - 1
      BY <2>1 DEF Held
    <2>4. ASSUME NEW k \in 1..Held, host.clients[k] # last
          PROVE  k \in 1..Held'
      BY <2>1, <2>3, <2>4
    <2> HIDE DEF last
    <2>5. QED
      BY <1>0, <2>1, <2>2, <2>4 DEF ChildrenKept
  <1>2. CASE Kill
    BY <1>0, <1>2, ChildrenFrame DEF Kill, Held
  <1>3. CASE Reap
    <2>1. child'[task[Starter].session] # "running" /\ UNCHANGED host
      BY <1>3 DEF Reap
    <2>2. QED
      BY <1>0, <2>1, ChildrenFrame DEF Held
  <1>4. CASE Closed
    <2>1. Held = 0 /\ task[Starter] = Idle
      BY <1>4 DEF Closed, Held
    <2>2. peer = "host" => \A s \in Sessions : child[s] # "running"
      BY <2>1 DEF ChildrenKept
    <2>3. QED
      BY <1>0, <2>2 DEF ChildrenKept
  <1>5. QED
    BY <1>1, <1>2, <1>3, <1>4 DEF Shut

LEMMA ChildrenStep ==
  ASSUME TypeOK, StarterInv, ChildrenKept, [Next]_vars
  PROVE  ChildrenKept'
  <1>0. /\ Starter \notin Calls /\ Starter \in Threads
        /\ \A s \in Sessions : child'[s] = "running" => child[s] = "running" \/ Spawn
    BY HostAssumption, ChildMoves DEF Threads
  <1>1. CASE Start \/ Open \/ Close
    BY <1>0, <1>1, ChildrenOpen
  <1>2. CASE Spawn
    BY <1>0, <1>2, ChildrenOpen DEF Open
  <1>3. ASSUME ~Spawn, UNCHANGED <<host, peer>>, task'[Starter] = task[Starter]
        PROVE  ChildrenKept'
    BY <1>0, <1>3, ChildrenFrame DEF Held
  <1>4. ASSUME ~Spawn, NEW c \in Calls, CallStep(c) PROVE ChildrenKept'
    <2>1. UNCHANGED <<host, peer>> /\ task'[Starter] = task[Starter]
      BY <1>0, <1>4 DEF CallStep, FieldMissing, NotStarted, TakeUp, Count, SendBlocks, GetsResult,
                        Gets, Proceed, agents, TypeOK
    <2>2. QED
      BY <1>3, <1>4, <2>1
  <1>5. CASE /\ ~Spawn
             /\ \/ \E s \in Sessions : ReaderStep(s) \/ Servers(s)
                \/ AgentSends \/ AgentReads \/ AgentHangsUp
                \/ UNCHANGED vars
    BY <1>3, <1>5 DEF ReaderStep, ReadLine, ReadEof, Servers, AgentSends, AgentReads,
                      AgentHangsUp, vars, agents
  <1>6. QED
    BY <1>0, <1>1, <1>2, <1>4, <1>5, ChildrenThread, ChildrenShut DEF Next

\* A start that failed and a close that ended leave no server running: with
\* the host stopped there is no client left, and the starter closes nothing.
THEOREM NoOrphanChildHolds == Spec => []NoOrphanChild
  <1>1. Init => ChildrenKept
    BY DEF Init, ServerInit, ChildrenKept
  <1>2. TypeOK /\ StarterInv /\ ChildrenKept /\ [Next]_vars => ChildrenKept'
    BY ChildrenStep
  <1>3. TypeOK /\ StarterInv /\ ChildrenKept => NoOrphanChild
    <2> SUFFICES ASSUME TypeOK, StarterInv, ChildrenKept, peer = "host", host.phase = "stopped",
                        NEW s \in Sessions, child[s] = "running"
                 PROVE  FALSE
      BY DEF NoOrphanChild
    <2>1. task[Starter] = Idle
      BY TaskShape DEF StarterInv, Threads
    <2>2. Held = 0
      BY ItemsEmpty DEF StarterInv, Held
    <2>3. QED
      BY <2>1, <2>2 DEF ChildrenKept
  <1>4. QED
    BY <1>1, <1>2, <1>3, TypeCorrect, PTL DEF Spec

-----------------------------------------------------------------------------
(* Requests: no two threads that use the same client have the same id, so  *)
(* long as an id is taken and counted in one go.                           *)

Requesting(t) == task[t].step \in {"sending", "writing", "waiting"}

IdInv ==
    /\ \A s \in Sessions : nextId[s] >= 1
    /\ \A t \in Threads : Doing(t, "counting") => task[t].id = nextId[task[t].session]
    /\ \A t, u \in Threads : Doing(t, "counting") /\ Doing(u, "counting") => t = u
    /\ \A t \in Threads : Requesting(t) => task[t].id \in 1..(nextId[task[t].session] - 1)
    /\ \A t, u \in Threads :
         Requesting(t) /\ Requesting(u) /\ task[t].session = task[u].session
           /\ task[t].id = task[u].id => t = u

\* The servers that threads use, and those of the host, have been started.
UsedInv ==
    /\ \A t \in Threads : task[t] # Idle => child[task[t].session] # "none"
    /\ \A k \in 1..Len(host.clients) : child[host.clients[k]] # "none"

\* A thread goes on without a request of its own.
Leaves(t) ==
    /\ UNCHANGED nextId
    /\ \E j \in Tasks :
         /\ Proceed(t, j)
         /\ j.step \notin {"counting", "sending", "writing", "waiting"}
         /\ j = Idle \/ (task[t] # Idle /\ j.session = task[t].session)
              \/ \E k \in 1..Len(host.clients) : j.session = host.clients[k]

\* A thread goes on with its request.
Sends(t) ==
    /\ task[t].step \in {"sending", "writing"}
    /\ \E step \in {"writing", "waiting"} : Proceed(t, [task[t] EXCEPT !.step = step])
    /\ UNCHANGED nextId

\* What a step does to the requests.
LEMMA FailsLeaves ==
  ASSUME TypeOK, NEW t \in Threads, Fails(t),
         task[t].step \in {"sending", "writing", "waiting", "notifying"}, UNCHANGED nextId
  PROVE  Leaves(t)
  <1>1. task[t].session \in Sessions /\ task[t] # Idle
    BY TaskShape
  <1>2. CASE t = Starter
    <2> DEFINE j == [step |-> "closing", session |-> task[t].session]
    <2>1. j \in Tasks /\ j.step = "closing" /\ j.session = task[t].session /\ Proceed(t, j)
      BY <1>1, <1>2 DEF Tasks, Fails
    <2> HIDE DEF j
    <2>2. QED
      BY <1>1, <2>1 DEF Leaves
  <1>3. CASE t # Starter
    BY <1>3 DEF Fails, Leaves, Idle, Tasks
  <1>4. QED
    BY <1>2, <1>3

LEMMA ThreadMoves ==
  ASSUME TypeOK, StarterInv, [Next]_vars
  PROVE  \/ UNCHANGED <<task, nextId>>
         \/ \E t \in Threads : Leaves(t) \/ Sends(t)
         \/ Spawn
         \/ \E c \in Calls : TakeUp(c) \/ Count(c)
  <1>0. /\ Starter \in Threads /\ Calls \subseteq Threads
        /\ Idle \in Tasks /\ Idle.step \notin {"counting", "sending", "writing", "waiting"}
        /\ Len(host.clients) \in Nat
    BY LenProperties DEF Threads, Tasks, Idle, TypeOK
  <1>1. ASSUME NEW t \in Threads, UNCHANGED nextId, Proceed(t, Idle) PROVE Leaves(t)
    BY <1>0, <1>1 DEF Leaves
  <1>2. ASSUME NEW t \in Threads, ThreadStep(t) PROVE Leaves(t) \/ Sends(t)
    <2>1. CASE Send(t)
      BY <2>1 DEF Send, Sends, Doing, clientVars
    <2>2. CASE SendFails(t) \/ GetsRejected(t) \/ TimesOut(t)
      BY <2>2, FailsLeaves DEF SendFails, GetsRejected, Gets, TimesOut, Doing, clientVars
    <2>3. QED
      BY <1>2, <2>1, <2>2 DEF ThreadStep
  <1>3. ASSUME NEW c \in Calls, CallStep(c)
        PROVE  UNCHANGED <<task, nextId>> \/ Leaves(c) \/ Sends(c) \/ TakeUp(c) \/ Count(c)
    <2>1. CASE GetsResult(c)
      BY <1>0, <1>1, <2>1 DEF GetsResult, Gets
    <2>2. CASE FieldMissing(c) \/ NotStarted(c)
      BY <2>2 DEF FieldMissing, NotStarted, clientVars
    <2>3. CASE SendBlocks(c)
      BY <2>3 DEF SendBlocks, Sends, Doing, clientVars
    <2>4. QED
      BY <1>3, <2>1, <2>2, <2>3 DEF CallStep
  <1>4. CASE GetsInitialized
    <2> DEFINE j == [step |-> "notifying", session |-> task[Starter].session]
    <2>1. Doing(Starter, "waiting") /\ Proceed(Starter, j) /\ UNCHANGED nextId
      BY <1>4 DEF GetsInitialized, Gets
    <2>2. task[Starter].session \in Sessions /\ task[Starter] # Idle
      BY <1>0, <2>1, TaskShape DEF Doing
    <2>3. j \in Tasks /\ j.step = "notifying" /\ j.session = task[Starter].session
      BY <2>2 DEF Tasks
    <2> HIDE DEF j
    <2>4. QED
      BY <1>0, <2>1, <2>2, <2>3 DEF Leaves
  <1>5. CASE CloseClient
    <2> DEFINE j == [step |-> "closing", session |-> host.clients[host.left]]
    <2>1. Proceed(Starter, j) /\ UNCHANGED nextId
      BY <1>5 DEF CloseClient, clientVars
    <2>2. host.left \in 1..Len(host.clients)
      BY <1>0, <1>5 DEF CloseClient, StarterInv, TypeOK
    <2>3. host.clients[host.left] \in Sessions
      BY <2>2, ElementOfSeq DEF TypeOK
    <2>4. j \in Tasks /\ j.step = "closing" /\ j.session = host.clients[host.left]
      BY <2>3 DEF Tasks
    <2> HIDE DEF j
    <2>5. QED
      BY <1>0, <2>1, <2>2, <2>4 DEF Leaves
  <1>6. CASE Notify \/ Reap
    <2>1. Proceed(Starter, Idle) /\ UNCHANGED nextId
      BY <1>6 DEF Notify, Reap, clientVars
    <2>2. QED
      BY <1>0, <1>1, <2>1
  <1>7. CASE Start \/ CannotSpawn \/ Started \/ Close \/ Kill \/ Closed
    BY <1>7 DEF Start, CannotSpawn, Started, Close, Kill, Closed, clientVars
  <1>8. CASE \/ \E s \in Sessions : ReaderStep(s) \/ Servers(s)
             \/ AgentSends \/ AgentReads \/ AgentHangsUp
             \/ UNCHANGED vars
    BY <1>8 DEF ReaderStep, ReadLine, ReadEof, Servers, AgentSends, AgentReads, AgentHangsUp,
                vars, clientVars
  <1>9. QED
    BY <1>0, <1>2, <1>3, <1>4, <1>5, <1>6, <1>7, <1>8 DEF Next, Open, Shut

LEMMA UsedStep ==
  ASSUME TypeOK, StarterInv, UsedInv, [Next]_vars
  PROVE  UsedInv'
  <1>0. /\ Starter \in Threads /\ Calls \subseteq Threads /\ Len(host.clients) \in Nat
        /\ \A s \in Sessions : child[s] # "none" => child'[s] # "none"
        /\ \A t \in Threads : task[t] # Idle => task[t].session \in Sessions
        /\ \A k \in 1..Len(host.clients) : host.clients[k] \in Sessions
    BY LenProperties, ChildMoves, TaskShape, ElementOfSeq DEF Threads, TypeOK
  <1>1. \A k \in 1..Len(host'.clients) : child'[host'.clients[k]] # "none"
    <2>1. CASE host'.clients = host.clients
      BY <1>0, <2>1 DEF UsedInv
    <2>2. CASE Notify
      <3> DEFINE s == task[Starter].session
      <3>1. s \in Sessions /\ task[Starter] # Idle
        BY <1>0, <2>2, TaskShape DEF Notify, Doing
      <3>2. host'.clients = Append(host.clients, s)
        BY <2>2 DEF Notify, TypeOK
      <3> HIDE DEF s
      <3>3. /\ Len(host'.clients) = Len(host.clients) + 1
            /\ \A k \in 1..Len(host.clients) : host'.clients[k] = host.clients[k]
            /\ host'.clients[Len(host.clients) + 1] = s
        BY <3>1, <3>2, AppendProperties DEF TypeOK
      <3>4. \A k \in 1..Len(host'.clients) : k \in 1..Len(host.clients) \/ k = Len(host.clients) + 1
        BY <1>0, <3>3
      <3>5. child[s] # "none"
        BY <1>0, <3>1 DEF UsedInv, s
      <3>6. QED
        BY <1>0, <3>1, <3>3, <3>4, <3>5 DEF UsedInv
    <2>3. CASE Closed
      BY <2>3, ItemsEmpty DEF Closed, Stopped
    <2>4. Notify \/ Closed \/ host'.clients = host.clients
      <3>1. ASSUME NEW t \in Threads, ThreadStep(t) PROVE host'.clients = host.clients
        BY <3>1 DEF ThreadStep, Send, SendFails, GetsRejected, TimesOut, Fails, TypeOK
      <3>2. ASSUME NEW c \in Calls, CallStep(c) PROVE host'.clients = host.clients
        BY <3>2 DEF CallStep, FieldMissing, NotStarted, TakeUp, Count, SendBlocks, GetsResult
      <3>3. CASE Start \/ Open \/ Close \/ Shut
        BY <3>3 DEF Start, Open, Spawn, CannotSpawn, GetsInitialized, Started, Close, Shut,
                    CloseClient, Kill, Reap, TypeOK
      <3>4. CASE \/ \E s \in Sessions : ReaderStep(s) \/ Servers(s)
                 \/ AgentSends \/ AgentReads \/ AgentHangsUp
                 \/ UNCHANGED vars
        BY <3>4 DEF ReaderStep, ReadLine, ReadEof, Servers, AgentSends, AgentReads, AgentHangsUp, vars
      <3>5. QED
        BY <3>1, <3>2, <3>3, <3>4 DEF Next
    <2>5. QED
      BY <2>1, <2>2, <2>3, <2>4
  <1>2. ASSUME NEW t \in Threads, NEW j, Proceed(t, j),
               j = Idle \/ (j.session \in Sessions /\ child'[j.session] # "none")
        PROVE  \A u \in Threads : task'[u] # Idle => child'[task'[u].session] # "none"
    BY <1>0, <1>2 DEF UsedInv, Proceed, TypeOK
  <1>3. \A t \in Threads : task'[t] # Idle => child'[task'[t].session] # "none"
    <2>1. CASE UNCHANGED task
      BY <1>0, <2>1 DEF UsedInv
    <2>2. ASSUME NEW t \in Threads, Leaves(t)
          PROVE  \A u \in Threads : task'[u] # Idle => child'[task'[u].session] # "none"
      <3>1. PICK j \in Tasks : /\ Proceed(t, j)
                               /\ j = Idle \/ (task[t] # Idle /\ j.session = task[t].session)
                                    \/ \E k \in 1..Len(host.clients) : j.session = host.clients[k]
        BY <2>2 DEF Leaves
      <3>2. j = Idle \/ (j.session \in Sessions /\ child'[j.session] # "none")
        BY <1>0, <3>1 DEF UsedInv
      <3>3. QED
        BY <1>2, <3>1, <3>2
    <2>3. ASSUME NEW t \in Threads, task[t].step \in {"counting", "sending", "writing"},
                 NEW to \in {"sending", "writing", "waiting"}, Proceed(t, [task[t] EXCEPT !.step = to])
          PROVE  \A u \in Threads : task'[u] # Idle => child'[task'[u].session] # "none"
      <3> DEFINE j == [task[t] EXCEPT !.step = to]
      <3>1. j.session = task[t].session /\ task[t] # Idle
        BY <2>3, TaskMoves DEF Idle
      <3>2. j.session \in Sessions /\ child'[j.session] # "none"
        BY <1>0, <3>1 DEF UsedInv
      <3> HIDE DEF j
      <3>3. QED
        BY <1>2, <2>3, <3>2 DEF j
    <2>4. CASE Spawn
      <3>1. PICK s \in Sessions :
              /\ child' = [child EXCEPT ![s] = "running"]
              /\ Proceed(Starter, [step |-> "sending", session |-> s, id |-> nextId[s]])
        BY <2>4 DEF Spawn, Fresh
      <3> DEFINE j == [step |-> "sending", session |-> s, id |-> nextId[s]]
      <3>2. j.session = s /\ child'[s] = "running"
        BY <3>1 DEF TypeOK, ServerTypeOK
      <3> HIDE DEF j
      <3>3. QED
        BY <1>0, <1>2, <3>1, <3>2 DEF j
    <2>5. ASSUME NEW c \in Calls, TakeUp(c)
          PROVE  \A u \in Threads : task'[u] # Idle => child'[task'[u].session] # "none"
      <3> DEFINE s == host.clients[config.server[c]]
                 j == [step |-> "counting", session |-> s, id |-> nextId[s]]
      <3>1. config.server[c] \in 1..Len(host.clients) /\ Proceed(c, j)
        BY <2>5, HostAssumption DEF TakeUp, StarterInv, TypeOK
      <3>2. j.session = s /\ s \in Sessions /\ child'[s] # "none"
        BY <1>0, <3>1 DEF UsedInv
      <3> HIDE DEF j
      <3>3. QED
        BY <1>0, <1>2, <3>1, <3>2
    <2>6. QED
      BY <1>0, <2>1, <2>2, <2>3, <2>4, <2>5, ThreadMoves DEF Sends, Count, Doing
  <1>4. QED
    BY <1>1, <1>3 DEF UsedInv

\* A step of one thread: the shapes of ThreadMoves, point by point.
LEMMA IdMoves ==
  ASSUME TypeOK, IdInv, NEW t \in Threads, NEW j \in Tasks, Proceed(t, j), NEW s \in Sessions,
         \/ UNCHANGED nextId
         \/ /\ nextId' = [nextId EXCEPT ![s] = @ + 1]
            /\ j.step = "sending" /\ j.session = s /\ j.id = nextId[s]
            /\ \A u \in Threads : u # t => ~(Doing(u, "counting") /\ task[u].session = s),
         j.step = "counting" =>
           /\ j.id = nextId[j.session] /\ UNCHANGED nextId
           /\ \A u \in Threads : u # t => ~Doing(u, "counting"),
         j.step \in {"sending", "writing", "waiting"} =>
           \/ Requesting(t) /\ j.session = task[t].session /\ j.id = task[t].id
           \/ nextId' # nextId
  PROVE  IdInv'
  <1>0. /\ \A u \in Threads : task'[u] = IF u = t THEN j ELSE task[u]
        /\ nextId \in [Sessions -> Nat]
        /\ \A u \in Threads : task[u] \in Tasks
        /\ \A u \in Threads :
             task[u].step \in {"counting", "sending", "writing", "waiting"} =>
               task[u].session \in Sessions /\ task[u].id \in Nat
        /\ nextId[s] \in Nat
    BY TaskShape DEF Proceed, TypeOK
  <1>1. CASE UNCHANGED nextId
    BY <1>0, <1>1 DEF IdInv, Requesting, Doing
  <1>2. CASE nextId' # nextId
    <2>1. \A u \in Sessions : nextId'[u] = IF u = s THEN nextId[s] + 1 ELSE nextId[u]
      BY <1>0, <1>2
    <2>2. \A u \in Sessions : nextId'[u] >= 1 /\ nextId'[u] >= nextId[u] /\ nextId'[u] \in Nat
      BY <1>0, <2>1 DEF IdInv
    <2>3. /\ j.step = "sending" /\ j.session = s /\ j.id = nextId[s]
          /\ \A u \in Threads : u # t => ~(Doing(u, "counting") /\ task[u].session = s)
      BY <1>2
    <2>4. \A u \in Threads : Doing(u, "counting")' => u # t /\ Doing(u, "counting")
      BY <1>0, <2>3 DEF Doing
    <2>5. /\ \A u \in Threads : Doing(u, "counting")' => task'[u].id = nextId'[task'[u].session]
          /\ \A u, v \in Threads : Doing(u, "counting")' /\ Doing(v, "counting")' => u = v
      <3>1. ASSUME NEW u \in Threads, Doing(u, "counting")'
            PROVE  task'[u].id = nextId'[task'[u].session]
        <4>1. u # t /\ Doing(u, "counting") /\ task'[u] = task[u] /\ task[u].session \in Sessions
          BY <1>0, <2>4, <3>1 DEF Doing
        <4>2. task[u].session # s
          BY <2>3, <4>1
        <4>3. QED
          BY <2>1, <4>1, <4>2 DEF IdInv
      <3>2. QED
        BY <2>4, <3>1 DEF IdInv
    <2>6. ASSUME NEW u \in Threads, u # t, Requesting(u)'
          PROVE  /\ Requesting(u) /\ task'[u] = task[u] /\ task[u].session \in Sessions
                 /\ task[u].id \in 1..(nextId[task[u].session] - 1)
      BY <1>0, <2>6 DEF IdInv, Requesting
    <2>7. \A u \in Threads : Requesting(u)' => task'[u].id \in 1..(nextId'[task'[u].session] - 1)
      <3>1. ASSUME NEW u \in Threads, Requesting(u)'
            PROVE  task'[u].id \in 1..(nextId'[task'[u].session] - 1)
        <4>1. CASE u = t
          BY <1>0, <2>1, <2>3, <4>1 DEF IdInv
        <4>2. CASE u # t
          BY <1>0, <2>2, <2>6, <3>1, <4>2
        <4>3. QED
          BY <4>1, <4>2
      <3>2. QED
        BY <3>1
    <2>8. ASSUME NEW u \in Threads, u # t, Requesting(u)'
          PROVE  ~(task'[u].session = s /\ task'[u].id = nextId[s])
      BY <1>0, <2>6, <2>8
    <2>9. ASSUME NEW u \in Threads, NEW v \in Threads, Requesting(u)', Requesting(v)',
                 task'[u].session = task'[v].session, task'[u].id = task'[v].id
          PROVE  u = v
      BY <1>0, <2>3, <2>6, <2>8, <2>9 DEF IdInv
    <2>10. QED
      BY <2>2, <2>5, <2>7, <2>9 DEF IdInv
  <1>3. QED
    BY <1>1, <1>2

\* A thread takes the next id of a session and counts it, in one go.
NewRequest(t, j, s) ==
    /\ j \in Tasks /\ j.step = "sending" /\ j.session = s /\ j.id = nextId[s]
    /\ Proceed(t, j)
    /\ nextId' = [nextId EXCEPT ![s] = @ + 1]
    /\ \A u \in Threads : u # t => ~(Doing(u, "counting") /\ task[u].session = s)

\* Where ids are taken and counted in one go, every new request has an id of
\* its own, no smaller than any that was taken before.
LEMMA IdStep ==
  ASSUME TypeOK, StarterInv, UsedInv, IdInv, AtomicIds, [Next]_vars
  PROVE  /\ IdInv'
         /\ \A s \in Sessions : nextId'[s] >= nextId[s]
         /\ \A t \in Threads : Requesting(t)' =>
              \/ Requesting(t) /\ task'[t].session = task[t].session /\ task'[t].id = task[t].id
              \/ task'[t].id >= nextId[task'[t].session]
  <1> DEFINE Grows == /\ \A s \in Sessions : nextId'[s] >= nextId[s]
                      /\ \A t \in Threads : Requesting(t)' =>
                           \/ /\ Requesting(t) /\ task'[t].session = task[t].session
                              /\ task'[t].id = task[t].id
                           \/ task'[t].id >= nextId[task'[t].session]
  <1>0. /\ Starter \in Threads /\ Calls \subseteq Threads /\ Starter \notin Calls
        /\ nextId \in [Sessions -> Nat] /\ task \in [Threads -> Tasks]
        /\ 1 \in Sessions
        /\ \A s \in Sessions : nextId[s] \in Nat
    BY HostAssumption DEF Threads, TypeOK
  <1>1. CASE UNCHANGED <<task, nextId>>
    BY <1>0, <1>1 DEF IdInv, Requesting, Doing
  <1>2. ASSUME NEW t \in Threads, Leaves(t) PROVE IdInv' /\ Grows
    <2>1. PICK j \in Tasks : Proceed(t, j) /\ j.step \notin {"counting", "sending", "writing", "waiting"}
      BY <1>2 DEF Leaves
    <2>2. UNCHANGED nextId
      BY <1>2 DEF Leaves
    <2>3. IdInv'
      BY <1>0, <2>1, <2>2, IdMoves
    <2>4. \A u \in Threads : task'[u] = IF u = t THEN j ELSE task[u]
      BY <1>0, <2>1 DEF Proceed
    <2>5. QED
      BY <1>0, <2>1, <2>2, <2>3, <2>4 DEF Requesting
  <1>3. ASSUME NEW t \in Threads, Sends(t) PROVE IdInv' /\ Grows
    <2>0. PICK step \in {"writing", "waiting"} : Proceed(t, [task[t] EXCEPT !.step = step])
      BY <1>3 DEF Sends
    <2> DEFINE j == [task[t] EXCEPT !.step = step]
    <2>1. /\ j \in Tasks /\ j.step = step /\ j.session = task[t].session /\ j.id = task[t].id
          /\ Requesting(t)
      BY <1>3, TaskMoves DEF Sends, Requesting
    <2>2. UNCHANGED nextId /\ Proceed(t, j)
      BY <1>3, <2>0 DEF Sends
    <2> HIDE DEF j
    <2>3. IdInv'
      BY <1>0, <2>1, <2>2, IdMoves
    <2>4. \A u \in Threads : task'[u] = IF u = t THEN j ELSE task[u]
      BY <1>0, <2>2 DEF Proceed
    <2>5. QED
      BY <1>0, <2>1, <2>2, <2>3, <2>4 DEF Requesting
  <1>4. ASSUME NEW t \in Threads, NEW j, NEW s \in Sessions, NewRequest(t, j, s)
        PROVE  IdInv' /\ Grows
    <2>0. /\ j \in Tasks /\ j.step = "sending" /\ j.session = s /\ j.id = nextId[s]
          /\ Proceed(t, j)
          /\ nextId' = [nextId EXCEPT ![s] = @ + 1]
          /\ \A u \in Threads : u # t => ~(Doing(u, "counting") /\ task[u].session = s)
      BY <1>4 DEF NewRequest
    <2>1. nextId' # nextId
      BY <1>0, <2>0
    <2>2. IdInv'
      <3>1. /\ j.step # "counting"
            /\ j.step \in {"sending", "writing", "waiting"} =>
                 \/ Requesting(t) /\ j.session = task[t].session /\ j.id = task[t].id
                 \/ nextId' # nextId
        BY <2>0, <2>1
      <3> HIDE DEF Grows
      <3>2. QED
        BY <2>0, <3>1, IdMoves
    <2>3. /\ \A u \in Threads : task'[u] = IF u = t THEN j ELSE task[u]
          /\ \A u \in Sessions : nextId'[u] >= nextId[u]
      BY <1>0, <2>0 DEF Proceed
    <2>4. QED
      BY <1>0, <2>0, <2>2, <2>3 DEF Requesting
  <1>5. CASE Spawn
    <2>1. PICK s \in Sessions :
            /\ child[s] = "none"
            /\ Proceed(Starter, [step |-> "sending", session |-> s, id |-> nextId[s]])
            /\ nextId' = [nextId EXCEPT ![s] = @ + 1]
      BY <1>5 DEF Spawn, Fresh
    <2> DEFINE j == [step |-> "sending", session |-> s, id |-> nextId[s]]
    <2>2. j \in Tasks /\ j.step = "sending" /\ j.session = s /\ j.id = nextId[s] /\ Proceed(Starter, j)
      BY <1>0, <2>1 DEF Tasks
    <2>3. \A u \in Threads : u # Starter => ~(Doing(u, "counting") /\ task[u].session = s)
      BY <2>1 DEF UsedInv, Doing, Idle
    <2> HIDE DEF j, Grows
    <2>4. Starter \in Threads /\ s \in Sessions /\ nextId' = [nextId EXCEPT ![s] = @ + 1]
      BY <1>0, <2>1
    <2>5. NewRequest(Starter, j, s)
      BY <2>2, <2>3, <2>4 DEF NewRequest
    <2>6. IdInv' /\ Grows
      BY <1>4, <2>4, <2>5
    <2>7. QED
      BY <2>6 DEF Grows
  <1>6. ASSUME NEW c \in Calls, TakeUp(c) PROVE IdInv' /\ Grows
    <2> DEFINE s == host.clients[config.server[c]]
               j == [step |-> "counting", session |-> s, id |-> nextId[s]]
    <2>1. config.server[c] \in 1..Len(host.clients) /\ Proceed(c, j) /\ UNCHANGED nextId
      BY <1>6, HostAssumption DEF TakeUp, StarterInv, TypeOK, clientVars
    <2>2. s \in Sessions
      BY <2>1, ElementOfSeq DEF TypeOK
    <2>3. j \in Tasks /\ j.step = "counting" /\ j.session = s /\ j.id = nextId[s]
      BY <1>0, <2>2 DEF Tasks
    <2>4. \A u \in Threads : ~Doing(u, "counting")
      BY <1>6 DEF TakeUp, Threads, StarterInv, Doing
    <2> HIDE DEF j
    <2>5. IdInv'
      BY <1>0, <2>1, <2>2, <2>3, <2>4, IdMoves
    <2>6. \A u \in Threads : task'[u] = IF u = c THEN j ELSE task[u]
      BY <1>0, <2>1 DEF Proceed
    <2>7. QED
      BY <1>0, <2>1, <2>3, <2>5, <2>6 DEF Requesting
  <1>7. ASSUME NEW c \in Calls, Count(c) PROVE IdInv' /\ Grows
    <2> DEFINE s == task[c].session
               j == [task[c] EXCEPT !.step = "sending"]
    <2>1. /\ s \in Sessions /\ j \in Tasks /\ j.step = "sending" /\ j.session = s
          /\ j.id = task[c].id /\ Proceed(c, j) /\ Doing(c, "counting")
      BY <1>0, <1>7, TaskShape, TaskMoves DEF Count, Doing
    <2>2. task[c].id = nextId[s]
      BY <1>0, <2>1 DEF IdInv
    <2>3. PICK n \in task[c].id..nextId[s] : nextId' = [nextId EXCEPT ![s] = n + 1]
      BY <1>7 DEF Count
    <2>4. nextId' = [nextId EXCEPT ![s] = @ + 1]
      <3>1. n = nextId[s]
        BY <1>0, <2>1, <2>2, <2>3
      <3>2. QED
        BY <2>3, <3>1
    <2>5. c \in Threads /\ \A u \in Threads : u # c => ~(Doing(u, "counting") /\ task[u].session = s)
      BY <1>0, <2>1 DEF IdInv
    <2>6. j.id = nextId[s]
      BY <2>1, <2>2
    <2> HIDE DEF j, s, Grows
    <2>7. NewRequest(c, j, s)
      BY <2>1, <2>4, <2>5, <2>6 DEF NewRequest
    <2>8. QED
      BY <1>4, <2>1, <2>5, <2>7
  <1>8. QED
    BY <1>1, <1>2, <1>3, <1>5, <1>6, <1>7, ThreadMoves

-----------------------------------------------------------------------------
(* What a step does to the pipes and the queue of a client.                *)

LEMMA StdinMoves ==
  ASSUME TypeOK, peer = "host", [Next]_vars, NEW s \in Sessions
  PROVE  \/ stdin'[s] = stdin[s]
         \/ stdin'[s] = <<>>
         \/ HandleLine(s)
         \/ Notify /\ stdin'[s] = Append(stdin[s], InitializedLine)
         \/ \E t \in Threads :
              /\ Send(t) /\ task[t].session = s
              /\ stdin'[s] = Append(stdin[s], IF t = Starter
                                                THEN Request(task[t].id, "initialize", NoCall)
                                                ELSE Request(task[t].id, "tools/call", t))
  <1>0. stdin \in [Sessions -> Seq(Lines)] /\ Starter \in Threads
    BY DEF TypeOK, ServerTypeOK, Threads
  <1>1. ASSUME NEW u \in Sessions, ServerStep(u)
        PROVE  stdin'[s] = stdin[s] \/ stdin'[s] = <<>> \/ HandleLine(s)
    <2>1. CASE HandleLine(u)
      <3>1. Handles(u)
        BY <2>1, HandledLine DEF TypeOK
      <3>2. u # s => stdin'[s] = stdin[s]
        BY <1>0, <3>1 DEF Handles, Takes
      <3>3. QED
        BY <2>1, <3>2
    <2>2. CASE ExitAtEof(u) \/ DiesInTool(u) \/ Dies(u)
      BY <1>0, <2>2 DEF ExitAtEof, DiesInTool, Dies, Gone
    <2>3. QED
      BY <1>1, <2>1, <2>2 DEF ServerStep
  <1>2. ASSUME NEW u \in Sessions, NEW line \in Lines, Write(u, line)
        PROVE  stdin'[s] = IF u = s THEN Append(stdin[s], line) ELSE stdin[s]
    BY <1>0, <1>2 DEF Write
  <1>3. CASE Kill
    BY <1>0, <1>3 DEF Kill, Dies, Gone
  <1>4. CASE Notify
    <2>1. task[Starter].session \in Sessions /\ Write(task[Starter].session, InitializedLine)
      BY <1>0, <1>4, TaskShape DEF Notify, Doing
    <2>2. QED
      BY <1>2, <1>4, <2>1, LineTypes
  <1>5. ASSUME NEW t \in Threads, Send(t)
        PROVE  \/ stdin'[s] = stdin[s]
               \/ /\ task[t].session = s
                  /\ stdin'[s] = Append(stdin[s], IF t = Starter
                                                    THEN Request(task[t].id, "initialize", NoCall)
                                                    ELSE Request(task[t].id, "tools/call", t))
    <2> DEFINE line == IF t = Starter THEN Request(task[t].id, "initialize", NoCall)
                                      ELSE Request(task[t].id, "tools/call", t)
    <2>1. task[t].session \in Sessions /\ task[t].id \in Nat
      BY <1>5, TaskShape DEF Send, Doing
    <2>2. Write(task[t].session, line)
      BY <1>5 DEF Send
    <2>3. line \in Lines
      BY <2>1, LineTypes DEF Threads
    <2> HIDE DEF line
    <2>4. stdin'[s] = IF task[t].session = s THEN Append(stdin[s], line) ELSE stdin[s]
      BY <1>2, <2>1, <2>2, <2>3
    <2>5. QED
      BY <2>4 DEF line
  <1>6. CASE Start \/ Spawn \/ CannotSpawn \/ GetsInitialized \/ Started \/ Close
               \/ CloseClient \/ Reap \/ Closed
    BY <1>6 DEF Start, Spawn, CannotSpawn, GetsInitialized, Gets, Started, Close,
                CloseClient, Reap, Closed, serverVars, Untouched, HangUp
  <1>7. ASSUME NEW t \in Threads, SendFails(t) \/ GetsRejected(t) \/ TimesOut(t)
        PROVE  UNCHANGED stdin
    BY <1>7 DEF SendFails, GetsRejected, Gets, TimesOut, Untouched
  <1>8. ASSUME NEW c \in Calls, CallStep(c) PROVE UNCHANGED stdin
    BY <1>8 DEF CallStep, FieldMissing, NotStarted, TakeUp, Count, SendBlocks, GetsResult, Gets,
                Untouched, serverVars
  <1>9. ASSUME NEW u \in Sessions, ReaderStep(u) PROVE UNCHANGED stdin
    BY <1>9 DEF ReaderStep, ReadLine, ReadEof, serverVars
  <1>10. ~(AgentSends \/ AgentReads \/ AgentHangsUp)
    BY DEF AgentSends, AgentReads, AgentHangsUp
  <1>11. CASE UNCHANGED vars
    BY <1>11 DEF vars, serverVars
  <1>12. QED
    BY <1>1, <1>3, <1>4, <1>5, <1>6, <1>7, <1>8, <1>9, <1>10, <1>11
       DEF Next, Open, Shut, Servers, ThreadStep

LEMMA StdoutMoves ==
  ASSUME TypeOK, peer = "host", [Next]_vars, NEW s \in Sessions
  PROVE  \/ stdout'[s] = stdout[s]
         \/ stdout'[s] = <<>>
         \/ stdout[s] # <<>> /\ stdout'[s] = Tail(stdout[s])
         \/ Handles(s) /\ \E r \in Replies : Answered(s, r) /\ stdout'[s] = Append(stdout[s], r)
  <1>0. stdout \in [Sessions -> Seq(Replies)] /\ Starter \in Threads
    BY DEF TypeOK, ServerTypeOK, Threads
  <1>1. ASSUME NEW u \in Sessions, ServerStep(u)
        PROVE  \/ stdout'[s] = stdout[s]
               \/ Handles(s) /\ \E r \in Replies : Answered(s, r) /\ stdout'[s] = Append(stdout[s], r)
    <2>1. CASE HandleLine(u)
      <3>1. Handles(u)
        BY <2>1, HandledLine DEF TypeOK
      <3>2. CASE UNCHANGED stdout
        BY <3>2
      <3>3. ASSUME NEW r \in Replies, Answered(u, r)
            PROVE  stdout'[s] = IF u = s THEN Append(stdout[s], r) ELSE stdout[s]
        BY <1>0, <3>3 DEF Answered, Answers
      <3>4. QED
        BY <3>1, <3>2, <3>3 DEF Handles
    <2>2. CASE ExitAtEof(u) \/ DiesInTool(u) \/ Dies(u)
      BY <2>2 DEF ExitAtEof, DiesInTool, Dies, Gone
    <2>3. QED
      BY <1>1, <2>1, <2>2 DEF ServerStep
  <1>2. CASE Reap
    BY <1>0, <1>2 DEF Reap
  <1>3. ASSUME NEW u \in Sessions, ReaderStep(u)
        PROVE  stdout'[s] = stdout[s] \/ (stdout[s] # <<>> /\ stdout'[s] = Tail(stdout[s]))
    BY <1>0, <1>3 DEF ReaderStep, ReadLine, ReadEof, serverVars
  <1>4. CASE Start \/ Open \/ Close \/ CloseClient \/ Kill \/ Closed
    BY <1>4 DEF Start, Open, Spawn, CannotSpawn, GetsInitialized, Gets, Notify, Started, Close,
                CloseClient, Kill, Dies, Gone, Closed, serverVars, Untouched, HangUp, Write
  <1>5. ASSUME NEW t \in Threads, ThreadStep(t) PROVE UNCHANGED stdout
    BY <1>5 DEF ThreadStep, Send, SendFails, GetsRejected, Gets, TimesOut, Untouched, Write
  <1>6. ASSUME NEW c \in Calls, CallStep(c) PROVE UNCHANGED stdout
    BY <1>6 DEF CallStep, FieldMissing, NotStarted, TakeUp, Count, SendBlocks, GetsResult, Gets,
                Untouched, serverVars
  <1>7. ~(AgentSends \/ AgentReads \/ AgentHangsUp)
    BY DEF AgentSends, AgentReads, AgentHangsUp
  <1>8. CASE UNCHANGED vars
    BY <1>8 DEF vars, serverVars
  <1>9. QED
    BY <1>1, <1>2, <1>3, <1>4, <1>5, <1>6, <1>7, <1>8 DEF Next, Shut, Servers

LEMMA QueueMoves ==
  ASSUME TypeOK, peer = "host", [Next]_vars, NEW s \in Sessions
  PROVE  \/ responses'[s] = responses[s]
         \/ responses'[s] = <<>>
         \/ responses[s] # <<>> /\ responses'[s] = Tail(responses[s])
         \/ stdout[s] # <<>> /\ responses'[s] = Append(responses[s], Head(stdout[s]))
         \/ responses'[s] = Append(responses[s], Broken)
  <1>0. responses \in [Sessions -> Seq(Replies \union {Broken})] /\ Starter \in Threads
        /\ Calls \subseteq Threads
    BY DEF TypeOK, Threads
  <1>1. ASSUME NEW u \in Sessions, ReaderStep(u)
        PROVE  \/ responses'[s] = responses[s]
               \/ stdout[s] # <<>> /\ responses'[s] = Append(responses[s], Head(stdout[s]))
               \/ responses'[s] = Append(responses[s], Broken)
    <2>1. CASE ReadLine(u)
      <3> DEFINE x == IF Head(stdout[u]).body = "oversized" THEN Broken ELSE Head(stdout[u])
      <3>1. stdout[u] # <<>> /\ responses' = [responses EXCEPT ![u] = Append(@, x)]
        BY <2>1 DEF ReadLine
      <3>2. x = Broken \/ x = Head(stdout[u])
        OBVIOUS
      <3> HIDE DEF x
      <3>3. responses'[s] = IF u = s THEN Append(responses[s], x) ELSE responses[s]
        BY <1>0, <3>1
      <3>4. QED
        BY <3>1, <3>2, <3>3
    <2>2. CASE ReadEof(u)
      BY <1>0, <2>2 DEF ReadEof
    <2>3. QED
      BY <1>1, <2>1, <2>2 DEF ReaderStep
  <1>2. ASSUME NEW t \in Threads, Gets(t)
        PROVE  responses'[s] = responses[s] \/ (responses[s] # <<>> /\ responses'[s] = Tail(responses[s]))
    BY <1>0, <1>2 DEF Gets
  <1>3. CASE Reap
    BY <1>0, <1>3 DEF Reap
  <1>4. CASE Start \/ Spawn \/ CannotSpawn \/ Notify \/ Started \/ Close \/ CloseClient
               \/ Kill \/ Closed
    BY <1>4 DEF Start, Spawn, CannotSpawn, Notify, Started, Close, CloseClient, Kill, Closed,
                clientVars
  <1>5. ASSUME NEW t \in Threads, Send(t) \/ SendFails(t) \/ TimesOut(t) PROVE UNCHANGED responses
    BY <1>5 DEF Send, SendFails, TimesOut, clientVars
  <1>6. ASSUME NEW c \in Calls,
               FieldMissing(c) \/ NotStarted(c) \/ TakeUp(c) \/ Count(c) \/ SendBlocks(c)
        PROVE  UNCHANGED responses
    BY <1>6 DEF FieldMissing, NotStarted, TakeUp, Count, SendBlocks, clientVars
  <1>7. ASSUME NEW u \in Sessions, Servers(u) PROVE UNCHANGED responses
    BY <1>7 DEF Servers, clientVars
  <1>8. ~(AgentSends \/ AgentReads \/ AgentHangsUp)
    BY DEF AgentSends, AgentReads, AgentHangsUp
  <1>9. CASE UNCHANGED vars
    BY <1>9 DEF vars, clientVars
  <1>10. QED
    BY <1>0, <1>1, <1>2, <1>3, <1>4, <1>5, <1>6, <1>7, <1>8, <1>9
       DEF Next, Open, Shut, ThreadStep, CallStep, GetsInitialized, GetsRejected, GetsResult

-----------------------------------------------------------------------------
(* Answers: every line on its way to or from a server, and every item of a *)
(* client's queue, that has the id of a thread's request is that request   *)
(* or its answer.                                                          *)

OwnCall(t) == IF t = Starter THEN NoCall ELSE t

Fits(s, m) ==
    /\ m.id < nextId[s]
    /\ \A t \in Threads :
         Requesting(t) /\ task[t].session = s /\ task[t].id = m.id => m.call = OwnCall(t)

InFlight(s) == Items(stdin[s]) \union Items(stdout[s]) \union Items(responses[s])

FitsInv == peer = "host" => \A s \in Sessions : \A m \in InFlight(s) : Fits(s, m)

LEMMA InFlightType ==
  ASSUME TypeOK, NEW s \in Sessions
  PROVE  \A m \in InFlight(s) : m.id \in Nat
  <1>1. \A m \in Lines \union Replies \union {Broken} : m.id \in Nat
    <2>1. (\A m \in Lines : m.id \in Nat) /\ (\A m \in Replies : m.id \in Nat)
      BY DEF Lines, Replies
    <2>2. Broken.id \in Nat
      BY DEF Broken, Null
    <2>3. QED
      BY <2>1, <2>2
  <1>2. /\ stdin[s] \in Seq(Lines) /\ stdout[s] \in Seq(Replies)
        /\ responses[s] \in Seq(Replies \union {Broken})
    BY DEF TypeOK, ServerTypeOK
  <1>3. \A m \in InFlight(s) : m \in Lines \union Replies \union {Broken}
    BY <1>2, ElementOfSeq DEF InFlight, Items
  <1>4. QED
    BY <1>1, <1>3

\* A line or an item that a step brings carries no id, or the id and the call
\* of one that was there, or those of the request it sends.
LEMMA InFlightMoves ==
  ASSUME TypeOK, peer = "host", [Next]_vars, NEW s \in Sessions, NEW m \in InFlight(s)'
  PROVE  \/ m.id = Null
         \/ \E old \in InFlight(s) : m.id = old.id /\ m.call = old.call
         \/ \E t \in Threads : /\ Requesting(t) /\ task[t].session = s
                              /\ m.id = task[t].id /\ m.call = OwnCall(t)
  <1>0. /\ stdin[s] \in Seq(Lines) /\ stdout[s] \in Seq(Replies)
        /\ responses[s] \in Seq(Replies \union {Broken})
    BY DEF TypeOK, ServerTypeOK
  <1>1. ASSUME m \in Items(stdin'[s]), m \notin Items(stdin[s])
        PROVE  \/ m.id = Null
               \/ \E t \in Threads : /\ Requesting(t) /\ task[t].session = s
                                    /\ m.id = task[t].id /\ m.call = OwnCall(t)
    <2>1. ASSUME HandleLine(s) PROVE FALSE
      <3>1. stdin[s] # <<>> /\ stdin'[s] = Tail(stdin[s])
        BY <2>1, HandledLine DEF Handles, Takes, TypeOK, ServerTypeOK
      <3>2. QED
        BY <1>0, <1>1, <3>1, ItemsHead
    <2>2. ASSUME stdin'[s] = <<>> PROVE FALSE
      BY <1>1, <2>2, ItemsEmpty
    <2>3. CASE stdin'[s] = Append(stdin[s], InitializedLine)
      <3>1. m = InitializedLine
        BY <1>0, <1>1, <2>3, ItemsAppend, LineTypes
      <3>2. QED
        BY <3>1 DEF InitializedLine
    <2>4. ASSUME NEW t \in Threads, Send(t), task[t].session = s,
                 stdin'[s] = Append(stdin[s], IF t = Starter
                                                THEN Request(task[t].id, "initialize", NoCall)
                                                ELSE Request(task[t].id, "tools/call", t))
          PROVE  Requesting(t) /\ m.id = task[t].id /\ m.call = OwnCall(t)
      <3> DEFINE line == IF t = Starter THEN Request(task[t].id, "initialize", NoCall)
                                        ELSE Request(task[t].id, "tools/call", t)
      <3>1. Requesting(t) /\ task[t].id \in Nat
        BY <2>4, TaskShape DEF Send, Doing, Requesting
      <3>2. line \in Lines
        BY <3>1, LineTypes DEF Threads
      <3>3. line.id = task[t].id /\ line.call = OwnCall(t)
        BY DEF Request, OwnCall
      <3> HIDE DEF line
      <3>4. m = line
        BY <1>0, <1>1, <2>4, <3>2, ItemsAppend DEF line
      <3>5. QED
        BY <3>1, <3>3, <3>4
    <2>5. QED
      BY <1>1, <2>1, <2>2, <2>3, <2>4, StdinMoves
  <1>2. ASSUME m \in Items(stdout'[s]), m \notin Items(stdout[s])
        PROVE  m.id = Null \/ \E old \in Items(stdin[s]) : m.id = old.id /\ m.call = old.call
    <2>1. ASSUME stdout'[s] = <<>> PROVE FALSE
      BY <1>2, <2>1, ItemsEmpty
    <2>2. ASSUME stdout[s] # <<>>, stdout'[s] = Tail(stdout[s]) PROVE FALSE
      BY <1>0, <1>2, <2>2, ItemsHead
    <2>3. ASSUME Handles(s), NEW r \in Replies, Answered(s, r), stdout'[s] = Append(stdout[s], r)
          PROVE  m.id = Null \/ \E old \in Items(stdin[s]) : m.id = old.id /\ m.call = old.call
      <3>1. m = r
        BY <1>0, <1>2, <2>3, ItemsAppend
      <3>2. Message(s) \in Items(stdin[s])
        BY <2>3, MessageType DEF Handles, Takes, TypeOK
      <3>3. QED
        BY <2>3, <3>1, <3>2 DEF Answered
    <2>4. QED
      BY <1>2, <2>1, <2>2, <2>3, StdoutMoves
  <1>3. ASSUME m \in Items(responses'[s]), m \notin Items(responses[s])
        PROVE  m.id = Null \/ m \in Items(stdout[s])
    <2>1. ASSUME responses'[s] = <<>> PROVE FALSE
      BY <1>3, <2>1, ItemsEmpty
    <2>2. ASSUME responses[s] # <<>>, responses'[s] = Tail(responses[s]) PROVE FALSE
      BY <1>0, <1>3, <2>2, ItemsHead
    <2>3. ASSUME stdout[s] # <<>>, responses'[s] = Append(responses[s], Head(stdout[s]))
          PROVE  m \in Items(stdout[s])
      <3>1. Head(stdout[s]) \in Items(stdout[s]) /\ Head(stdout[s]) \in Replies \union {Broken}
        BY <1>0, <2>3, ItemsHead
      <3>2. QED
        BY <1>0, <1>3, <2>3, <3>1, ItemsAppend
    <2>4. ASSUME responses'[s] = Append(responses[s], Broken) PROVE m.id = Null
      <3>1. m = Broken
        BY <1>0, <1>3, <2>4, ItemsAppend
      <3>2. QED
        BY <3>1 DEF Broken
    <2>5. QED
      BY <1>3, <2>1, <2>2, <2>3, <2>4, QueueMoves
  <1>4. QED
    BY <1>1, <1>2, <1>3 DEF InFlight

LEMMA FitsStep ==
  ASSUME TypeOK, TypeOK', StarterInv, UsedInv, IdInv, FitsInv, AtomicIds, [Next]_vars, UNCHANGED peer
  PROVE  FitsInv'
  <1> SUFFICES ASSUME peer = "host", NEW s \in Sessions, NEW m \in InFlight(s)'
               PROVE  Fits(s, m)'
    BY DEF FitsInv
  <1>0. /\ nextId[s] \in Nat /\ nextId'[s] \in Nat /\ nextId[s] >= 1
        /\ \A old \in InFlight(s) : old.id \in Nat /\ Fits(s, old)
        /\ IdInv' /\ nextId'[s] >= nextId[s]
        /\ \A t \in Threads : Requesting(t)' =>
              \/ Requesting(t) /\ task'[t].session = task[t].session /\ task'[t].id = task[t].id
              \/ task'[t].id >= nextId[task'[t].session]
        /\ \A t \in Threads : Requesting(t)' => task'[t].id \in Nat /\ task'[t].session \in Sessions
    <2>1. /\ nextId[s] \in Nat /\ nextId'[s] \in Nat /\ nextId[s] >= 1
          /\ \A old \in InFlight(s) : old.id \in Nat /\ Fits(s, old)
      BY InFlightType DEF TypeOK, IdInv, FitsInv
    <2>2. \A t \in Threads : Requesting(t)' => task'[t].id \in Nat /\ task'[t].session \in Sessions
      <3>1. ASSUME NEW j \in Tasks, j.step \in {"sending", "writing", "waiting"}
            PROVE  j.id \in Nat /\ j.session \in Sessions
        BY <3>1 DEF Tasks, Idle
      <3>2. QED
        BY <3>1 DEF TypeOK, Requesting
    <2>3. QED
      BY <2>1, <2>2, IdStep
  <1>1. CASE m.id = Null
    <2>1. \A t \in Threads : Requesting(t)' => task'[t].id >= 1
      BY <1>0 DEF IdInv
    <2>2. QED
      BY <1>0, <1>1, <2>1 DEF Fits, Null
  <1>2. ASSUME NEW old \in InFlight(s), m.id = old.id, m.call = old.call
        PROVE  Fits(s, m)'
    BY <1>0, <1>2 DEF Fits
  <1>3. ASSUME NEW t \in Threads, Requesting(t), task[t].session = s,
               m.id = task[t].id, m.call = OwnCall(t)
        PROVE  Fits(s, m)'
    <2>1. Requesting(t) /\ m.id \in 1..(nextId[s] - 1)
      BY <1>3 DEF IdInv
    <2>2. ASSUME NEW u \in Threads, Requesting(u)', task'[u].session = s, task'[u].id = m.id
          PROVE  m.call = OwnCall(u)
      <3>1. Requesting(u) /\ task[u].session = s /\ task[u].id = m.id
        BY <1>0, <2>1, <2>2
      <3>2. u = t
        BY <1>3, <2>1, <3>1 DEF IdInv
      <3>3. QED
        BY <1>3, <3>2
    <2>3. m.id < nextId'[s]
      BY <1>0, <2>1
    <2>4. QED
      BY <2>2, <2>3 DEF Fits, OwnCall
  <1>4. QED
    BY <1>1, <1>2, <1>3, InFlightMoves

LEMMA PeerStays == [Next]_vars => UNCHANGED peer
  BY DEF Next, Start, Open, Spawn, CannotSpawn, GetsInitialized, Gets, Notify, Started, Close,
         Shut, CloseClient, Kill, Reap, Closed, ThreadStep, Send, SendFails, GetsRejected, TimesOut,
         CallStep, FieldMissing, NotStarted, TakeUp, Count, SendBlocks, GetsResult, ReaderStep,
         ReadLine, ReadEof, Servers, AgentSends, AgentReads, AgentHangsUp, agents, vars

LEMMA AnswersStep ==
  ASSUME TypeOK, StarterInv, FitsInv, AnswersOwn, [Next]_vars
  PROVE  AnswersOwn'
  <1>1. ASSUME NEW c \in Calls, GetsResult(c) PROVE AnswersOwn'
    <2> DEFINE s == task[c].session
               m == Head(responses[s])
    <2>0. c \in Threads /\ c # Starter
      BY HostAssumption DEF Threads
    <2>1. /\ s \in Sessions /\ responses[s] # <<>> /\ Requesting(c) /\ m.id = task[c].id
          /\ answerOf' = [answerOf EXCEPT ![c] = m.call]
          /\ \A d \in Calls : d # c => outcome'[d] = outcome[d]
      BY <1>1, <2>0, TaskShape DEF GetsResult, Gets, Doing, Accepted, Got, Requesting, TypeOK
    <2>2. m \in InFlight(s)
      BY <2>1, ItemsHead DEF InFlight, TypeOK
    <2>3. peer = "host"
      BY <2>0, <2>1, ActsForHost DEF Requesting, TypeOK
    <2>4. m.call = c
      BY <2>0, <2>1, <2>2, <2>3 DEF FitsInv, Fits, OwnCall
    <2>5. QED
      BY <2>1, <2>4 DEF AnswersOwn, TypeOK
  <1>2. ASSUME UNCHANGED answerOf,
               \A c \in Calls : outcome'[c] = outcome[c] \/ outcome'[c] \notin {"answered", "malformed"}
        PROVE  AnswersOwn'
    BY <1>2 DEF AnswersOwn
  <1>3. ASSUME UNCHANGED callVars PROVE AnswersOwn'
    BY <1>2, <1>3 DEF callVars
  <1>4. ASSUME NEW t \in Threads, Fails(t), UNCHANGED answerOf PROVE AnswersOwn'
    BY <1>2, <1>4 DEF Fails, TypeOK
  <1>5. ASSUME NEW t \in Threads, ThreadStep(t) PROVE AnswersOwn'
    BY <1>3, <1>4, <1>5 DEF ThreadStep, Send, SendFails, GetsRejected, TimesOut
  <1>6. ASSUME NEW c \in Calls, CallStep(c) PROVE AnswersOwn'
    <2>1. CASE FieldMissing(c) \/ NotStarted(c)
      <3>1. PICK how \in {"refused", "unknown"} : Ends(c, how)
        BY <2>1 DEF FieldMissing, NotStarted
      <3>2. UNCHANGED answerOf
        BY <2>1 DEF FieldMissing, NotStarted
      <3>3. QED
        BY <1>2, <3>1, <3>2 DEF Ends, TypeOK
    <2>2. CASE TakeUp(c) \/ Count(c) \/ SendBlocks(c)
      BY <1>3, <2>2 DEF TakeUp, Count, SendBlocks
    <2>3. QED
      BY <1>1, <1>6, <2>1, <2>2 DEF CallStep
  <1>7. CASE Start \/ Open \/ Close \/ Shut
    BY <1>3, <1>7 DEF Start, Open, Spawn, CannotSpawn, GetsInitialized, Notify, Started, Close,
                      Shut, CloseClient, Kill, Reap, Closed
  <1>8. CASE \/ \E s \in Sessions : ReaderStep(s) \/ Servers(s)
             \/ AgentSends \/ AgentReads \/ AgentHangsUp
             \/ UNCHANGED vars
    BY <1>3, <1>8 DEF ReaderStep, ReadLine, ReadEof, Servers, AgentSends, AgentReads,
                      AgentHangsUp, vars
  <1>9. QED
    BY <1>5, <1>6, <1>7, <1>8 DEF Next

LEMMA RequestsInit == Init => UsedInv /\ IdInv /\ FitsInv /\ AnswersOwn
  <1> SUFFICES ASSUME Init PROVE UsedInv /\ IdInv /\ FitsInv /\ AnswersOwn
    OBVIOUS
  <1>1. /\ \A t \in Threads : task[t] = Idle
        /\ \A s \in Sessions : nextId[s] = 1 /\ responses[s] = <<>>
        /\ \A s \in Sessions : stdin[s] = <<>> /\ stdout[s] = <<>>
        /\ \A c \in Calls : outcome[c] = "none"
        /\ Len(host.clients) = 0
    BY ItemsEmpty DEF Init, ServerInit, Stopped
  <1>2. Idle.step = "idle"
    BY DEF Idle
  <1>3. QED
    BY <1>1, <1>2, ItemsEmpty DEF UsedInv, IdInv, FitsInv, InFlight, AnswersOwn, Requesting, Doing

LEMMA RequestsCorrect ==
  ASSUME AtomicIds
  PROVE  Spec => [](UsedInv /\ IdInv /\ FitsInv /\ AnswersOwn)
  <1> DEFINE Inv == UsedInv /\ IdInv /\ FitsInv /\ AnswersOwn
  <1>1. Init => Inv
    BY RequestsInit
  <1>2. TypeOK /\ TypeOK' /\ StarterInv /\ Inv /\ [Next]_vars => Inv'
    BY UsedStep, IdStep, FitsStep, AnswersStep, PeerStays
  <1>3. Spec => []Inv
    <2> HIDE DEF Inv
    <2>1. QED
      BY <1>1, <1>2, TypeCorrect, PTL DEF Spec
  <1>4. QED
    BY <1>3

\* No call returns the answer to another request, late answers and threads
\* that share a client included, where ids are taken and counted in one go.
THEOREM AnswersOwnHolds ==
  ASSUME AtomicIds
  PROVE  Spec => []AnswersOwn
  BY RequestsCorrect, PTL

-----------------------------------------------------------------------------
(* Effects: a tool is run for a call only while the call's one line is on  *)
(* its way, and a result comes only from a tool that was run.              *)

\* The request of the call has not been written and, after a refusal, never is.
Unsent(c) == outcome[c] = "refused" \/ (outcome[c] = "none" /\ ~Doing(c, "waiting"))

Returned == {"answered", "malformed"}
ResultBodies == {"object", "not an object", "result"}

CallsHonest ==
    \A c \in Calls :
        /\ task[c] # Idle => outcome[c] = "none"
        /\ executed[c] <= 1
        /\ Unsent(c) => executed[c] = 0

LinesHonest ==
    \A s \in Sessions : \A k \in 1..Len(stdin[s]) :
        /\ stdin[s][k].call \in Calls <=> stdin[s][k].method = "tools/call"
        /\ stdin[s][k].call \in Calls =>
             /\ executed[stdin[s][k].call] = 0 /\ ~Unsent(stdin[s][k].call)
             /\ \A u \in Sessions : \A l \in 1..Len(stdin[u]) :
                  stdin[u][l].call = stdin[s][k].call => u = s /\ l = k

RepliesHonest ==
    \A s \in Sessions : \A m \in Items(stdout[s]) \union Items(responses[s]) :
        m.call \in Calls /\ m.body \in ResultBodies => executed[m.call] = 1

HonestInv == peer = "host" => CallsHonest /\ LinesHonest /\ RepliesHonest

ReturnedRan == \A c \in Calls : outcome[c] \in Returned => executed[c] = 1

\* What a step does to a call: it is written once, and what was written, was
\* refused or was answered stays so.
LEMMA CallMoves ==
  ASSUME TypeOK, StarterInv, [Next]_vars, NEW c \in Calls, task[c] # Idle => outcome[c] = "none"
  PROVE  /\ task'[c] # Idle => outcome'[c] = "none"
         /\ Unsent(c)' => Unsent(c) /\ ~Send(c)
         /\ outcome'[c] \in Returned => outcome[c] \in Returned \/ GetsResult(c)
  <1> DEFINE Fine == /\ task'[c] # Idle => outcome'[c] = "none"
                     /\ Unsent(c)' => Unsent(c) /\ ~Send(c)
                     /\ outcome'[c] \in Returned => outcome[c] \in Returned \/ GetsResult(c)
  <1>0. /\ c \in Threads /\ Starter \in Threads /\ c # Starter /\ Calls \subseteq Threads
        /\ task \in [Threads -> Tasks] /\ DOMAIN outcome = Calls
        /\ outcome \in [Calls -> {"none", "refused", "raised", "unknown", "answered", "malformed"}]
    BY HostAssumption DEF Threads, TypeOK
  <1>1. ASSUME task'[c] = task[c], outcome'[c] = outcome[c] PROVE Fine
    <2>1. ~Send(c)
      <3>1. ASSUME Send(c) PROVE FALSE
        <4>1. task[c].step \in {"sending", "writing"} /\ task'[c] = [task[c] EXCEPT !.step = "waiting"]
          BY <1>0, <3>1 DEF Send, Doing, Proceed
        <4>2. task'[c].step = "waiting"
          BY <1>0, <4>1, TaskMoves
        <4>3. QED
          BY <1>1, <4>1, <4>2
      <3>2. QED
        BY <3>1
    <2>2. QED
      BY <1>1, <2>1 DEF Unsent, Doing
  <1>2. ASSUME NEW t \in Threads, Fails(t), task[t].step \in {"sending", "writing", "waiting", "notifying"}
        PROVE  Fine
    <2>1. CASE t = c
      <3>1. task'[c] = Idle /\ outcome'[c] \in {"raised", "unknown"}
        BY <1>0, <1>2, <2>1 DEF Fails, Proceed
      <3>2. QED
        BY <3>1 DEF Unsent, Returned
    <2>2. CASE t # c
      <3>1. task'[c] = task[c]
        BY <1>0, <1>2, <2>2 DEF Fails, Proceed
      <3>2. outcome'[c] = outcome[c]
        BY <1>0, <1>2, <2>2 DEF Fails
      <3>3. QED
        BY <1>1, <3>1, <3>2
    <2>3. QED
      BY <2>1, <2>2
  <1>3. ASSUME NEW t \in Threads, Send(t) PROVE Fine
    <2>1. CASE t = c
      <3>1. task[c].step \in {"sending", "writing"} /\ task'[c] = [task[c] EXCEPT !.step = "waiting"]
        BY <1>0, <1>3, <2>1 DEF Send, Doing, Proceed
      <3>2. task'[c].step = "waiting" /\ task[c] # Idle /\ UNCHANGED outcome
        BY <1>0, <1>3, <3>1, TaskMoves DEF Idle, Send, callVars
      <3>3. QED
        BY <3>2 DEF Unsent, Doing, Returned
    <2>2. CASE t # c
      BY <1>0, <1>1, <1>3, <2>2 DEF Send, Proceed, callVars
    <2>3. QED
      BY <2>1, <2>2
  <1>4. ASSUME NEW t \in Threads, ThreadStep(t) PROVE Fine
    BY <1>2, <1>3, <1>4 DEF ThreadStep, SendFails, GetsRejected, Gets, TimesOut, Doing
  <1>5. ASSUME NEW d \in Calls, CallStep(d), d # c PROVE Fine
    <2>1. task'[c] = task[c]
      BY <1>0, <1>5 DEF CallStep, FieldMissing, NotStarted, TakeUp, Count, SendBlocks, GetsResult,
                        Proceed
    <2>2. outcome'[c] = outcome[c]
      BY <1>0, <1>5 DEF CallStep, FieldMissing, NotStarted, Ends, TakeUp, Count, SendBlocks,
                        GetsResult, callVars
    <2>3. QED
      BY <1>1, <2>1, <2>2
  <1>6. ASSUME CallStep(c) PROVE Fine
    <2>1. CASE FieldMissing(c) \/ NotStarted(c)
      <3>1. /\ task[c] = Idle /\ UNCHANGED task /\ outcome[c] = "none"
            /\ outcome'[c] \in {"refused", "unknown"}
        BY <1>0, <2>1 DEF FieldMissing, NotStarted, New, Ends
      <3>2. ~Send(c) /\ ~Doing(c, "waiting")
        BY <3>1 DEF Send, Doing, Idle
      <3>3. QED
        BY <3>1, <3>2 DEF Unsent, Returned
    <2>2. CASE TakeUp(c)
      <3>1. /\ task[c] = Idle /\ outcome[c] = "none" /\ UNCHANGED outcome
        BY <2>2 DEF TakeUp, New, callVars
      <3>2. ~Send(c) /\ ~Doing(c, "waiting")
        BY <3>1 DEF Send, Doing, Idle
      <3>3. QED
        BY <3>1, <3>2 DEF Unsent, Returned
    <2>3. CASE Count(c)
      <3>1. task[c].step = "counting" /\ UNCHANGED outcome
        BY <2>3 DEF Count, Doing, callVars
      <3>2. task[c] # Idle /\ ~Send(c) /\ ~Doing(c, "waiting")
        BY <3>1 DEF Send, Doing, Idle
      <3>3. QED
        BY <3>1, <3>2 DEF Unsent, Returned
    <2>4. CASE GetsResult(c)
      <3>1. task'[c] = Idle /\ outcome'[c] \in {"answered", "malformed"}
        BY <1>0, <2>4 DEF GetsResult, Proceed
      <3>2. QED
        BY <2>4, <3>1 DEF Unsent
    <2>5. CASE SendBlocks(c)
      <3>1. task[c].step = "sending" /\ task'[c] = [task[c] EXCEPT !.step = "writing"]
            /\ UNCHANGED outcome
        BY <1>0, <2>5 DEF SendBlocks, Doing, Proceed, callVars
      <3>2. task[c] # Idle /\ task'[c].step = "writing" /\ ~Doing(c, "waiting")
        BY <1>0, <3>1, TaskMoves DEF Doing, Idle
      <3>3. ~Send(c)
        <4>1. ASSUME Send(c) PROVE task'[c].step = "waiting"
          BY <1>0, <3>1, <4>1, TaskMoves DEF Send, Proceed
        <4>2. QED
          BY <3>2, <4>1
      <3>4. QED
        BY <3>1, <3>2, <3>3 DEF Unsent, Returned
    <2>6. QED
      BY <1>6, <2>1, <2>2, <2>3, <2>4, <2>5 DEF CallStep
  <1>7. CASE Start \/ Open \/ Close \/ Shut
    <2>1. UNCHANGED outcome
      BY <1>7 DEF Start, Open, Spawn, CannotSpawn, GetsInitialized, Notify, Started, Close,
                  Shut, CloseClient, Kill, Reap, Closed, callVars
    <2>2. task'[c] = task[c]
      BY <1>0, <1>7 DEF Start, Open, Spawn, CannotSpawn, GetsInitialized, Notify, Started, Close,
                        Shut, CloseClient, Kill, Reap, Closed, Proceed
    <2>3. QED
      BY <1>1, <2>1, <2>2
  <1>8. CASE \/ \E s \in Sessions : ReaderStep(s) \/ Servers(s)
             \/ AgentSends \/ AgentReads \/ AgentHangsUp
             \/ UNCHANGED vars
    <2>1. UNCHANGED <<task, outcome>>
      BY <1>8 DEF ReaderStep, ReadLine, ReadEof, Servers, AgentSends, AgentReads, AgentHangsUp,
                  vars, callVars
    <2>2. QED
      BY <1>1, <2>1
  <1>9. QED
    BY <1>4, <1>5, <1>6, <1>7, <1>8 DEF Next

\* The tool of the line at the head of the pipe is run, and the line is gone.
ToolRun(s) ==
    /\ stdin[s] # <<>> /\ Message(s).method = "tools/call"
    /\ executed' = [executed EXCEPT ![Message(s).call] = @ + 1]
    /\ stdin'[s] = Tail(stdin[s]) \/ stdin'[s] = <<>>

LEMMA ExecutedMoves ==
  ASSUME TypeOK, [Next]_vars
  PROVE  UNCHANGED executed \/ \E s \in Sessions : ToolRun(s)
  <1>0. stdin \in [Sessions -> Seq(Lines)]
    BY DEF TypeOK, ServerTypeOK
  <1>1. ASSUME NEW s \in Sessions, ServerStep(s) PROVE UNCHANGED executed \/ ToolRun(s)
    <2>1. CASE HandleLine(s)
      <3>1. Handles(s)
        BY <2>1, HandledLine DEF TypeOK
      <3>2. stdin[s] # <<>> /\ stdin'[s] = Tail(stdin[s])
        BY <1>0, <3>1 DEF Handles, Takes
      <3>3. QED
        BY <3>1, <3>2 DEF Handles, Answered, ToolRun
    <2>2. CASE DiesInTool(s)
      BY <1>0, <2>2 DEF DiesInTool, Gone, ToolRun
    <2>3. CASE ExitAtEof(s) \/ Dies(s)
      BY <2>3 DEF ExitAtEof, Dies
    <2>4. QED
      BY <1>1, <2>1, <2>2, <2>3 DEF ServerStep
  <1>2. CASE Start \/ Open \/ Close \/ Shut
    BY <1>2 DEF Start, Open, Spawn, CannotSpawn, GetsInitialized, Gets, Notify, Started, Close,
                Shut, CloseClient, Kill, Dies, Reap, Closed, serverVars, Untouched, HangUp, Write
  <1>3. ASSUME NEW t \in Threads, ThreadStep(t) PROVE UNCHANGED executed
    BY <1>3 DEF ThreadStep, Send, SendFails, GetsRejected, Gets, TimesOut, Untouched, Write
  <1>4. ASSUME NEW c \in Calls, CallStep(c) PROVE UNCHANGED executed
    BY <1>4 DEF CallStep, FieldMissing, NotStarted, TakeUp, Count, SendBlocks, GetsResult, Gets,
                Untouched, serverVars
  <1>5. ASSUME NEW s \in Sessions, ReaderStep(s) PROVE UNCHANGED executed
    BY <1>5 DEF ReaderStep, ReadLine, ReadEof, serverVars
  <1>6. CASE AgentSends \/ AgentReads \/ AgentHangsUp
    BY <1>6 DEF AgentSends, AgentReads, AgentHangsUp, Write, HangUp, Untouched
  <1>7. CASE UNCHANGED vars
    BY <1>7 DEF vars, serverVars
  <1>8. QED
    BY <1>1, <1>2, <1>3, <1>4, <1>5, <1>6, <1>7 DEF Next, Servers

\* The place a line had before the step: handling a line moves the others up.
Shift(s) == IF Len(stdin'[s]) < Len(stdin[s]) THEN 1 ELSE 0

\* The line a thread has just written.
Written(s, k) ==
    \/ stdin'[s][k] = InitializedLine
    \/ \E t \in Threads :
         /\ Send(t) /\ task[t].session = s
         /\ k = Len(stdin[s]) + 1
         /\ stdin'[s][k] = IF t = Starter THEN Request(task[t].id, "initialize", NoCall)
                                          ELSE Request(task[t].id, "tools/call", t)

LEMMA LineOrigin ==
  ASSUME TypeOK, peer = "host", [Next]_vars, NEW s \in Sessions, NEW k \in 1..Len(stdin'[s])
  PROVE  \/ k + Shift(s) \in 1..Len(stdin[s]) /\ stdin'[s][k] = stdin[s][k + Shift(s)]
         \/ Written(s, k)
  <1>0. stdin[s] \in Seq(Lines) /\ Len(stdin[s]) \in Nat
    BY LenProperties DEF TypeOK, ServerTypeOK
  <1>1. CASE stdin'[s] = stdin[s]
    BY <1>0, <1>1 DEF Shift
  <1>2. ASSUME stdin'[s] = <<>> PROVE FALSE
    <2>1. Len(stdin'[s]) = 0
      BY <1>2, ItemsEmpty
    <2>2. QED
      BY <2>1
  <1>3. CASE HandleLine(s)
    <2>1. stdin[s] # <<>> /\ stdin'[s] = Tail(stdin[s])
      BY <1>3, HandledLine DEF Handles, Takes, TypeOK, ServerTypeOK
    <2>2. /\ Len(stdin'[s]) = Len(stdin[s]) - 1
          /\ \A l \in 1..Len(stdin'[s]) : stdin'[s][l] = stdin[s][l + 1]
      BY <1>0, <2>1, HeadTailProperties
    <2>3. Shift(s) = 1
      BY <1>0, <2>2 DEF Shift
    <2>4. QED
      BY <1>0, <2>2, <2>3
  <1>4. ASSUME NEW line \in Lines, stdin'[s] = Append(stdin[s], line)
        PROVE  \/ k + Shift(s) \in 1..Len(stdin[s]) /\ stdin'[s][k] = stdin[s][k + Shift(s)]
               \/ k = Len(stdin[s]) + 1 /\ stdin'[s][k] = line
    <2>1. /\ Len(stdin'[s]) = Len(stdin[s]) + 1
          /\ \A l \in 1..Len(stdin[s]) : stdin'[s][l] = stdin[s][l]
          /\ stdin'[s][Len(stdin[s]) + 1] = line
      BY <1>0, <1>4, AppendProperties
    <2>2. Shift(s) = 0
      BY <1>0, <2>1 DEF Shift
    <2>3. QED
      BY <1>0, <2>1, <2>2
  <1>5. CASE stdin'[s] = Append(stdin[s], InitializedLine)
    BY <1>4, <1>5, LineTypes DEF Written
  <1>6. ASSUME NEW t \in Threads, Send(t), task[t].session = s,
               stdin'[s] = Append(stdin[s], IF t = Starter
                                              THEN Request(task[t].id, "initialize", NoCall)
                                              ELSE Request(task[t].id, "tools/call", t))
        PROVE  \/ k + Shift(s) \in 1..Len(stdin[s]) /\ stdin'[s][k] = stdin[s][k + Shift(s)]
               \/ Written(s, k)
    <2> DEFINE line == IF t = Starter THEN Request(task[t].id, "initialize", NoCall)
                                      ELSE Request(task[t].id, "tools/call", t)
    <2>1. task[t].id \in Nat
      BY <1>6, TaskShape DEF Send, Doing
    <2>2. line \in Lines
      BY <2>1, LineTypes DEF Threads
    <2> HIDE DEF line
    <2>3. stdin'[s] = Append(stdin[s], line)
      BY <1>6 DEF line
    <2>4. \/ k + Shift(s) \in 1..Len(stdin[s]) /\ stdin'[s][k] = stdin[s][k + Shift(s)]
          \/ k = Len(stdin[s]) + 1 /\ stdin'[s][k] = line
      BY <1>4, <2>2, <2>3
    <2>5. QED
      BY <1>6, <2>4 DEF line, Written
  <1>7. QED
    BY <1>1, <1>2, <1>3, <1>5, <1>6, StdinMoves

\* A line that was just written is no call's, or that of a call that had not
\* been written before.
LEMMA WrittenOnce ==
  ASSUME TypeOK, CallsHonest, NEW s \in Sessions, NEW k, Written(s, k)
  PROVE  /\ stdin'[s][k].call \in Calls <=> stdin'[s][k].method = "tools/call"
         /\ stdin'[s][k].call \in Calls =>
              LET c == stdin'[s][k].call IN
              /\ Send(c) /\ Unsent(c) /\ UNCHANGED executed
              /\ s = task[c].session /\ k = Len(stdin[s]) + 1
  <1>1. CASE stdin'[s][k] = InitializedLine
    <2>1. stdin'[s][k].call = NoCall /\ stdin'[s][k].method = "notifications/initialized"
      BY <1>1 DEF InitializedLine
    <2>2. QED
      BY <2>1, HostAssumption
  <1>2. ASSUME NEW t \in Threads, Send(t), task[t].session = s, k = Len(stdin[s]) + 1,
               stdin'[s][k] = IF t = Starter THEN Request(task[t].id, "initialize", NoCall)
                                             ELSE Request(task[t].id, "tools/call", t)
        PROVE  /\ stdin'[s][k].call \in Calls <=> stdin'[s][k].method = "tools/call"
               /\ stdin'[s][k].call \in Calls =>
                    LET c == stdin'[s][k].call IN
                    /\ Send(c) /\ Unsent(c) /\ UNCHANGED executed
                    /\ s = task[c].session /\ k = Len(stdin[s]) + 1
    <2>1. CASE t = Starter
      <3>1. stdin'[s][k].call = NoCall /\ stdin'[s][k].method = "initialize"
        BY <1>2, <2>1 DEF Request
      <3>2. QED
        BY <3>1, HostAssumption
    <2>2. CASE t # Starter
      <3>1. stdin'[s][k].call = t /\ stdin'[s][k].method = "tools/call" /\ t \in Calls
        BY <1>2, <2>2 DEF Request, Threads
      <3>2. task[t].step \in {"sending", "writing"} /\ UNCHANGED executed
        BY <1>2, <2>2 DEF Send, Doing, Write
      <3>3. Unsent(t)
        BY <3>1, <3>2 DEF CallsHonest, Unsent, Doing, Idle
      <3>4. QED
        BY <1>2, <3>1, <3>2, <3>3
    <2>3. QED
      BY <2>1, <2>2
  <1>3. QED
    BY <1>1, <1>2 DEF Written

\* A tool is run for a call whose line was still on its way.
LEMMA RunOnce ==
  ASSUME TypeOK, CallsHonest, LinesHonest, NEW s \in Sessions, ToolRun(s)
  PROVE  LET c == Message(s).call IN
         /\ c \in Calls /\ executed[c] = 0 /\ ~Unsent(c)
         /\ \A d \in Calls : executed'[d] = IF d = c THEN 1 ELSE executed[d]
  <1>1. /\ stdin[s] \in Seq(Lines) /\ stdin[s] # <<>> /\ Message(s).method = "tools/call"
        /\ executed' = [executed EXCEPT ![Message(s).call] = @ + 1]
        /\ executed \in [Calls -> Nat]
    BY DEF ToolRun, TypeOK, ServerTypeOK
  <1>2. 1 \in 1..Len(stdin[s]) /\ Message(s) = stdin[s][1]
    BY <1>1, ItemsHead DEF Message
  <1>3. Message(s).call \in Calls /\ executed[Message(s).call] = 0 /\ ~Unsent(Message(s).call)
    BY <1>1, <1>2 DEF LinesHonest
  <1>4. QED
    BY <1>1, <1>3, CountedOnce

LEMMA CallsHonestStep ==
  ASSUME TypeOK, StarterInv, CallsHonest, LinesHonest, [Next]_vars
  PROVE  /\ CallsHonest'
         /\ \A c \in Calls : executed[c] = 1 => executed'[c] = 1
  <1> SUFFICES ASSUME NEW c \in Calls
               PROVE  /\ task'[c] # Idle => outcome'[c] = "none"
                      /\ executed'[c] <= 1
                      /\ Unsent(c)' => executed'[c] = 0
                      /\ executed[c] = 1 => executed'[c] = 1
    BY DEF CallsHonest
  <1>1. /\ task'[c] # Idle => outcome'[c] = "none"
        /\ Unsent(c)' => Unsent(c)
    BY CallMoves DEF CallsHonest
  <1>2. CASE UNCHANGED executed
    BY <1>1, <1>2 DEF CallsHonest
  <1>3. ASSUME NEW s \in Sessions, ToolRun(s)
        PROVE  /\ executed'[c] <= 1
               /\ Unsent(c)' => executed'[c] = 0
               /\ executed[c] = 1 => executed'[c] = 1
    BY <1>1, <1>3, RunOnce DEF CallsHonest
  <1>4. QED
    BY <1>1, <1>2, <1>3, ExecutedMoves

LEMMA LinesHonestStep ==
  ASSUME TypeOK, StarterInv, CallsHonest, LinesHonest, peer = "host", [Next]_vars
  PROVE  LinesHonest'
  <1> SUFFICES ASSUME NEW s \in Sessions, NEW k \in 1..Len(stdin'[s]),
                      NEW c, c = stdin'[s][k].call
               PROVE  /\ c \in Calls <=> stdin'[s][k].method = "tools/call"
                      /\ c \in Calls =>
                           /\ executed'[c] = 0 /\ ~Unsent(c)'
                           /\ \A u \in Sessions : \A l \in 1..Len(stdin'[u]) :
                                stdin'[u][l].call = c => u = s /\ l = k
    BY DEF LinesHonest, Unsent, Doing
  <1> DEFINE Stayed(u, l) == /\ l + Shift(u) \in 1..Len(stdin[u])
                             /\ stdin'[u][l] = stdin[u][l + Shift(u)]
  <1>0. /\ \A u \in Sessions : stdin[u] \in Seq(Lines) /\ Len(stdin[u]) \in Nat
        /\ \A u \in Sessions : \A l \in 1..Len(stdin'[u]) : Stayed(u, l) \/ Written(u, l)
    BY LineOrigin, LenProperties DEF TypeOK, ServerTypeOK
  <1>1. c \in Calls <=> stdin'[s][k].method = "tools/call"
    <2>1. CASE Stayed(s, k)
      BY <2>1 DEF LinesHonest
    <2>2. CASE Written(s, k)
      BY <2>2, WrittenOnce
    <2>3. QED
      BY <1>0, <2>1, <2>2
  <1>2. ASSUME c \in Calls
        PROVE  executed'[c] = 0 /\ ~Unsent(c)'
    <2>1. CASE Written(s, k)
      <3>1. Send(c) /\ Unsent(c) /\ UNCHANGED executed
        BY <1>2, <2>1, WrittenOnce
      <3>2. executed[c] = 0 /\ ~Unsent(c)'
        BY <1>2, <3>1, CallMoves DEF CallsHonest
      <3>3. QED
        BY <3>1, <3>2
    <2>2. CASE Stayed(s, k)
      <3>1. /\ executed[c] = 0 /\ ~Unsent(c)
            /\ \A u \in Sessions : \A l \in 1..Len(stdin[u]) :
                 stdin[u][l].call = c => u = s /\ l = k + Shift(s)
        BY <1>2, <2>2 DEF LinesHonest
      <3>2. ~Unsent(c)'
        BY <1>2, <3>1, CallMoves DEF CallsHonest
      <3>3. ASSUME NEW u \in Sessions, ToolRun(u) PROVE Message(u).call # c
        <4>1. stdin[u] # <<>> /\ 1 \in 1..Len(stdin[u]) /\ Message(u) = stdin[u][1]
          BY <1>0, <3>3, ItemsHead DEF ToolRun, Message
        <4>2. SUFFICES ASSUME Message(u).call = c PROVE FALSE
          OBVIOUS
        <4>3. u = s /\ k + Shift(s) = 1
          BY <3>1, <4>1, <4>2
        <4>4. Len(stdin'[s]) < Len(stdin[s])
          <5>1. stdin'[s] = Tail(stdin[s]) \/ stdin'[s] = <<>>
            BY <3>3, <4>3 DEF ToolRun
          <5>2. Len(Tail(stdin[s])) = Len(stdin[s]) - 1
            BY <1>0, <4>1, <4>3, HeadTailProperties
          <5>3. Len(<<>>) = 0
            BY ItemsEmpty
          <5>4. Len(stdin[s]) \in Nat \ {0}
            BY <1>0, <4>1, <4>3, ItemsHead
          <5>5. CASE stdin'[s] = Tail(stdin[s])
            <6>1. Len(stdin'[s]) = Len(stdin[s]) - 1
              BY <5>2, <5>5, Zenon
            <6>2. QED
              BY <5>4, <6>1
          <5>6. CASE stdin'[s] = <<>>
            <6>1. Len(stdin'[s]) = 0
              BY <5>3, <5>6, Zenon
            <6>2. QED
              BY <5>4, <6>1
          <5>7. QED
            BY <5>1, <5>5, <5>6
        <4>5. QED
          BY <4>3, <4>4 DEF Shift
      <3>4. executed'[c] = executed[c]
        BY <1>2, <3>3, RunOnce, ExecutedMoves
      <3>5. QED
        BY <3>1, <3>2, <3>4
    <2>3. QED
      BY <1>0, <2>1, <2>2
  <1>3. ASSUME c \in Calls, NEW u \in Sessions, NEW l \in 1..Len(stdin'[u]), stdin'[u][l].call = c
        PROVE  u = s /\ l = k
    <2>1. CASE Stayed(s, k) /\ Stayed(u, l)
      <3>1. u = s /\ l + Shift(u) = k + Shift(s)
        BY <1>3, <2>1 DEF LinesHonest
      <3>2. Shift(s) \in {0, 1}
        BY DEF Shift
      <3>3. QED
        BY <3>1, <3>2
    <2>2. ASSUME NEW v \in Sessions, NEW i \in 1..Len(stdin'[v]), Written(v, i), stdin'[v][i].call = c,
                 NEW w \in Sessions, NEW j \in 1..Len(stdin'[w]), Stayed(w, j), stdin'[w][j].call = c
          PROVE  FALSE
      <3>1. Unsent(c)
        BY <1>3, <2>2, WrittenOnce
      <3>2. ~Unsent(c)
        BY <1>3, <2>2 DEF LinesHonest
      <3>3. QED
        BY <3>1, <3>2
    <2>3. CASE Written(s, k) /\ Written(u, l)
      BY <1>3, <2>3, WrittenOnce
    <2>4. QED
      BY <1>0, <1>3, <2>1, <2>2, <2>3
  <1>4. QED
    BY <1>1, <1>2, <1>3

LEMMA RepliesHonestStep ==
  ASSUME TypeOK, StarterInv, CallsHonest, LinesHonest, RepliesHonest, peer = "host", [Next]_vars
  PROVE  RepliesHonest'
  <1> SUFFICES ASSUME NEW s \in Sessions, NEW m \in Items(stdout'[s]) \union Items(responses'[s]),
                      m.call \in Calls, m.body \in ResultBodies
               PROVE  executed'[m.call] = 1
    BY DEF RepliesHonest, ResultBodies
  <1>0. /\ stdin[s] \in Seq(Lines) /\ stdout[s] \in Seq(Replies)
        /\ responses[s] \in Seq(Replies \union {Broken})
    BY DEF TypeOK, ServerTypeOK
  <1>1. CASE m \in Items(stdout[s]) \union Items(responses[s])
    <2>1. executed[m.call] = 1
      BY <1>1 DEF RepliesHonest
    <2>2. QED
      BY <2>1, CallsHonestStep
  <1>2. ASSUME m \in Items(stdout'[s]), m \notin Items(stdout[s])
        PROVE  executed'[m.call] = 1
    <2>1. ASSUME stdout'[s] = <<>> PROVE FALSE
      BY <1>2, <2>1, ItemsEmpty
    <2>2. ASSUME stdout[s] # <<>>, stdout'[s] = Tail(stdout[s]) PROVE FALSE
      BY <1>0, <1>2, <2>2, ItemsHead
    <2>3. ASSUME Handles(s), NEW r \in Replies, Answered(s, r), stdout'[s] = Append(stdout[s], r)
          PROVE  executed'[m.call] = 1
      <3>1. m = r
        BY <1>0, <1>2, <2>3, ItemsAppend
      <3>2. stdin[s] # <<>> /\ stdin'[s] = Tail(stdin[s])
        BY <2>3 DEF Handles, Takes, TypeOK, ServerTypeOK
      <3>3. 1 \in 1..Len(stdin[s]) /\ Message(s) = stdin[s][1]
        BY <1>0, <3>2, ItemsHead DEF Message
      <3>4. Message(s).method = "tools/call" /\ m.call = Message(s).call
        <4>1. m.call = Message(s).call
          BY <2>3, <3>1 DEF Answered
        <4>2. stdin[s][1].call \in Calls <=> stdin[s][1].method = "tools/call"
          BY <3>3 DEF LinesHonest
        <4>3. QED
          BY <3>3, <4>1, <4>2
      <3>5. ToolRun(s)
        <4>1. executed' = [executed EXCEPT ![Message(s).call] = @ + 1]
          BY <2>3, <3>1, <3>4 DEF Answered, ToolAnswers, ResultBodies
        <4>2. QED
          BY <3>2, <3>4, <4>1 DEF ToolRun
      <3>6. QED
        BY <3>4, <3>5, RunOnce
    <2>4. QED
      BY <1>2, <2>1, <2>2, <2>3, StdoutMoves
  <1>3. ASSUME m \in Items(responses'[s]), m \notin Items(responses[s])
        PROVE  m \in Items(stdout[s])
    <2>1. ASSUME responses'[s] = <<>> PROVE FALSE
      BY <1>3, <2>1, ItemsEmpty
    <2>2. ASSUME responses[s] # <<>>, responses'[s] = Tail(responses[s]) PROVE FALSE
      BY <1>0, <1>3, <2>2, ItemsHead
    <2>3. ASSUME stdout[s] # <<>>, responses'[s] = Append(responses[s], Head(stdout[s]))
          PROVE  m \in Items(stdout[s])
      <3>1. Head(stdout[s]) \in Items(stdout[s]) /\ Head(stdout[s]) \in Replies \union {Broken}
        BY <1>0, <2>3, ItemsHead
      <3>2. QED
        BY <1>0, <1>3, <2>3, <3>1, ItemsAppend
    <2>4. ASSUME responses'[s] = Append(responses[s], Broken) PROVE FALSE
      <3>1. m = Broken
        BY <1>0, <1>3, <2>4, ItemsAppend
      <3>2. QED
        BY <3>1, HostAssumption DEF Broken
    <2>5. QED
      BY <1>3, <2>1, <2>2, <2>3, <2>4, QueueMoves
  <1>4. QED
    BY <1>1, <1>2, <1>3

LEMMA HonestInit == Init => HonestInv /\ ReturnedRan
  <1> SUFFICES ASSUME Init PROVE CallsHonest /\ LinesHonest /\ RepliesHonest /\ ReturnedRan
    BY DEF HonestInv
  <1>1. /\ \A c \in Calls : task[c] = Idle /\ outcome[c] = "none" /\ executed[c] = 0
        /\ \A s \in Sessions : stdin[s] = <<>> /\ stdout[s] = <<>> /\ responses[s] = <<>>
    BY DEF Init, ServerInit, Threads
  <1>2. CallsHonest /\ ReturnedRan
    BY <1>1 DEF CallsHonest, ReturnedRan, Returned
  <1>3. LinesHonest /\ RepliesHonest
    BY <1>1, ItemsEmpty DEF LinesHonest, RepliesHonest
  <1>4. QED
    BY <1>2, <1>3

LEMMA HonestStep ==
  ASSUME TypeOK, StarterInv, HonestInv, [Next]_vars
  PROVE  HonestInv'
  BY CallsHonestStep, LinesHonestStep, RepliesHonestStep, PeerStays DEF HonestInv

\* A call that is answered takes, by its id, the answer to its own request.
LEMMA ReturnedStep ==
  ASSUME TypeOK, TypeOK', StarterInv, StarterInv', FitsInv, HonestInv, ReturnedRan, [Next]_vars
  PROVE  ReturnedRan'
  <1> SUFFICES ASSUME NEW c \in Calls, outcome'[c] \in Returned
               PROVE  executed'[c] = 1
    BY DEF ReturnedRan, Returned
  <1>1. peer = "host"
    <2>1. peer' # "agent"
      BY DEF StarterInv, Returned
    <2>2. QED
      BY <2>1, PeerStays DEF TypeOK
  <1>2. CallsHonest /\ LinesHonest /\ RepliesHonest
    BY <1>1 DEF HonestInv
  <1>3. outcome[c] \in Returned \/ GetsResult(c)
    BY <1>2, CallMoves DEF CallsHonest
  <1>4. CASE outcome[c] \in Returned
    BY <1>2, <1>4, CallsHonestStep DEF ReturnedRan
  <1>5. CASE GetsResult(c)
    <2> DEFINE s == task[c].session
               m == Head(responses[s])
    <2>0. c \in Threads /\ c # Starter
      BY HostAssumption DEF Threads
    <2>1. /\ s \in Sessions /\ responses[s] # <<>> /\ Requesting(c) /\ m.id = task[c].id
          /\ m.body \in ResultBodies
      BY <1>5, <2>0, TaskShape DEF GetsResult, Gets, Doing, Accepted, Got, Requesting, ResultBodies
    <2>2. m \in Items(responses[s])
      BY <2>1, ItemsHead DEF TypeOK
    <2>3. m.call = c
      BY <1>1, <2>0, <2>1, <2>2 DEF FitsInv, Fits, OwnCall, InFlight
    <2>4. executed[c] = 1
      BY <1>2, <2>1, <2>2, <2>3 DEF RepliesHonest
    <2>5. QED
      BY <1>2, <2>4, CallsHonestStep
  <1>6. QED
    BY <1>3, <1>4, <1>5

LEMMA EffectsCorrect == Spec => []HonestInv
  <1>1. Init => HonestInv
    BY HonestInit
  <1>2. TypeOK /\ StarterInv /\ HonestInv /\ [Next]_vars => HonestInv'
    BY HonestStep
  <1>3. QED
    BY <1>1, <1>2, TypeCorrect, PTL DEF Spec

\* What the host reports of a call is true of its effect: no tool is run twice
\* for it, a result means that it was run, a refusal that it never is.
THEOREM OutcomeHonestHolds ==
  ASSUME AtomicIds
  PROVE  Spec => []OutcomeHonest
  <1>1. Init => ReturnedRan
    BY HonestInit
  <1>2. /\ TypeOK /\ TypeOK' /\ StarterInv /\ StarterInv' /\ FitsInv /\ HonestInv /\ ReturnedRan
        /\ [Next]_vars
        => ReturnedRan'
    BY ReturnedStep
  <1>3. TypeOK /\ StarterInv /\ HonestInv /\ ReturnedRan => OutcomeHonest
    BY DEF StarterInv, HonestInv, CallsHonest, ReturnedRan, Returned, Unsent, OutcomeHonest, TypeOK
  <1>4. QED
    BY <1>1, <1>2, <1>3, TypeCorrect, EffectsCorrect, RequestsCorrect, PTL DEF Spec

\* The same of the effect alone, whatever the interpreter does between two
\* operations: at most one run, and none after a refusal.
THEOREM RunsAtMostOnce ==
  Spec => [](\A c \in Calls : /\ peer = "host" => executed[c] <= 1
                             /\ outcome[c] = "refused" => executed[c] = 0)
  <1>1. TypeOK /\ StarterInv /\ HonestInv =>
          \A c \in Calls : /\ peer = "host" => executed[c] <= 1
                          /\ outcome[c] = "refused" => executed[c] = 0
    BY DEF StarterInv, HonestInv, CallsHonest, Unsent, TypeOK
  <1>2. QED
    BY <1>1, TypeCorrect, EffectsCorrect, PTL
=============================================================================
