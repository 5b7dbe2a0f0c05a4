------------------------------ MODULE McpServer ------------------------------
(***************************************************************************)
(* The stdio MCP server (mcp.py): one process per session, which reads one *)
(* JSON-RPC message per line from its stdin, handles it to the end and     *)
(* writes at most one answer to its stdout.  A line is abstracted to what  *)
(* process_message tells apart: whether it can be read, whether it has an  *)
(* id, its method, and whether its parameters are accepted.                *)
(***************************************************************************)
EXTENDS Naturals, Sequences

CONSTANTS
    Sessions,   \* server processes that may be started, numbered from 1
    Calls,      \* tool calls, each made once by the host or by an agent
    NoCall      \* the call of a message that is not tools/call

VARIABLES
    child,      \* session -> "none", "running" or "gone"
    lifecycle,  \* session -> the server's _mcp_state
    stdin,      \* session -> lines in the pipe to the server
    stdinOpen,  \* session -> its client has not closed that pipe
    stdout,     \* session -> lines in the pipe from the server
    heard,      \* history: session -> its handshake messages and tool runs
    executed    \* history: call -> how often its tool was run

serverVars == <<child, lifecycle, stdin, stdinOpen, stdout, heard, executed>>

Lifecycle == {"new", "initialize_responded", "ready"}
Null == 0   \* the id null

\* A line: asks says whether the message has an id.  "unreadable" stands for
\* a line that is too long, not UTF-8 or not JSON, "invalid" for JSON that is
\* no JSON-RPC 2.0 request, "other" for a method the server does not have.
Lines ==
    [method : {"unreadable", "invalid", "notifications/initialized", "initialize",
               "ping", "tools/list", "tools/call", "other"},
     asks : BOOLEAN, id : Nat, params : {"accepted", "refused"}, call : Calls \union {NoCall}]

Errors == {"parse error", "invalid request", "invalid params", "not initialized",
           "method not found", "tool failed"}
ToolAnswers == {"object", "not an object", "oversized"}
Replies == [id : Nat, body : Errors \union ToolAnswers \union {"result"},
            call : Calls \union {NoCall}]

ServerTypeOK ==
    /\ child \in [Sessions -> {"none", "running", "gone"}]
    /\ lifecycle \in [Sessions -> Lifecycle]
    /\ stdin \in [Sessions -> Seq(Lines)]
    /\ stdinOpen \in [Sessions -> BOOLEAN]
    /\ stdout \in [Sessions -> Seq(Replies)]
    /\ heard \in [Sessions -> Seq({"initialize", "initialized", "run"})]
    /\ executed \in [Calls -> Nat]

\* running: the sessions whose server is there from the start.
ServerInit(running) ==
    /\ child = [s \in Sessions |-> IF s \in running THEN "running" ELSE "none"]
    /\ lifecycle = [s \in Sessions |-> "new"]
    /\ stdin = [s \in Sessions |-> <<>>]
    /\ stdinOpen = [s \in Sessions |-> TRUE]
    /\ stdout = [s \in Sessions |-> <<>>]
    /\ heard = [s \in Sessions |-> <<>>]
    /\ executed = [c \in Calls |-> 0]

-----------------------------------------------------------------------------
Message(s) == Head(stdin[s])

\* The loop of serve_binary takes the next line.
Takes(s) ==
    /\ child[s] = "running"
    /\ stdin[s] # <<>>
    /\ stdin' = [stdin EXCEPT ![s] = Tail(@)]
    /\ UNCHANGED <<child, stdinOpen>>

Answer(s, id, body) ==
    stdout' = [stdout EXCEPT ![s] =
                 Append(@, [id |-> id, body |-> body, call |-> Message(s).call])]

Silent == UNCHANGED stdout
Untouched == UNCHANGED <<child, lifecycle, stdin, stdout, heard, executed>>
Hears(s, what) == heard' = [heard EXCEPT ![s] = Append(@, what)]
Unmoved == UNCHANGED <<lifecycle, heard, executed>>

Asked(s, methods) == Takes(s) /\ Message(s).asks /\ Message(s).method \in methods
Reply(s, body) == Answer(s, Message(s).id, body)

\* Nothing tells the sender which line could not be parsed.
RejectUnreadable(s) ==
    /\ Takes(s)
    /\ Message(s).method = "unreadable"
    /\ Answer(s, Null, "parse error")
    /\ Unmoved

\* Echoes the id of the message if it has a valid one.
RejectInvalid(s) ==
    /\ Takes(s)
    /\ Message(s).method = "invalid"
    /\ Reply(s, "invalid request")
    /\ Unmoved

\* Mutant of Initialized: the notification alone makes the session ready.
InitializedAtOnce(s) ==
    /\ Takes(s)
    /\ Message(s).method = "notifications/initialized" /\ ~Message(s).asks
    /\ lifecycle' = [lifecycle EXCEPT ![s] = "ready"]
    /\ Hears(s, "initialized")
    /\ Silent
    /\ UNCHANGED executed

Initialized(s) ==
    /\ Takes(s)
    /\ Message(s).method = "notifications/initialized" /\ ~Message(s).asks
    /\ lifecycle' = [lifecycle EXCEPT ![s] = IF @ = "initialize_responded" THEN "ready" ELSE @]
    /\ Hears(s, "initialized")
    /\ Silent
    /\ UNCHANGED executed

\* Any other notification, and a request sent as one, is dropped.
IgnoreNotification(s) ==
    /\ Takes(s)
    /\ ~Message(s).asks
    /\ Message(s).method \notin {"unreadable", "invalid", "notifications/initialized"}
    /\ Silent
    /\ Unmoved

Initialize(s) ==
    /\ Asked(s, {"initialize"})
    /\ lifecycle[s] = "new" /\ Message(s).params = "accepted"
    /\ lifecycle' = [lifecycle EXCEPT ![s] = "initialize_responded"]
    /\ Hears(s, "initialize")
    /\ Reply(s, "result")
    /\ UNCHANGED executed

RefuseInitialize(s) ==
    /\ Asked(s, {"initialize"})
    /\ \/ lifecycle[s] # "new" /\ Reply(s, "invalid request")
       \/ lifecycle[s] = "new" /\ Message(s).params = "refused" /\ Reply(s, "invalid params")
    /\ Unmoved

\* ping needs no handshake.
Ping(s) ==
    /\ Asked(s, {"ping"})
    /\ Reply(s, IF Message(s).params = "accepted" THEN "result" ELSE "invalid params")
    /\ Unmoved

TooEarly(s) ==
    /\ Asked(s, {"tools/list", "tools/call"})
    /\ lifecycle[s] # "ready"
    /\ Reply(s, "not initialized")
    /\ Unmoved

ListTools(s) ==
    /\ Asked(s, {"tools/list"})
    /\ lifecycle[s] = "ready"
    /\ Reply(s, IF Message(s).params = "accepted" THEN "result" ELSE "invalid params")
    /\ Unmoved

\* Arguments the tool does not declare are refused before anything is run;
\* once it runs, the tool returns a value, denies (-32602) or raises (-32603).
CallTool(s) ==
    /\ Asked(s, {"tools/call"})
    /\ lifecycle[s] = "ready"
    /\ IF Message(s).params = "accepted"
         THEN /\ executed' = [executed EXCEPT ![Message(s).call] = @ + 1]
              /\ Hears(s, "run")
              /\ \E body \in ToolAnswers \union {"tool failed"} : Reply(s, body)
              /\ UNCHANGED lifecycle
         ELSE Reply(s, "invalid params") /\ Unmoved

UnknownMethod(s) ==
    /\ Asked(s, {"other", "notifications/initialized"})
    /\ Reply(s, "method not found")
    /\ Unmoved

\* A process takes the lines it has not read with it.
Gone(s) ==
    /\ child' = [child EXCEPT ![s] = "gone"]
    /\ stdin' = [stdin EXCEPT ![s] = <<>>]
    /\ UNCHANGED <<lifecycle, stdinOpen, stdout>>

\* End of the input: the loop ends when the pipe is closed and drained.
ExitAtEof(s) ==
    /\ child[s] = "running" /\ stdin[s] = <<>> /\ ~stdinOpen[s]
    /\ Gone(s)
    /\ UNCHANGED <<heard, executed>>

\* The process dies while the tool runs: what it did is done, no answer comes.
DiesInTool(s) ==
    /\ child[s] = "running" /\ stdin[s] # <<>>
    /\ Message(s).method = "tools/call" /\ Message(s).asks /\ Message(s).params = "accepted"
    /\ lifecycle[s] = "ready"
    /\ Gone(s)
    /\ executed' = [executed EXCEPT ![Message(s).call] = @ + 1]
    /\ Hears(s, "run")

\* The process is killed, or crashes, between two messages.
Dies(s) ==
    /\ child[s] = "running"
    /\ Gone(s)
    /\ UNCHANGED <<heard, executed>>

HandleLine(s) ==
    \/ RejectUnreadable(s)
    \/ RejectInvalid(s)
    \/ Initialized(s)
    \/ IgnoreNotification(s)
    \/ Initialize(s)
    \/ RefuseInitialize(s)
    \/ Ping(s)
    \/ TooEarly(s)
    \/ ListTools(s)
    \/ CallTool(s)
    \/ UnknownMethod(s)

ServerStep(s) == HandleLine(s) \/ ExitAtEof(s) \/ DiesInTool(s) \/ Dies(s)

\* What the other side of the pipes may do.
Write(s, line) ==
    /\ stdin' = [stdin EXCEPT ![s] = Append(@, line)]
    /\ UNCHANGED <<child, lifecycle, stdinOpen, stdout, heard, executed>>

HangUp(s) == stdinOpen' = [stdinOpen EXCEPT ![s] = FALSE] /\ Untouched
=============================================================================
