--------------------------- MODULE MCAdapterHost ---------------------------
(* Instances of AdapterHost for TLC.                                       *)
EXTENDS AdapterHost

CONSTANTS c1, c2

\* Both calls go to the downstream that is started last: the read of its
\* state and the target call share its client.
MCConfigs == {[downstreams |-> n, server |-> [c \in Calls |-> n]] : n \in {1, 2}}

Line(method, asks, params) ==
    [method |-> method, asks |-> asks, id |-> IF asks THEN 1 ELSE Null, params |-> params,
     call |-> IF method = "tools/call" THEN c1 ELSE NoCall]

MCAgentLines ==
    {Line(m, TRUE, "accepted") : m \in {"unreadable", "invalid", "initialize", "ping", "tools/list",
                                        "tools/call", "other"}} \union
    {Line(m, TRUE, "refused") : m \in {"initialize", "tools/call"}} \union
    {Line(m, FALSE, "accepted") : m \in {"notifications/initialized", "tools/call"}}
=============================================================================
