----------------------------- MODULE MCRequest -----------------------------
(* Two parts that share no state here, checked in one run: a request on    *)
(* the routes of the proxy, and session starts that launch that proxy.     *)
(* Init picks the part that moves; the other rests.                        *)
EXTENDS Request, MCLaunch

\* One conversation, a verified, an unverified and a forgotten target, and one
\* request shape per case the routes tell apart.
S(kind, url, header, pii, secret, path) ==
    [kind |-> kind, url |-> url, header |-> header, pii |-> pii,
     secret |-> secret, path |-> path]

MCShapes ==
    LET c == CHOOSE d \in Conv : TRUE IN
    {S("messages", c, NoConv, TRUE, "leaf", "plain"),
     S("messages", c, NoConv, FALSE, "carve_out", "plain"),
     S("messages", NoConv, c, TRUE, "header", "plain"),
     S("messages", NoConv, NoConv, TRUE, "none", "plain"),
     S("count_tokens", c, NoConv, TRUE, "header", "plain"),
     S("chat", c, NoConv, TRUE, "leaf", "plain"),
     S("responses", NoConv, c, TRUE, "carve_out", "plain"),
     S("verbatim", c, NoConv, TRUE, "path", "plain"),
     S("verbatim", c, NoConv, FALSE, "none", "batches"),
     S("verbatim", c, NoConv, FALSE, "none", "traversal"),
     S("verbatim", NoConv, c, FALSE, "leaf", "plain"),
     S("verbatim", NoConv, NoConv, FALSE, "header", "plain")}

-----------------------------------------------------------------------------

VARIABLE part   \* the part that moves

routesVars == <<part, reqVars, launchVars>>

RequestRests == pin = [d \in Conv |-> NoTarget] /\ RequestInit

RoutesInit ==
    \/ part = "request" /\ RequestInit /\ LaunchRests
    \/ part = "launch" /\ RequestRests /\ LaunchInit

RoutesNext ==
    /\ UNCHANGED part
    /\ \/ part = "request" /\ RequestNext /\ UNCHANGED launchVars
       \/ part = "launch" /\ LaunchNext /\ UNCHANGED reqVars

RoutesSpec == RoutesInit /\ [][RoutesNext]_routesVars
=============================================================================
