--------------------------- MODULE MCConversations ---------------------------
(* Two parts that share no state here, checked in one run: the trust state *)
(* and routing of the conversations, and the monitor's index of them.      *)
(* Init picks the part that moves; the other rests in its initial state.   *)
EXTENDS MCZdrSessions, MonitorIndex

\* Bodies that grow, branch off, repeat, and name their conversation in every
\* way, over three texts and three tokens.
CONSTANTS e1, s1, none, blank, odd, ta, tb, tc, k1, k2, k3

Blk(kind, role, mark, text, toks) ==
    [kind |-> kind, role |-> role, mark |-> mark, text |-> text, tokens |-> toks]

A == Blk("message", "user", "plain", ta, {k1})
B == Blk("message", "assistant", "plain", tb, {k2})
C == Blk("tool_result", "user", "plain", tc, {k1, k3})
S == Blk("system", "none", "x-anthropic", tc, {k3})
R == Blk("message", "user", "claude_md", tb, {k2})
F == Blk("message", "user", "reminder", ta, {k1})
Z == Blk("message", "user", "blank", ta, {})

Body(id, session, blocks) == [id |-> id, session |-> session, blocks |-> blocks]

MCBodies == {Body(none, none, <<A>>), Body(none, none, <<A, B>>),
             Body(none, blank, <<S, A, C>>),
             Body(e1, none, <<A, R>>), Body(e1, s1, <<A, R, C>>),
             Body(odd, none, <<F, Z>>), Body(blank, s1, <<S, C>>)}
MCCaptured == {tb}

-----------------------------------------------------------------------------

VARIABLE part   \* the part that moves

conversationVars == <<part, zdrVars, indexVars>>

ConversationsInit == part \in {"zdr", "monitor"} /\ ZdrInit /\ IndexInit

ConversationsNext ==
    /\ UNCHANGED part
    /\ \/ part = "zdr" /\ ZdrNext /\ UNCHANGED indexVars
       \/ part = "monitor" /\ IndexNext /\ UNCHANGED zdrVars

ConversationsSpec == ConversationsInit /\ [][ConversationsNext]_conversationVars
=============================================================================
