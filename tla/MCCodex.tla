------------------------------- MODULE MCCodex -------------------------------
EXTENDS Codex
Both(ev) == [e \in CodexEvents |-> ev]
Inline(hooks) == [shape |-> "inline", groups |-> {Group("array", hooks)}]
Tables(gs) == [shape |-> "tables", groups |-> gs]
MCDocs ==
    {NoDoc, [NoDoc EXCEPT !.st = "bad"],
     [NoDoc EXCEPT !.st = "ok", !.sel = "acme", !.hooks = Both(Inline({UserHook}))],
     [NoDoc EXCEPT !.st = "ok", !.sel = "us",
        !.block = [owner |-> "user", port |-> 99, sealed |-> TRUE, prior |-> "none"]],
     \* an older version of the plugin, its hook beside the user's
     [NoDoc EXCEPT !.st = "ok", !.sel = "acme",
        !.hooks = [Both(Tables({Group("array", {UserHook, 1})}))
                     EXCEPT !["SessionStart"] = Tables({Group("tables", {UserHook})})]]}
=============================================================================
