--------------------------- MODULE MCConfigPlane ---------------------------
\* Two rules (one by hand, uncompilable in one draft), three words (one built
\* in), one canonical and one custom entity type, two profiles.
EXTENDS ConfigPlane

CONSTANTS r1, r2, bad, w0, w1, w2, lo, hi, pii, net

Nothing == [k \in {} |-> {}]
File(val) == [broken |-> FALSE, val |-> val]

MCTypeOf == [r \in {r1, r2, bad} |-> IF r = r1 THEN "MY_ID" ELSE "CUSTOM_KEYWORD"]
MCProfiles == {"balanced", "strict"}
MCThreshold == [balanced |-> hi, strict |-> lo]
MCCategories == [balanced |-> {pii}, strict |-> {pii, net}]

ProjectFile == File([rules |-> <<r2>>, allow |-> {w1}, broker |-> "rules"])
MCInitFiles == {[user |-> File([profile |-> "strict"]), project |-> ProjectFile,
                 local |-> File(Nothing)],
                [user |-> File(Nothing), project |-> File([MY_ID |-> "keep"]),
                 local |-> File([cats |-> {net}, secrets |-> "refs"])]}
MCDrafts == {[broken |-> TRUE, val |-> Nothing], ProjectFile,
             File([secrets |-> "inline", broker |-> "rules"]),
             File([rules |-> <<bad>>]), File([broker |-> "bad", enabled |-> FALSE])}
MCPatches == {[threshold |-> lo], [MY_ID |-> "token"], [allow |-> {w2}]}
Cmd(what, scope, key, value) ==
    [what |-> what, scope |-> scope, key |-> key, value |-> value]
MCCommands == {Cmd("set", "session", "enabled", TRUE),
               Cmd("set", "local", "enabled", FALSE),
               Cmd("set", "session", "ml", TRUE), Cmd("set", "project", "ml", TRUE),
               Cmd("set", "local", "ml", FALSE),
               Cmd("set", "session", "threshold", lo),
               Cmd("set", "session", "cats", net), Cmd("set", "local", "cats", net),
               Cmd("set", "user", "threshold", hi),
               Cmd("set", "project", "profile", "strict"),
               Cmd("set", "session", "MY_ID", "token"),
               Cmd("set", "local", "URL", "keep"), Cmd("clear", "local", "URL", "keep"),
               Cmd("clear", "session", "URL", "keep")}
=============================================================================
