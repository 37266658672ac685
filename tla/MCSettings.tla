----------------------------- MODULE MCSettings -----------------------------
EXTENDS Settings
Lists(r, n) == [rules |-> r, notes |-> n]
Array(e) == [kind |-> "array", e |-> e]
Bad == [kind |-> "malformed", e |-> {}]
MCLocal ==
    {NoFile} \cup
    {[NoFile EXCEPT !.st = "ok", !.line = l, !.url = u, !.lists = Lists(r, n)] :
        l \in {"none", "u1"}, u \in {0, UserUrl},
        r \in {NoList, Array({"user"}), Bad},
        n \in {NoList, Array({}), Array({"user"}), Array({"$defaults", "user"})}}
MCCommitted ==
    {NoFile, [NoFile EXCEPT !.st = "bad"],
     [NoFile EXCEPT !.st = "ok", !.url = UserUrl, !.line = "u2"],
     [NoFile EXCEPT !.st = "ok", !.url = 1, !.port = 1, !.line = "ours",
                    !.lists = Lists(Array({"user", "ours"}), NoList)]}
=============================================================================
