------------------------------ MODULE Settings ------------------------------
(***************************************************************************)
(* /sordino:enable and /sordino:uninstall on a project's two Claude Code   *)
(* settings files (sordino-hooks main.rs: settings_enable,                 *)
(* settings_disable_at, strip_routing_from and the list merges): what is   *)
(* ours goes in, what is the user's stays, and uninstall takes ours out    *)
(* again, although a write may fail or the process die between two files.  *)
(*                                                                         *)
(* A file is the part of its JSON that the code reads or writes.  A URL is *)
(* the number of its loopback port, UserUrl for any other address, 0 when  *)
(* absent.  The arrays of permissions (deny, ask) are the list "rules",    *)
(* those of autoMode (environment, soft_deny) the list "notes".            *)
(***************************************************************************)
EXTENDS Naturals, FiniteSets

CONSTANTS BakePorts,      \* ports of our proxy over time, numbers above 0
          Lines,          \* status lines of the user
          LocalFiles,     \* what settings.local.json may hold at first
          CommittedFiles, \* what settings.json may hold at first
          MaxEdits        \* bound on hand edits, failed writes and crashes

VARIABLES settings,    \* "local" and "committed" -> file
          sidecar,  \* the saved status line, "none" if there is no sidecar
          job,       \* the command that runs
          edits,
          mine      \* history: the user's own line, lists and base URLs,
                    \* whether an enable failed between its two files (torn)
                    \* or wrote its route over a local base URL (over)

setVars == <<settings, sidecar, job, edits, mine>>

UserUrl == 99
Names == {"local", "committed"}

NoList == [kind |-> "none", e |-> {}]
NoFile == [st |-> "absent", url |-> 0, port |-> 0, line |-> "none",
           lists |-> [l \in {"rules", "notes"} |-> NoList]]

Idle == [at |-> "idle", port |-> 0, line |-> "none", v |-> NoFile,
         changed |-> FALSE, last |-> "none", had |-> FALSE]

-----------------------------------------------------------------------------
\* Ownership.

IsOurUrl(f) == f.url # 0 /\ f.url # UserUrl /\ f.url = f.port

AnyEntry(f) == \E l \in DOMAIN f.lists : "ours" \in f.lists[l].e

Wired(f) == \/ IsOurUrl(f) \/ f.port # 0 \/ f.line = "ours" \/ AnyEntry(f)

\* project_baked_route: the local file first.
BakedRoute == IF IsOurUrl(settings["local"]) THEN settings["local"].port
              ELSE IF IsOurUrl(settings["committed"])
                   THEN settings["committed"].port ELSE 0

\* effective_user_statusline: "none" when the line in force is ours.
EffectiveLine == IF settings["local"].line # "none" THEN settings["local"].line
                 ELSE settings["committed"].line
UserLine == IF EffectiveLine = "ours" THEN "none" ELSE EffectiveLine

\* A file as it is read: a list is none, an array or malformed JSON.
SettingsEntries == {"ours", "$defaults"} \cup
    UNION {f.lists[l].e : f \in LocalFiles \cup CommittedFiles, l \in {"rules", "notes"}}
SettingsList == [kind : {"none", "array", "malformed"}, e : SUBSET SettingsEntries]
SettingsFile == [st : {"absent", "ok", "bad"}, url : Nat, port : Nat,
                 line : Lines \cup {"none", "ours"},
                 lists : [{"rules", "notes"} -> SettingsList]]

\* At first nothing of ours is in the local file; an older install may be in the
\* committed one, and it, too, added its notes to the user's or to the defaults.
ASSUME SettingsAssumption ==
    /\ BakePorts \subseteq Nat \ {0, UserUrl} /\ MaxEdits \in Nat
    /\ Lines \cap {"none", "ours"} = {}
    /\ LocalFiles \cup CommittedFiles \subseteq SettingsFile
    /\ \A f \in LocalFiles : ~Wired(f)
    /\ \A f \in CommittedFiles : f.lists["notes"].e # {"ours"}

-----------------------------------------------------------------------------
\* The merges.  An absent or empty "notes" array means Claude Code's built-in
\* entries, so it is seeded with "$defaults" before ours is appended.

MergeRules(x) == [kind |-> "array", e |-> x.e \cup {"ours"}]

MergeNotes(x) ==
    [kind |-> "array",
     e |-> (IF x.e = {} THEN {"$defaults"} ELSE x.e) \cup {"ours"}]

Mergeable(f) == \A l \in DOMAIN f.lists : f.lists[l].kind # "malformed"

RemoveRules(x) == LET rest == x.e \ {"ours"}
                  IN IF rest = {} /\ x.kind = "array" THEN NoList
                     ELSE [x EXCEPT !.e = rest]

RemoveNotes(x) == LET rest == x.e \ {"ours"}
                  IN IF rest # x.e /\ rest \subseteq {"$defaults"} THEN NoList
                     ELSE [x EXCEPT !.e = rest]

\* strip_routing_from on a wired file: our env keys, our line, our entries.
Stripped(f, restore) ==
    [f EXCEPT !.url = IF IsOurUrl(f) THEN 0 ELSE @,
              !.port = 0,
              !.line = IF @ = "ours" THEN restore ELSE @,
              !.lists = [rules |-> RemoveRules(@["rules"]),
                         notes |-> RemoveNotes(@["notes"])]]

Enabled(f, p) ==
    [f EXCEPT !.st = "ok", !.url = p, !.port = p, !.line = "ours",
              !.lists = [rules |-> MergeRules(@["rules"]),
                         notes |-> MergeNotes(@["notes"])]]

-----------------------------------------------------------------------------
SettingsInit ==
    \E l \in LocalFiles, c \in CommittedFiles :
       /\ settings = [n \in Names |-> IF n = "local" THEN l ELSE c]
       \* an install of an older version kept the user's line in the sidecar
       /\ sidecar \in IF c.line = "ours" THEN Lines ELSE {"none"}
       /\ job = Idle /\ edits = 0
       /\ mine = [line |-> IF l.line # "none" THEN l.line
                           ELSE IF sidecar # "none" THEN sidecar ELSE c.line,
                  lists |-> [n \in Names |->
                               [k \in {"rules", "notes"} |->
                                   settings[n].lists[k].e \ {"ours"}]],
                  urls |-> {n \in Names : settings[n].url = UserUrl},
                  over |-> FALSE, torn |-> FALSE]

End(result) == job' = [Idle EXCEPT !.last = result, !.had = job.had]

\* settings_enable: load both files, or refuse.
EnableLoad(p) ==
    /\ job.at = "idle"
    /\ IF \E n \in Names : settings[n].st = "bad"
       THEN job' = [Idle EXCEPT !.last = "failed", !.had = BakedRoute # 0]
       ELSE job' = [Idle EXCEPT !.at = "sidecar", !.port = p, !.line = UserLine,
                               !.v = settings["local"], !.had = BakedRoute # 0]
    /\ UNCHANGED <<settings, sidecar, edits, mine>>

EnableSidecar == /\ job.at = "sidecar"
                 /\ sidecar' = IF job.line = "none" THEN sidecar ELSE job.line
                 /\ job' = [job EXCEPT !.at = "migrate"]
                 /\ UNCHANGED <<settings, edits, mine>>

\* An older install wrote into the committed file: strip ours, restore nothing.
EnableMigrate ==
    /\ job.at = "migrate"
    /\ settings' = IF Wired(settings["committed"])
                THEN [settings EXCEPT !["committed"] = Stripped(@, "none")]
                ELSE settings
    /\ job' = [job EXCEPT !.at = "write"]
    /\ UNCHANGED <<sidecar, edits, mine>>

\* The merges refuse a malformed list; else the loaded file is written back.
EnableWrite ==
    /\ job.at = "write"
    /\ IF Mergeable(job.v)
       THEN settings' = [settings EXCEPT !["local"] = Enabled(job.v, job.port)]
            /\ End("enabled") /\ mine' = [mine EXCEPT !.over = TRUE]
       ELSE End("failed") /\ UNCHANGED settings /\ mine' = [mine EXCEPT !.torn = TRUE]
    /\ UNCHANGED <<sidecar, edits>>

\* settings_disable_at: strip both files, restoring the line into the first
\* that holds ours, and drop the sidecar when anything changed.
DisableLoad == /\ job.at = "idle"
               /\ job' = [Idle EXCEPT !.at = "local", !.line = sidecar]
               /\ UNCHANGED <<settings, sidecar, edits, mine>>

\* Deviation: the first file that is looked at is the only one.
AfterFirst(n) == "drop"

AfterFile(n) == IF n = "local" THEN "committed" ELSE "drop"

DisableFile(n) ==
    /\ job.at = n
    /\ IF settings[n].st = "bad" THEN End("failed") /\ UNCHANGED settings
       ELSE LET f == settings[n]
                after == AfterFile(n)
            IN IF Wired(f)
               THEN /\ settings' = [settings EXCEPT ![n] = Stripped(f, job.line)]
                    /\ job' = [job EXCEPT !.at = after, !.changed = TRUE,
                              !.line = IF f.line = "ours" THEN "none" ELSE @]
               ELSE job' = [job EXCEPT !.at = after] /\ UNCHANGED settings
    /\ UNCHANGED <<sidecar, edits, mine>>

DisableDrop == /\ job.at = "drop"
               /\ sidecar' = IF job.changed THEN "none" ELSE sidecar
               /\ End("disabled")
               /\ UNCHANGED <<settings, edits, mine>>

\* A write fails (the file keeps its old content) or the process dies.
Interrupted == /\ job.at # "idle" /\ edits < MaxEdits /\ edits' = edits + 1
               /\ End("interrupted")
               /\ mine' = [mine EXCEPT !.torn = @ \/ job.at = "write"]
               /\ UNCHANGED <<settings, sidecar>>

\* The user edits settings.local.json by hand.
HandLine(l) == /\ job.at = "idle" /\ edits < MaxEdits /\ edits' = edits + 1
               /\ settings["local"].st = "ok"
               /\ settings' = [settings EXCEPT !["local"].line = l]
               /\ mine' = [mine EXCEPT !.line = l]
               /\ job' = Idle
               /\ UNCHANGED sidecar

HandUrl == /\ job.at = "idle" /\ edits < MaxEdits /\ edits' = edits + 1
           /\ settings["local"].st = "ok"
           /\ settings' = [settings EXCEPT !["local"].url = UserUrl]
           /\ mine' = [mine EXCEPT !.urls = @ \cup {"local"}, !.over = FALSE]
           /\ job' = Idle
           /\ UNCHANGED sidecar

HandUnroute == /\ job.at = "idle" /\ edits < MaxEdits /\ edits' = edits + 1
               /\ IsOurUrl(settings["local"])
               /\ settings' = [settings EXCEPT !["local"].url = 0, !["local"].port = 0]
               /\ job' = Idle
               /\ UNCHANGED <<sidecar, mine>>

HandMend(n) == /\ job.at = "idle" /\ settings[n].st = "bad"
               /\ settings' = [settings EXCEPT ![n].st = "ok"]
               /\ job' = Idle
               /\ UNCHANGED <<sidecar, edits, mine>>

SettingsNext ==
    \/ \E p \in BakePorts : EnableLoad(p)
    \/ EnableSidecar \/ EnableMigrate \/ EnableWrite
    \/ DisableLoad \/ DisableDrop \/ Interrupted \/ HandUnroute \/ HandUrl
    \/ \E n \in Names : DisableFile(n) \/ HandMend(n)
    \/ \E l \in Lines : HandLine(l)

SettingsSpec == SettingsInit /\ [][SettingsNext]_setVars

-----------------------------------------------------------------------------
\* Properties.

\* "We must never clobber": the user's status line is at every moment, also
\* after a crash, in a settings file or in the sidecar.
LineKept == mine.line # "none" =>
               mine.line \in {settings["local"].line, settings["committed"].line,
                              sidecar}

\* The merges append to the user's permission rules and notes and the strips
\* remove only ours (merge_permission_rules ... remove_automode_entries).
EntriesKept ==
    \A n \in Names, k \in {"rules", "notes"} :
       mine.lists[n][k] \ {"$defaults"} \subseteq settings[n].lists[k].e

\* merge_automode_entries, "never drop Claude Code's built-in entries": the
\* built-ins are in force exactly when the user's own list leaves them so.
Builtin(e) == e = {} \/ "$defaults" \in e
DefaultsKept ==
    \A n \in Names :
       Builtin(settings[n].lists["notes"].e) = Builtin(mine.lists[n]["notes"])

\* strip_routing_from, "we only remove it when its VALUE is provably ours": a
\* base URL of the user's stays in its file, also when it was set by hand over
\* our route.  The one exception is enable itself, which writes its route over
\* the URL that settings.local.json holds, and saves it nowhere.
UrlKept == \A n \in mine.urls :
              settings[n].url = UserUrl \/ (n = "local" /\ mine.over)

\* "disable is a true inverse" said of the base URL, which does NOT hold: a URL
\* that enable wrote over is not given back (settings_enable, strip_routing_from).
UrlIsRestored ==
    job.at = "idle" /\ job.last = "disabled" =>
       \A n \in mine.urls : settings[n].url = UserUrl

\* A finished uninstall leaves nothing of ours in either file and the user's
\* status line in force (strip_routing_from, settings_disable_at), unless an
\* enable failed between stripping one file and writing the other.
DisableIsInverse ==
    job.at = "idle" /\ job.last = "disabled" =>
       /\ \A n \in Names : ~Wired(settings[n])
       /\ EffectiveLine = mine.line \/ mine.torn

\* A finished enable routes the project from the local file alone, sealed.
EnableIsComplete ==
    job.at = "idle" /\ job.last = "enabled" =>
       /\ IsOurUrl(settings["local"]) /\ ~Wired(settings["committed"])
       /\ \A k \in {"rules", "notes"} : "ours" \in settings["local"].lists[k].e

\* The user's settings under enable, disable, hand edits and cut writes, in any
\* order: the user's status line, rules and notes are never lost, and of the base
\* URLs only the local one an enable wrote over; a disable leaves nothing of ours
\* and gives the line back, but not that URL (UrlIsRestored); a finished enable
\* leaves one route (settings_enable, settings_disable_at).
SettingsKept ==
    /\ LineKept
    /\ EntriesKept
    /\ DefaultsKept
    /\ UrlKept
    /\ DisableIsInverse
    /\ EnableIsComplete

\* session_start: "we NEVER strip a route a project still intends".  No enable
\* that fails by itself leaves a routed project without a route.
IntendedRouteKept ==
    job.at = "idle" /\ job.last = "failed" /\ job.had => BakedRoute # 0
=============================================================================
