----------------------------- MODULE ZdrSessions -----------------------------
(***************************************************************************)
(* The per-conversation ZDR selections of the proxy                        *)
(* (crates/sordino-proxy/src/state.rs): engaging and disengaging, the      *)
(* selections file, its re-validation at every boot, the reports a boot    *)
(* leaves for the hook, and the hook that narrates them                    *)
(* (consume_zdr_transitions of crates/sordino-hooks/src/main.rs).          *)
(*                                                                         *)
(* Engage and disengage run under SELECTIONS_WRITE_LOCK, so at most one of *)
(* them is in progress; requests take only the map's own lock and see the  *)
(* map between any two of their steps.  Files are replaced by rename, so a *)
(* write happens whole or not at all.                                      *)
(***************************************************************************)
EXTENDS Naturals, FiniteSets

CONSTANTS
    Conv,       \* conversation ids
    Target,     \* names of configured ZDR targets
    Nil,        \* no selection
    Absent,     \* the selections file does not exist
    Corrupt,    \* it cannot be read or parsed
    NoOp,       \* nobody holds SELECTIONS_WRITE_LOCK
    Cap,        \* MAX_PERSISTED_SELECTIONS
    MaxBoots,   \* bound: how many proxy processes are started
    ZdrFaults   \* which of the faults below may happen

\* "writefail":  a write of the selections file or its quarantine fails;
\* "reportfail": a write or removal in the reports directory fails;
\* "verify":     a target loses or regains user_verified between two boots;
\* "corrupt":    the selections file is damaged while no proxy runs;
\* "slowhook":   a boot overtakes a hook between its read and its claim of a report.
ASSUME ZdrFaultsAssumption ==
    ZdrFaults \subseteq {"writefail", "reportfail", "verify", "corrupt", "slowhook"}
ASSUME NilAssumption == Nil \notin Target
ASSUME BoundsAssumption == Cap \in Nat /\ MaxBoots \in Nat

Selections == [Conv -> Target \cup {Nil}]

ASSUME FileAssumption == Absent \notin Selections /\ Corrupt \notin Selections /\ Absent # Corrupt

VARIABLES
    stage,      \* of the proxy process: "down", "load", "quarantine", "entries", "up"
    verified,   \* the targets that are configured and user_verified in this process
    map,        \* zdr_sessions, the in-memory selections
    disk,       \* the selections file
    op,         \* the engage or disengage in progress
    todo,       \* boot: the conversations still to re-validate
    survivors,  \* boot: what the validated file will hold
    report,     \* the pending report file of each conversation
    sentinel,   \* epoch of the global Corrupt sentinel, 0 when there is none
    boots,      \* how many processes were started (the clock the epochs come from)
    hook,       \* per conversation, a prompt hook inside consume_zdr_transitions
    marker,     \* per conversation, the epoch in its .global-seen marker
    pinned,     \* history: the user has c pinned, and was not told otherwise since
    unheard     \* history: the conversations whose last word of a revert was destroyed

procVars == <<stage, verified, map, op, todo, survivors>>
fileVars == <<disk, report, sentinel, boots>>
hookVars == <<hook, marker, pinned, unheard>>
zdrVars == <<procVars, fileVars, hookVars>>

Empty == [c \in Conv |-> Nil]
Engaged(sel) == {c \in Conv : sel[c] # Nil}
Readable == disk # Absent /\ disk # Corrupt

Op == [kind : {"engage", "rollback"}, conv : Conv, prior : Target \cup {Nil}, entries : Selections]
      \cup [kind : {"clear", "remove"}, conv : Conv, prior : {Nil}, entries : Selections]

ASSUME NoOpAssumption == NoOp \notin Op

Stage == {"down", "load", "quarantine", "entries", "up"}

ZdrInit ==
    /\ stage = "down"
    /\ verified = {}
    /\ map = Empty
    /\ disk = Absent
    /\ op = NoOp
    /\ todo = {}
    /\ survivors = Empty
    /\ report = [c \in Conv |-> "none"]
    /\ sentinel = 0
    /\ boots = 0
    /\ hook = [c \in Conv |-> "idle"]
    /\ marker = [c \in Conv |-> 0]
    /\ pinned = [c \in Conv |-> FALSE]
    /\ unheard = {}

May(f) == f \in ZdrFaults

\* There is something that will tell the user of a revert of c: a report, a hook that has
\* read one, or a sentinel c's hook has not seen ...
ReportTells(c) == report[c] = "reverted" \/ hook[c] = "reverted"
SentinelTells(c) == sentinel # 0 /\ marker[c] # sentinel
TellsUser(c) == ReportTells(c) \/ SentinelTells(c)
\* ... or the next boot will look at c's selection, or at the damaged file, once more.
RetriedAtBoot(c) == IF Readable THEN disk[c] # Nil ELSE disk = Corrupt /\ stage # "up"

-----------------------------------------------------------------------------
\* Serving: resolve_pinned_mode, and the guards of the bare and the passthrough paths,
\* read the map once per request.  A pinned conversation is sent to its target or
\* refused; only an unpinned one goes to the default endpoint.
PinnedMode(c) ==
    IF map[c] = Nil THEN "normal"
    ELSE IF map[c] \in verified THEN "zdr" ELSE "refused"

\* Deviation: the snapshot is taken before the insert.
EngageStaleSnapshot(c, t) ==
    /\ stage = "up" /\ op = NoOp
    /\ t \in verified
    /\ map[c] # Nil \/ Cardinality(Engaged(map)) < Cap
    /\ map' = [map EXCEPT ![c] = t]
    /\ op' = [kind |-> "engage", conv |-> c, prior |-> map[c], entries |-> map]
    /\ UNCHANGED <<stage, verified, todo, survivors, fileVars, hookVars>>

\* zdr_set and the first half of set_zdr_selection: refuse an unverified target and a new
\* conversation past the cap; else insert and snapshot.
Engage(c, t) ==
    /\ stage = "up" /\ op = NoOp
    /\ t \in verified
    /\ map[c] # Nil \/ Cardinality(Engaged(map)) < Cap
    /\ map' = [map EXCEPT ![c] = t]
    /\ op' = [kind |-> "engage", conv |-> c, prior |-> map[c],
              entries |-> [map EXCEPT ![c] = t]]
    /\ UNCHANGED <<stage, verified, todo, survivors, fileVars, hookVars>>

\* The selections kept on disk only, for the next boot to report, that a write of the map
\* leaves out.
Overwritten ==
    {c \in Conv : pinned[c] /\ ~TellsUser(c) /\ RetriedAtBoot(c) /\ op.entries[c] = Nil}

\* set_zdr_selection: the durable write.
EngageWrite ==
    /\ op # NoOp /\ op.kind = "engage"
    /\ \/ /\ disk' = op.entries
          /\ op' = NoOp
          /\ pinned' = [pinned EXCEPT ![op.conv] = TRUE]
          /\ unheard' = (unheard \cup Overwritten) \ {op.conv}
       \/ /\ May("writefail")
          /\ op' = [op EXCEPT !.kind = "rollback"]
          /\ UNCHANGED <<disk, pinned, unheard>>
    /\ UNCHANGED <<stage, verified, map, todo, survivors, report, sentinel, boots, hook, marker>>

\* Deviation: a failed write removes the conversation, whatever was there before.
RollbackRemoves ==
    /\ op # NoOp /\ op.kind = "rollback"
    /\ map' = [map EXCEPT ![op.conv] = Nil]
    /\ op' = NoOp
    /\ UNCHANGED <<stage, verified, todo, survivors, fileVars, hookVars>>

\* set_zdr_selection: a failed write puts back what was there before.
EngageRollback ==
    /\ op # NoOp /\ op.kind = "rollback"
    /\ map' = [map EXCEPT ![op.conv] = op.prior]
    /\ op' = NoOp
    /\ UNCHANGED <<stage, verified, todo, survivors, fileVars, hookVars>>

\* Deviation: disengage mutates the map first, as engage does.
DisengageMapFirst(c) ==
    /\ stage = "up" /\ op = NoOp
    /\ map' = [map EXCEPT ![c] = Nil]
    /\ op' = [kind |-> "clear", conv |-> c, prior |-> Nil, entries |-> [map EXCEPT ![c] = Nil]]
    /\ UNCHANGED <<stage, verified, todo, survivors, fileVars, hookVars>>

\* clear_zdr_selection: (1) snapshot without the conversation, the map left alone.
Disengage(c) ==
    /\ stage = "up" /\ op = NoOp
    /\ op' = [kind |-> "clear", conv |-> c, prior |-> Nil, entries |-> [map EXCEPT ![c] = Nil]]
    /\ UNCHANGED <<stage, verified, map, todo, survivors, fileVars, hookVars>>

\* (2) write first; when that fails nothing has changed.
DisengageWrite ==
    /\ op # NoOp /\ op.kind = "clear"
    /\ \/ /\ disk' = op.entries
          /\ op' = [op EXCEPT !.kind = "remove"]
          /\ pinned' = [pinned EXCEPT ![op.conv] = FALSE]
          /\ unheard' = unheard \cup Overwritten
       \/ /\ May("writefail")
          /\ op' = NoOp
          /\ UNCHANGED <<disk, pinned, unheard>>
    /\ UNCHANGED <<stage, verified, map, todo, survivors, report, sentinel, boots, hook, marker>>

\* (3) only now drop the entry from the map.
DisengageRemove ==
    /\ op # NoOp /\ op.kind = "remove"
    /\ map' = [map EXCEPT ![op.conv] = Nil]
    /\ op' = NoOp
    /\ UNCHANGED <<stage, verified, todo, survivors, fileVars, hookVars>>

-----------------------------------------------------------------------------
\* Boot.  A new process resolves its targets and starts with an empty map.
Start ==
    /\ stage = "down" /\ boots < MaxBoots
    /\ boots' = boots + 1
    /\ verified' \in (IF May("verify") THEN SUBSET Target ELSE {Target})
    /\ stage' = "load"
    /\ UNCHANGED <<map, op, todo, survivors, disk, report, sentinel, hookVars>>

\* clear_global_revert: best effort, and whoever has seen the sentinel.
ClearSentinel ==
    \/ /\ sentinel' = 0
       /\ unheard' = unheard \cup
            {c \in Conv : pinned[c] /\ SentinelTells(c) /\ ~ReportTells(c) /\ ~RetriedAtBoot(c)}
    \/ May("reportfail") /\ UNCHANGED <<sentinel, unheard>>

\* load_persisted_selections, and reload_zdr_sessions up to its loop.
LoadAbsent ==
    /\ stage = "load" /\ disk = Absent
    /\ ClearSentinel
    /\ stage' = "up"
    /\ UNCHANGED <<verified, map, op, todo, survivors, disk, report, boots, hook, marker, pinned>>

\* The one boot-fatal write: without the sentinel the proxy does not serve.
LoadCorrupt ==
    /\ stage = "load" /\ disk = Corrupt
    /\ \/ sentinel' = boots /\ stage' = "quarantine"
       \/ May("reportfail") /\ stage' = "down" /\ UNCHANGED sentinel
    /\ UNCHANGED <<verified, map, op, todo, survivors, disk, report, boots, hookVars>>

Quarantine ==
    /\ stage = "quarantine"
    /\ disk' = Absent \/ (May("writefail") /\ UNCHANGED disk)
    /\ stage' = "up"
    /\ UNCHANGED <<verified, map, op, todo, survivors, report, sentinel, boots, hookVars>>

LoadFile ==
    /\ stage = "load" /\ Readable
    /\ ClearSentinel
    /\ todo' = Engaged(disk)
    /\ stage' = "entries"
    /\ UNCHANGED <<verified, map, op, survivors, disk, report, boots, hook, marker, pinned>>

\* Deviation: only restored selections are reported.
RevalidateQuietly(c) ==
    /\ stage = "entries" /\ c \in todo
    /\ todo' = todo \ {c}
    /\ IF disk[c] \in verified
       THEN /\ report' = [report EXCEPT ![c] = "restored"]
            /\ map' = [map EXCEPT ![c] = disk[c]]
            /\ survivors' = [survivors EXCEPT ![c] = disk[c]]
       ELSE UNCHANGED <<report, map, survivors>>
    /\ UNCHANGED <<stage, verified, op, disk, sentinel, boots, hookVars>>

\* One turn of the loop: restore a selection whose target is still verified, revert any
\* other, and report; a revert that cannot be reported stays in the file.
Revalidate(c) ==
    /\ stage = "entries" /\ c \in todo
    /\ May("slowhook") \/ hook[c] \in {"idle", "global"}
    /\ todo' = todo \ {c}
    /\ LET restore == disk[c] \in verified
       IN \/ /\ report' = [report EXCEPT ![c] = IF restore THEN "restored" ELSE "reverted"]
             /\ map' = IF restore THEN [map EXCEPT ![c] = disk[c]] ELSE map
             /\ survivors' = IF restore THEN [survivors EXCEPT ![c] = disk[c]] ELSE survivors
          \/ /\ May("reportfail")
             /\ map' = IF restore THEN [map EXCEPT ![c] = disk[c]] ELSE map
             /\ survivors' = [survivors EXCEPT ![c] = disk[c]]
             /\ UNCHANGED report
    /\ UNCHANGED <<stage, verified, op, disk, sentinel, boots, hookVars>>

\* The validated set is written back, best effort; then the port is published and served.
Rewrite ==
    /\ stage = "entries" /\ todo = {}
    /\ disk' = survivors \/ (May("writefail") /\ UNCHANGED disk)
    /\ survivors' = Empty
    /\ stage' = "up"
    /\ UNCHANGED <<verified, map, op, todo, report, sentinel, boots, hookVars>>

\* The process ends, at any point: a recycle, a crash, a failed boot.
Stop ==
    /\ stage # "down"
    /\ stage' = "down"
    /\ map' = Empty /\ op' = NoOp /\ todo' = {} /\ survivors' = Empty
    /\ UNCHANGED <<verified, fileVars, hookVars>>

\* The file is damaged or becomes unreadable between two processes.
Damage ==
    /\ May("corrupt")
    /\ stage = "down" /\ disk # Corrupt
    /\ disk' = Corrupt
    /\ UNCHANGED <<procVars, report, sentinel, boots, hookVars>>

-----------------------------------------------------------------------------
\* The hook: consume_zdr_transitions on a prompt in conversation c.

\* Source 1: read and parse the pending report ...
ConsumeRead(c) ==
    /\ hook[c] = "idle"
    /\ report[c] # "none" \/ sentinel # 0
    /\ hook' = [hook EXCEPT ![c] = IF report[c] = "none" THEN "global" ELSE report[c]]
    /\ UNCHANGED <<procVars, fileVars, marker, pinned, unheard>>

\* ... then remove_file claims it, and what was read is narrated.
ConsumeClaim(c) ==
    /\ hook[c] \in {"restored", "reverted"}
    /\ report' = [report EXCEPT ![c] = "none"]
    /\ pinned' = [pinned EXCEPT ![c] = @ /\ hook[c] # "reverted"]
    /\ unheard' = unheard \cup IF hook[c] = "restored" /\ report[c] = "reverted" THEN {c} ELSE {}
    /\ hook' = [hook EXCEPT ![c] = "global"]
    /\ UNCHANGED <<procVars, disk, sentinel, boots, marker>>

\* Source 2: the sentinel is never removed; its epoch is narrated once per conversation.
ConsumeGlobal(c) ==
    /\ hook[c] = "global"
    /\ IF sentinel # 0 /\ marker[c] # sentinel
       THEN /\ marker' = [marker EXCEPT ![c] = sentinel]
            /\ pinned' = [pinned EXCEPT ![c] = FALSE]
       ELSE UNCHANGED <<marker, pinned>>
    /\ hook' = [hook EXCEPT ![c] = "idle"]
    /\ UNCHANGED <<procVars, fileVars, unheard>>

-----------------------------------------------------------------------------
ProxyStep ==
    \/ EngageWrite \/ EngageRollback \/ DisengageWrite \/ DisengageRemove
    \/ LoadAbsent \/ LoadCorrupt \/ Quarantine \/ LoadFile \/ Rewrite
    \/ \E c \in Conv : Revalidate(c)

HookStep(c) == ConsumeRead(c) \/ ConsumeClaim(c) \/ ConsumeGlobal(c)

ZdrNext ==
    \/ ProxyStep \/ Start \/ Stop \/ Damage
    \/ \E c \in Conv : Disengage(c) \/ HookStep(c) \/ \E t \in Target : Engage(c, t)

ZdrSpec == ZdrInit /\ [][ZdrNext]_zdrVars

-----------------------------------------------------------------------------
ZdrTypeOK ==
    /\ stage \in Stage
    /\ verified \subseteq Target
    /\ map \in Selections
    /\ disk \in Selections \cup {Absent, Corrupt}
    /\ op \in Op \cup {NoOp}
    /\ todo \subseteq Conv
    /\ survivors \in Selections
    /\ report \in [Conv -> {"none", "restored", "reverted"}]
    /\ sentinel \in Nat
    /\ boots \in Nat
    /\ hook \in [Conv -> {"idle", "restored", "reverted", "global"}]
    /\ marker \in [Conv -> Nat]
    /\ pinned \in [Conv -> BOOLEAN]
    /\ unheard \subseteq Conv

\* The file holds a selection of c that a boot with these targets would restore.
Durable(c) == Readable /\ disk[c] \in verified

\* clear_zdr_selection: "There is NO window where a still-durably-pinned conversation
\* routes Normal", nor in an engage, its rollback or a boot: at every moment requests are
\* served, a conversation with a valid selection on disk does not reach the default endpoint.
NoDowngrade ==
    stage = "up" => \A c \in Conv : Durable(c) => PinnedMode(c) # "normal"

\* set_zdr_selection: "The in-memory map and the on-disk file never diverge": whenever no
\* engage or disengage is in progress, after any failed writes and any reload, the map is
\* exactly the valid part of the file.
AgreeWhenQuiet ==
    stage = "up" /\ op = NoOp =>
        \A c \in Conv : map[c] = IF Durable(c) THEN disk[c] ELSE Nil

\* set_zdr_selection: "the in-memory insert is ROLLED BACK" to "the EXACT pre-engage
\* state": while an engage or a disengage is in progress the file still is, or already
\* holds, what the map will be afterwards.
OpIsRecoverable ==
    op # NoOp =>
        /\ stage = "up"
        /\ op.kind \in {"engage", "rollback"} =>
              /\ map[op.conv] \in verified /\ op.entries = map
              /\ op.prior = IF Durable(op.conv) THEN disk[op.conv] ELSE Nil
        /\ op.kind \in {"clear", "remove"} => op.entries = [map EXCEPT ![op.conv] = Nil]
        /\ op.kind = "remove" => disk = op.entries
        /\ \A c \in Conv : c # op.conv => map[c] = IF Durable(c) THEN disk[c] ELSE Nil
        /\ op.kind = "clear" => map[op.conv] = IF Durable(op.conv) THEN disk[op.conv] ELSE Nil

\* reload_zdr_sessions: "in-memory map and `<conv>.json` report always agree": part way
\* through a boot exactly the entries already looked at, and still valid, are in the map
\* and will survive the rewrite; before that both are empty.
BootIsFaithful ==
    stage # "up" =>
        /\ op = NoOp
        /\ stage # "entries" => map = Empty /\ survivors = Empty
        /\ stage = "quarantine" => disk = Corrupt
        /\ stage = "entries" =>
              /\ Readable
              /\ \A c \in todo : map[c] = Nil /\ survivors[c] = Nil
              /\ \A c \in Conv \ todo :
                    /\ map[c] = IF disk[c] \in verified THEN disk[c] ELSE Nil
                    /\ survivors[c] \in {disk[c], Nil}
                    /\ disk[c] \in verified => survivors[c] = disk[c]

\* MAX_PERSISTED_SELECTIONS: the map never outgrows the cap, reloads included.
WithinCap == Cardinality(Engaged(map)) <= Cap

\* The routing state as its file operations leave it: well-typed, recoverable in
\* the middle of every operation and of a boot, and within the cap
\* (set_zdr_selection, reload_zdr_sessions).
ZdrSound ==
    /\ ZdrTypeOK
    /\ OpIsRecoverable
    /\ BootIsFaithful
    /\ WithinCap

\* reload_zdr_sessions and consume_zdr_transitions: a conversation the user believes to be
\* pinned is on disk for the next boot to look at, or something is left that will tell the
\* user that it is not.  Under every fault there are three ways to lose the word, and no
\* other: a clean boot clears a sentinel that the conversation's hook has not seen, a write
\* of the map overwrites an entry kept for the next boot to report, and a hook that read an
\* older report removes one it has not read (unheard).
NoSilentRevert ==
    \A c \in Conv : pinned[c] => TellsUser(c) \/ RetriedAtBoot(c) \/ c \in unheard

\* consume_zdr_transitions: "NEVER delete it -- other conversations still need to see it";
\* reload_zdr_sessions: a revert is "eventually-visible instead of permanently-silent".
\* The same without the three ways.
RevertIsTold == \A c \in Conv : pinned[c] => TellsUser(c) \/ RetriedAtBoot(c)
=============================================================================
