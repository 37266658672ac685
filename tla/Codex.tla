-------------------------------- MODULE Codex --------------------------------
(***************************************************************************)
(* The Codex side of sordino-hooks (main.rs): codex-config enable / disable *)
(* on $CODEX_HOME/config.toml, and the SessionStart and UserPromptSubmit   *)
(* hooks of a Codex session.                                               *)
(*                                                                         *)
(* Codex resolves its provider when it is launched.  The prompt hook can   *)
(* only look at the file, so it infers "launched with the route" from the  *)
(* file's mtime and the session's start, which Codex puts into the name of *)
(* the transcript: local wall-clock time, cut to seconds.  Here a second is *)
(* two ticks of now, and the local clock may be put back once.             *)
(***************************************************************************)
EXTENDS Integers, FiniteSets

CONSTANTS CodexPorts,   \* ports of our proxy, numbers above 0
          Dirs,         \* directories the plugin was installed in, numbers
          Docs,         \* what config.toml may hold at first
          MaxTicks,     \* bound on time
          MaxFaults,    \* bound on events that neither hook nor command causes
          BackAt, Back  \* the local clock is put back by Back at BackAt

ASSUME CodexAssumption == /\ CodexPorts \subseteq Nat \ {0}
                          /\ Dirs \subseteq Nat
                          /\ {MaxTicks, MaxFaults, BackAt, Back} \subseteq Nat

VARIABLES doc,      \* config.toml
          mtime,    \* when it was written last, in true time
          now,      \* true time
          edit,     \* the codex-config command that runs
          serving,  \* port of our live proxy, 0 if none
          optedOut, \* the project's registry entry is Optout
          ses,      \* the Codex session
          faults,
          hist      \* history: what the user chose, what was written

codexVars == <<doc, mtime, now, edit, serving, optedOut, ses, faults, hist>>

CodexEvents == {"SessionStart", "UserPromptSubmit"}
NoBlock == [owner |-> "none", port |-> 0, sealed |-> FALSE, prior |-> "none"]
NoEvent == [shape |-> "none", groups |-> {}]
NoDoc == [st |-> "none", sel |-> "none", block |-> NoBlock,
          hooks |-> [e \in CodexEvents |-> NoEvent]]

\* A matcher group: its inner list (an inline array, or tables) of hooks; a
\* hook is the user's (-1) or ours, the number of the directory in its path.
Group(form, hooks) == [form |-> form, hooks |-> hooks]
UserHook == -1
OursIn(g) == g.hooks \ {UserHook}

CodexGroups == [form : {"array", "tables"}, hooks : SUBSET Int]
CodexDoc == [st : {"none", "ok", "bad"}, sel : {"none", "us", "acme", "corp"},
             block : [owner : {"none", "ours", "user"}, port : CodexPorts \cup {0, 99},
                      sealed : BOOLEAN, prior : {"none", "acme", "corp"}],
             hooks : [CodexEvents -> [shape : {"none", "inline", "tables"},
                                      groups : SUBSET CodexGroups]]]

\* At most one group has hooks of ours, and it is an inline list.
OneOurs(gs) == \A g, h \in gs : OursIn(g) # {} /\ OursIn(h) # {} => g = h /\ g.form = "array"

\* At first the file has no block of ours, selects our name only for a block of
\* the user's, and has the hooks of at most one older version.
ASSUME CodexDocsAssumption ==
    \A d \in Docs :
       /\ d \in CodexDoc
       /\ d.block.owner # "ours" /\ d.block.prior = "none"
       /\ d.sel = "us" => d.block.owner = "user"
       /\ \A e \in CodexEvents : /\ OneOurs(d.hooks[e].groups)
                                 /\ d.st = "bad" => d.hooks[e].groups = {}

NoEdit == [at |-> "idle", kind |-> "none", read |-> NoDoc, port |-> 0, dir |-> 0,
           last |-> "none"]
NoSession == [at |-> "off", route |-> 0, over |-> FALSE, start |-> 0,
              port |-> 0, told |-> "none", exempt |-> FALSE, conf |-> FALSE,
              allowed |-> 0, seen |-> "never", reached |-> FALSE,
              warn |-> FALSE, silent |-> 0]

-----------------------------------------------------------------------------
\* codex_enable_merge, codex_disable_merge: the provider block.

\* Deviation: a re-enable takes the live provider for the prior one.
PriorAlwaysLive(d) == IF d.sel # "us" THEN d.sel ELSE "none"

PriorOf(d) == IF d.block.prior # "none" THEN d.block.prior
              ELSE IF d.sel # "us" THEN d.sel ELSE "none"

RefusesProvider(d) == d.st = "bad" \/ d.block.owner = "user"

EnableProvider(d, p) ==
    IF /\ d.block.owner = "ours" /\ d.sel = "us"
       /\ d.block.port = p /\ d.block.sealed
    THEN d
    ELSE [d EXCEPT !.st = "ok", !.sel = "us",
                   !.block = [owner |-> "ours", port |-> p, sealed |-> TRUE,
                              prior |-> PriorOf(d)]]

DisableProvider(d) ==
    IF d.block.owner # "ours" THEN d
    ELSE [d EXCEPT !.block = NoBlock,
                   !.sel = IF @ = "us" THEN d.block.prior ELSE @]

\* codex_hooks_enable_merge: an inline event becomes tables; our entries in
\* inline lists get the current path; without one, a group is appended.
EnableEvent(ev, d) ==
    LET Current(g) == IF g.form = "array" /\ OursIn(g) # {}
                      THEN [g EXCEPT !.hooks = (@ \cap {UserHook}) \cup {d}]
                      ELSE g
        found == \E g \in ev.groups : g.form = "array" /\ OursIn(g) # {}
    IN [shape |-> "tables",
        groups |-> IF found THEN {Current(g) : g \in ev.groups}
                   ELSE ev.groups \cup {Group("array", {d})}]

EnableHooks(d, dir) ==
    [d EXCEPT !.hooks = [e \in CodexEvents |-> EnableEvent(@[e], dir)]]

\* codex_hooks_disable_merge: only our entries go, in either form; a group or
\* an event that this empties goes with them.
DisableEvent(ev) ==
    LET left == {[g EXCEPT !.hooks = @ \cap {UserHook}] : g \in ev.groups}
        kept == {g \in left : g.hooks # {}}
    IN IF \A g \in ev.groups : OursIn(g) = {} THEN ev
       ELSE IF kept = {} THEN NoEvent ELSE [shape |-> "tables", groups |-> kept]

DisableHooks(d) == [d EXCEPT !.hooks = [e \in CodexEvents |-> DisableEvent(@[e])]]

-----------------------------------------------------------------------------
\* What the hooks compute.

LocalTime(t) == IF t >= BackAt THEN t - Back ELSE t
Floor(t) == t - (t % 2)

\* codex_route_from_config: the port of the selected loopback provider.
RouteFromConfig(d) == IF d.st = "ok" /\ d.sel = "us" THEN d.block.port ELSE 0

LaunchGenerationOk == LocalTime(mtime) <= ses.start

Identity(p) == {FALSE, p # 0 /\ serving = p}

Verdict(routed, key, ident, launched) ==
    CASE ~routed -> "not_routed"
      [] routed /\ ~key -> "auth_fail"
      [] routed /\ key /\ ~ident -> "proxy_down"
      [] routed /\ key /\ ident /\ ~launched -> "restart"
      [] OTHER -> "onboarding"

RouteConfirmed(selected, ident, launched) == selected /\ ident /\ launched

\* A prompt is exempt by SORDINO_NO_INTAKE_GATE, opt-out or as a command.
IntakeBlocks(confirmed, exempt) == ~exempt /\ ~confirmed

\* a8_routed_recently: nothing when the proxy cannot be verified.
RoutedRecently(p) == IF p # 0 /\ serving = p
                     THEN {"unavailable", IF ses.seen = "recent" THEN "yes" ELSE "no"}
                     ELSE {"unavailable"}

OverrideWarn(prior, recent) == prior >= 1 /\ recent = "no"

-----------------------------------------------------------------------------
CodexInit == /\ doc \in Docs
             /\ mtime = 0 /\ now = 1 /\ edit = NoEdit /\ serving = 0
             /\ optedOut = FALSE /\ ses = NoSession /\ faults = 0
             /\ hist = [chosen |-> doc.sel, moved |-> FALSE, first |-> doc,
                        reformed |-> FALSE]

\* A write of config.toml is later than everything before it.
Written(d) == doc' = d /\ now' = now + 1 /\ mtime' = now + 1

CodexEnableRead(p, dir) ==
    /\ edit.at = "idle"
    /\ IF serving # 0 THEN p = serving ELSE TRUE
    /\ serving' = p      \* ensure-up --print-url
    /\ edit' = IF RefusesProvider(doc) THEN [NoEdit EXCEPT !.last = "refused"]
               ELSE [NoEdit EXCEPT !.at = "write", !.kind = "enabled",
                                   !.read = doc, !.port = p, !.dir = dir]
    /\ UNCHANGED <<doc, mtime, now, optedOut, ses, faults, hist>>

CodexDisableRead ==
    /\ edit.at = "idle"
    /\ edit' = IF doc.st = "bad" THEN [NoEdit EXCEPT !.last = "refused"]
               ELSE [NoEdit EXCEPT !.at = "write", !.kind = "disabled", !.read = doc]
    /\ UNCHANGED <<doc, mtime, now, serving, optedOut, ses, faults, hist>>

CodexWrite ==
    LET d == edit.read
        new == IF edit.kind = "enabled"
               THEN EnableHooks(EnableProvider(d, edit.port), edit.dir)
               ELSE DisableHooks(DisableProvider(d))
    IN /\ edit.at = "write" /\ now < MaxTicks
       /\ IF new = d THEN UNCHANGED <<doc, mtime, now>> ELSE Written(new)
       /\ edit' = [NoEdit EXCEPT !.last = edit.kind, !.port = edit.port,
                                 !.dir = edit.dir]
       /\ hist' = IF edit.kind = "enabled"
                  THEN [hist EXCEPT !.moved = @ \/ (d.block.owner = "ours"
                                                    /\ d.sel # "us")]
                  ELSE [hist EXCEPT !.moved = FALSE,
                          !.chosen = IF hist.moved THEN new.sel ELSE @]
       /\ UNCHANGED <<serving, optedOut, ses, faults>>

-----------------------------------------------------------------------------
\* A Codex session.

CodexLaunch ==
    /\ ses.at = "off"
    /\ now' \in {t \in {now, now + 1} : t <= MaxTicks}
    /\ \E over \in BOOLEAN :
          ses' = [NoSession EXCEPT !.at = "start", !.over = over, !.start = Floor(LocalTime(now')),
                    !.route = IF over THEN 0 ELSE RouteFromConfig(doc)]
    /\ edit' = IF edit.at = "idle" THEN NoEdit ELSE edit
    /\ UNCHANGED <<doc, mtime, serving, optedOut, faults, hist>>

CodexStartRead ==
    /\ ses.at = "start"
    /\ \E key \in BOOLEAN :
          ses' = IF RouteFromConfig(doc) = 0 \/ ~key
                 THEN [ses EXCEPT !.at = "ready",
                         !.told = Verdict(RouteFromConfig(doc) # 0, key, FALSE, FALSE)]
                 ELSE [ses EXCEPT !.at = "verify", !.port = RouteFromConfig(doc)]
    /\ UNCHANGED <<doc, mtime, now, edit, serving, optedOut, faults, hist>>

\* ensure_up may start the proxy on another port than the configured one; its
\* outcome is ignored, the identity is probed on the configured port.
CodexStartVerify ==
    /\ ses.at = "verify"
    /\ serving' \in IF serving # 0 THEN {serving} ELSE {0} \cup CodexPorts
    /\ \E ident \in {FALSE, serving' = ses.port} :
          ses' = [ses EXCEPT !.at = "ready", !.port = 0,
                    !.told = Verdict(TRUE, TRUE, ident, LaunchGenerationOk)]
    /\ UNCHANGED <<doc, mtime, now, edit, optedOut, faults, hist>>

CodexSubmit ==
    /\ ses.at = "ready"
    /\ \E cmd \in BOOLEAN, hatch \in BOOLEAN :
          ses' = [ses EXCEPT !.at = "probe", !.exempt = cmd \/ hatch \/ optedOut,
                             !.port = RouteFromConfig(doc), !.warn = FALSE,
                             !.told = "none"]
    /\ UNCHANGED <<doc, mtime, now, edit, serving, optedOut, faults, hist>>

CodexDecide ==
    /\ ses.at = "probe"
    /\ \E ident \in Identity(ses.port) :
          LET confirmed == RouteConfirmed(ses.port # 0, ident, LaunchGenerationOk)
              blocked == IntakeBlocks(confirmed, ses.exempt)
          IN ses' = [ses EXCEPT !.conf = confirmed /\ ~blocked,
                       !.at = CASE blocked -> "ready"
                                [] ~blocked /\ confirmed -> "ask"
                                [] OTHER -> "send"]
    /\ UNCHANGED <<doc, mtime, now, edit, serving, optedOut, faults, hist>>

\* The A8 read, the warning, and the count of confirmed prompts (capped at 3).
CodexAskProxy ==
    /\ ses.at = "ask"
    /\ \E recent \in RoutedRecently(ses.port) :
          LET warn == OverrideWarn(ses.allowed, recent)
          IN ses' = [ses EXCEPT !.at = "send", !.warn = warn,
                       !.allowed = IF @ < 3 THEN @ + 1 ELSE @,
                       !.silent = IF ses.over /\ recent = "no" /\ ~warn /\ @ < 3
                                  THEN @ + 1 ELSE @]
    /\ UNCHANGED <<doc, mtime, now, edit, serving, optedOut, faults, hist>>

\* Codex sends the prompt on the route it was launched with.
CodexSend ==
    /\ ses.at = "send"
    /\ LET in == ses.route # 0 /\ ses.route = serving
       IN ses' = [ses EXCEPT !.at = "ready", !.conf = FALSE, !.warn = FALSE,
                    !.exempt = FALSE, !.port = 0,
                    !.seen = IF in THEN "recent" ELSE @,
                    !.reached = @ \/ in]
    /\ UNCHANGED <<doc, mtime, now, edit, serving, optedOut, faults, hist>>

CodexExit == /\ ses.at = "ready" /\ ses' = NoSession
             /\ UNCHANGED <<doc, mtime, now, edit, serving, optedOut, faults, hist>>

-----------------------------------------------------------------------------
\* The user, time and faults.

Fault == faults < MaxFaults /\ faults' = faults + 1

\* More than ROUTED_RECENTLY_WINDOW_MS between two prompts.
CodexPause == /\ Fault /\ ses.at = "ready" /\ ses.seen = "recent"
              /\ ses' = [ses EXCEPT !.seen = "stale"]
              /\ UNCHANGED <<doc, mtime, now, edit, serving, optedOut, hist>>

\* The monitor's last_seen dies with the proxy.
CodexProxyDies == /\ Fault /\ serving # 0 /\ serving' = 0
                  /\ ses' = [ses EXCEPT !.seen = "never"]
                  /\ UNCHANGED <<doc, mtime, now, edit, optedOut, hist>>

CodexServe(p) == /\ Fault /\ serving = 0 /\ serving' = p
                 /\ UNCHANGED <<doc, mtime, now, edit, optedOut, ses, hist>>

CodexOptOut == /\ Fault /\ optedOut' = ~optedOut
               /\ UNCHANGED <<doc, mtime, now, edit, serving, ses, hist>>

\* The user selects another provider, or rewrites a group as tables.
CodexSelect(v) ==
    /\ Fault /\ edit.at = "idle" /\ doc.st = "ok" /\ doc.sel # v
    /\ now < MaxTicks /\ Written([doc EXCEPT !.sel = v])
    /\ hist' = [hist EXCEPT !.chosen = v]
    /\ edit' = NoEdit
    /\ UNCHANGED <<serving, optedOut, ses>>

CodexReform(e) ==
    /\ Fault /\ edit.at = "idle" /\ now < MaxTicks
    /\ \E g \in doc.hooks[e].groups :
          /\ doc.hooks[e].shape = "tables" /\ g.form = "array"
          /\ Written([doc EXCEPT !.hooks[e].groups =
                        (@ \ {g}) \cup {[g EXCEPT !.form = "tables"]}])
    /\ hist' = [hist EXCEPT !.reformed = TRUE]
    /\ edit' = NoEdit
    /\ UNCHANGED <<serving, optedOut, ses>>

CodexNext ==
    \/ \E p \in CodexPorts : CodexServe(p) \/ \E d \in Dirs : CodexEnableRead(p, d)
    \/ CodexDisableRead \/ CodexWrite
    \/ CodexLaunch \/ CodexStartRead \/ CodexStartVerify \/ CodexSubmit
    \/ CodexDecide \/ CodexAskProxy \/ CodexSend \/ CodexExit
    \/ CodexPause \/ CodexProxyDies \/ CodexOptOut
    \/ CodexSelect("corp")
    \/ \E e \in CodexEvents : CodexReform(e)

CodexSpec == CodexInit /\ [][CodexNext]_codexVars

-----------------------------------------------------------------------------
\* Properties.

\* Every part of the state stays in its set.
CodexTypeOK ==
    /\ doc.st \in {"none", "ok", "bad"} /\ doc.sel \in {"none", "us", "acme", "corp"}
    /\ doc.block.prior \in {"none", "acme", "corp"}
    /\ {mtime, now} \subseteq 0 .. MaxTicks + 1
    /\ serving \in CodexPorts \cup {0}
    /\ {ses.route, ses.port} \subseteq CodexPorts \cup {0, 99}
    /\ ses.allowed \in 0 .. 3

\* The merges never touch what the user wrote: a block that lacks our marker,
\* and the hooks that are not ours, wherever they share a group with ours.
UsersConfigKept ==
    /\ hist.first.block.owner = "user" => doc.block = hist.first.block
    /\ hist.first.st = "bad" => doc = hist.first
    /\ \A e \in CodexEvents :
          (\E g \in hist.first.hooks[e].groups : UserHook \in g.hooks)
             => \E g \in doc.hooks[e].groups : UserHook \in g.hooks

\* A finished disable leaves no block of ours, no hook of ours, no selection of
\* a block that is gone, and the provider the user chose last, unless the
\* user chose it while our block was in the file and enabled again.
DisableRestores ==
    edit.at = "idle" /\ edit.last = "disabled" =>
       /\ doc.block.owner # "ours"
       /\ \A e \in CodexEvents : \A g \in doc.hooks[e].groups : OursIn(g) = {}
       /\ doc.sel = hist.chosen

\* A finished enable selects our block, with the transport sealed, and every
\* inline entry of ours is the current path, exactly one per event unless the
\* user rewrote one as tables.
EnableInstalls ==
    edit.at = "idle" /\ edit.last = "enabled" =>
       /\ RouteFromConfig(doc) = edit.port /\ doc.block.sealed
       /\ \A e \in CodexEvents :
             LET ours == {g \in doc.hooks[e].groups : OursIn(g) # {}}
             IN /\ Group("array", {edit.dir}) \in
                     {[g EXCEPT !.hooks = OursIn(g)] : g \in ours}
                /\ ~hist.reformed => Cardinality(ours) = 1

\* The prompt gate fails closed: a prompt it confirmed belongs to a session
\* that was launched with this very route, unless -c or -p overrode it.
ConfirmedIsLaunched ==
    ses.at \in {"ask", "send"} /\ ses.conf /\ ~ses.over => ses.route = ses.port

\* The onboarding, too, is told only to a session launched with the route.
OnboardedIsLaunched ==
    ses.told = "onboarding" /\ ~ses.over => ses.route # 0

\* An overridden session sends at most one prompt unwarned while the proxy
\* answers that it saw nothing of it.
OverrideIsWarned == ses.silent <= 1

\* The Codex integration end to end: the user's own config survives enable, edits
\* and disable, and a session is told, confirmed or warned by the route it was
\* launched with.
CodexSound ==
    /\ CodexTypeOK
    /\ UsersConfigKept
    /\ EnableInstalls
    /\ DisableRestores
    /\ ConfirmedIsLaunched
    /\ OnboardedIsLaunched
    /\ OverrideIsWarned

\* CODEX_OVERRIDE_WARN, "no traffic from this session has reached it".
WarnIsTrue == ses.warn => ~ses.reached
=============================================================================
