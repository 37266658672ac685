-------------------------------- MODULE Gate --------------------------------
(***************************************************************************)
(* The Claude Code hooks of sordino-hooks (main.rs): SessionStart, the     *)
(* UserPromptSubmit intake gate with its per-session narration, the status *)
(* line, and the enable / uninstall / mask commands they race with.        *)
(*                                                                         *)
(* A hook is a short process, so what it read may be stale when it acts:   *)
(* every hook and command is cut into the steps between which another      *)
(* process can run.  A port is a number, 0 is "none"; env[s] is the port   *)
(* of the ANTHROPIC_BASE_URL that Claude Code gave session s.              *)
(***************************************************************************)
EXTENDS Naturals

CONSTANTS Sessions,   \* conversations of one project
          Ports,      \* loopback ports, numbers above 0
          MaxEvents   \* bound on the steps of users, ports and faults

ASSUME GateAssumption == Ports \subseteq Nat \ {0} /\ MaxEvents \in Nat

VARIABLES registry,   \* the project's entry in the plumb registry
          baked,      \* port of the route in settings.local.json
          proxy,      \* port our live, nonce-verified proxy listens on
          sticky,     \* port of the last rendezvous record
          foreign,    \* ports held by other processes
          master,     \* the proxy's masking switch
          convOff,    \* conversations with a masking-off window
          env, hatch, \* per session: its route, SORDINO_NO_INTAKE_GATE
          rec,        \* per session: the session-status record on disk
          told,       \* per session: the state its model was last told
          old,        \* per session: record not written for two weeks
          runs,       \* per session: the hook that is running
          command,    \* the enable / uninstall command that is running
          lost,       \* per session: a record or a line was lost
          events

gateVars == <<registry, baked, proxy, sticky, foreign, master, convOff, env,
              hatch, rec, told, old, runs, command, lost, events>>

MaskState == {"masked", "off", "disabled_this_conversation", "not_reaching",
              "disabled", "unmasked_bypass"}

\* A hook process: where it is and what it has read so far.
Quiet == [at |-> "ready", kind |-> "none", cmd |-> FALSE, opt |-> FALSE,
          port |-> 0, ok |-> FALSE, cur |-> "none", line |-> FALSE,
          moved |-> FALSE, killed |-> FALSE]

NoCommand == [at |-> "idle", port |-> 0]

\* A fresh project; or one in which the hook of another window wrote its route
\* again after the opt-out, and the windows here were launched in between.
GateInit == /\ proxy = 0 /\ foreign = {} /\ master = TRUE /\ convOff = {}
            /\ env = [s \in Sessions |-> 0]
            /\ hatch = [s \in Sessions |-> FALSE]
            /\ rec = [s \in Sessions |-> "none"]
            /\ told = [s \in Sessions |-> "none"]
            /\ old = [s \in Sessions |-> FALSE]
            /\ command = NoCommand /\ lost = [s \in Sessions |-> FALSE] /\ events = 0
            /\ \/ /\ registry = "none" /\ baked = 0 /\ sticky = 0
                  /\ runs = [s \in Sessions |-> [Quiet EXCEPT !.at = "off"]]
               \/ /\ registry = "optout" /\ baked \in Ports /\ sticky = baked
                  /\ runs = [s \in Sessions |-> [Quiet EXCEPT !.at = "start"]]

-----------------------------------------------------------------------------
\* What the hooks compute.

RoutedThrough(s, p) == p # 0 /\ env[s] = p

VerifiedProxy(p) == p # 0 /\ proxy = p

BlockUnverified(opted, plumbed, ok, escape) ==
    ~escape /\ ~opted /\ plumbed /\ ~ok

ResolveRouted(s) == CASE ~master -> "off"
                      [] master /\ s \in convOff -> "disabled_this_conversation"
                      [] OTHER -> "masked"

\* The bounded reads may give up although the proxy is ours.
RoutedStatus(s, p) == {"not_reaching"}
                      \cup IF VerifiedProxy(p) THEN {ResolveRouted(s)} ELSE {}

SessionMaskState(s, opted, p) ==
    IF opted THEN {"disabled"}
    ELSE IF p = 0 THEN {"none"}
    ELSE IF ~RoutedThrough(s, p)
         THEN {IF hatch[s] THEN "unmasked_bypass" ELSE "not_reaching"}
    ELSE RoutedStatus(s, p)

ShouldNarrate(prev, cur) ==
    prev # cur /\ \/ prev = "masked"
                  \/ cur \in {"masked", "unmasked_bypass",
                              "disabled_this_conversation"}

\* Deviation: a conversation that masking is off for is not looked up.
MasterAlone(s) == master

EffectiveMasking(s) == master /\ s \notin convOff

\* render_segment: the glyph the status line shows in session s.
Segment(s) ==
    IF env[s] = 0 THEN IF baked # 0 THEN "restart" ELSE "not_masking"
    ELSE IF proxy # env[s]
         THEN IF env[s] \in foreign THEN "unverified" ELSE "down"
    ELSE IF ~master THEN "master_off"
    ELSE IF EffectiveMasking(s) THEN "shield" ELSE "conversation_off"

\* Where a prompt of session s goes now.
Dest(s) == IF env[s] = 0 THEN "direct"
           ELSE IF proxy = env[s] THEN "ours"
           ELSE IF env[s] \in foreign THEN "foreign" ELSE "refused"

-----------------------------------------------------------------------------
Goto(s, at) == runs' = [runs EXCEPT ![s].at = at]
Done(s) == runs' = [runs EXCEPT ![s] = Quiet]

\* ensure_up as its callers see it: our proxy's port, started on the sticky
\* port when it is free, or a failure.
EnsureUp(p) == /\ IF proxy # 0 THEN p = proxy
                  ELSE /\ p \in Ports \ foreign
                       /\ sticky \in Ports \ foreign => p = sticky
               /\ proxy' = p /\ sticky' = p

EnsureFailed == proxy = 0 /\ UNCHANGED <<proxy, sticky>>

\* Claude Code starts: it reads the baked route into the session's environment.
Launch(s) == /\ runs[s].at = "off"
             /\ env' = [env EXCEPT ![s] = baked]
             /\ \E h \in BOOLEAN : hatch' = [hatch EXCEPT ![s] = h]
             /\ Goto(s, "start")
             /\ UNCHANGED <<registry, baked, proxy, sticky, foreign, master,
                            convOff, rec, told, old, command, lost, events>>

StartRead(s) ==
    /\ runs[s].at = "start"
    /\ LET optout == registry = "optout"
           plumb == env[s] = 0 /\ baked = 0 /\ ~optout
           heal  == env[s] = 0 /\ baked # 0 /\ optout
       IN \/ env[s] # 0
             /\ runs' = [runs EXCEPT ![s].at = "up", ![s].kind = "routed"]
          \/ plumb /\ runs' = [runs EXCEPT ![s].at = "up", ![s].kind = "plumb"]
          \/ heal /\ Goto(s, "heal")
          \* configured but unrouted, opted out, or SORDINO_NO_AUTO_ENABLE
          \/ env[s] = 0 /\ ~heal /\ Done(s)
    /\ UNCHANGED <<registry, baked, proxy, sticky, foreign, master, convOff,
                   env, hatch, rec, told, old, command, lost, events>>

\* opted out, yet a route is still baked: strip it
StartHeal(s) == /\ runs[s].at = "heal"
                /\ baked' = 0
                /\ Done(s)
                /\ UNCHANGED <<registry, proxy, sticky, foreign, master, env,
                               convOff, hatch, rec, told, old, command, lost, events>>

\* The session is on its proxy's port (sweep, announce), or its route has to
\* be baked: for the first time, or because the proxy is elsewhere now.
StartUp(s) ==
    /\ runs[s].at = "up"
    /\ \/ EnsureFailed /\ Done(s)
       \/ \E p \in Ports :
             /\ EnsureUp(p)
             /\ IF runs[s].kind = "routed" /\ p = env[s] THEN Done(s)
                ELSE runs' = [runs EXCEPT ![s].at = "bake", ![s].port = p]
    /\ UNCHANGED <<registry, baked, foreign, master, convOff, env, hatch, rec,
                   told, old, command, lost, events>>

\* settings_enable, then the registry entry of a first auto-plumb.
StartBake(s) ==
    /\ runs[s].at = "bake"
    /\ \/ Done(s) /\ UNCHANGED baked          \* settings_enable may refuse
       \/ /\ baked' = runs[s].port
          /\ IF runs[s].kind = "plumb" THEN Goto(s, "register") ELSE Done(s)
    /\ UNCHANGED <<registry, proxy, sticky, foreign, master, convOff, env,
                   hatch, rec, told, old, command, lost, events>>

StartRegister(s) ==
    /\ runs[s].at = "register"
    /\ registry' = "plumbed"
    /\ Done(s)
    /\ UNCHANGED <<baked, proxy, sticky, foreign, master, convOff, env, hatch,
                   rec, told, old, command, lost, events>>

-----------------------------------------------------------------------------
\* user_prompt_submit: the local reads, the identity probe and the decision,
\* then on ALLOW the state, the record and the line.

Submit(s) ==
    /\ runs[s].at = "ready"
    /\ \E c \in BOOLEAN :
          runs' = [runs EXCEPT ![s].at = "probe", ![s].cmd = c,
                   ![s].opt = (registry = "optout"), ![s].port = baked]
    /\ UNCHANGED <<registry, baked, proxy, sticky, foreign, master, convOff,
                   env, hatch, rec, told, old, command, lost, events>>

MustCheck(s) == /\ runs[s].port # 0 /\ ~runs[s].opt
                /\ ~hatch[s] /\ ~runs[s].cmd

\* Deviation: the session's route is compared, but nobody asks who answers there.
RouteMatches(s) == {MustCheck(s) /\ RoutedThrough(s, runs[s].port)}

IdentityOk(s) ==
    IF MustCheck(s) /\ RoutedThrough(s, runs[s].port)
    THEN {FALSE, VerifiedProxy(runs[s].port)} ELSE {FALSE}

ProbeAndDecide(s) ==
    /\ runs[s].at = "probe"
    /\ \E ok \in IdentityOk(s) :
          IF /\ BlockUnverified(runs[s].opt, runs[s].port # 0, ok, hatch[s])
             /\ ~runs[s].cmd
          THEN Done(s)
          ELSE runs' = [runs EXCEPT ![s].at = "state", ![s].ok = ok,
                                    ![s].moved = FALSE]
    /\ UNCHANGED <<registry, baked, proxy, sticky, foreign, master, convOff,
                   env, hatch, rec, told, old, command, lost, events>>

ReadState(s) ==
    /\ runs[s].at = "state"
    /\ \E cur \in SessionMaskState(s, runs[s].opt, runs[s].port) :
          runs' = [runs EXCEPT ![s].cur = cur,
                   ![s].at = IF cur = "none" THEN "send" ELSE "write"]
    /\ UNCHANGED <<registry, baked, proxy, sticky, foreign, master, convOff,
                   env, hatch, rec, told, old, command, lost, events>>

\* mask_delta_line: the line is decided against the record, the record is
\* always rewritten, and the write prunes the records idle for two weeks.
WriteRecord(s) ==
    /\ runs[s].at = "write"
    /\ runs' = [runs EXCEPT ![s].at = "emit",
                ![s].line = ShouldNarrate(rec[s], runs[s].cur)]
    /\ rec' = [t \in Sessions |-> IF t = s THEN runs[s].cur
                                  ELSE IF old[t] THEN "none" ELSE rec[t]]
    /\ lost' = [t \in Sessions |-> lost[t] \/ (t # s /\ old[t])]
    /\ old' = [t \in Sessions |-> FALSE]
    /\ UNCHANGED <<registry, baked, proxy, sticky, foreign, master, convOff,
                   env, hatch, told, command, events>>

Emit(s) == /\ runs[s].at = "emit"
           /\ told' = IF runs[s].line THEN [told EXCEPT ![s] = runs[s].cur]
                      ELSE told
           /\ Goto(s, "send")
           /\ UNCHANGED <<registry, baked, proxy, sticky, foreign, master, env,
                          convOff, hatch, rec, old, command, lost, events>>

\* Claude Code sends the prompt to the session's route.
Send(s) == /\ runs[s].at = "send"
           /\ Done(s)
           /\ UNCHANGED <<registry, baked, proxy, sticky, foreign, master, env,
                          convOff, hatch, rec, told, old, command, lost, events>>

-----------------------------------------------------------------------------
\* The commands of the user: /sordino:enable, uninstall [--all], mask on/off.

CliReserve == /\ command.at = "idle" /\ events < MaxEvents /\ events' = events + 1
              /\ \E p \in Ports : /\ EnsureUp(p)
                                  /\ command' = [at |-> "registry", port |-> p]
              /\ UNCHANGED <<registry, baked, foreign, master, convOff, env,
                             hatch, rec, told, old, runs, lost>>

\* The opt-out is cleared before the route is written.
CliRegistry == /\ command.at = "registry"
               /\ registry' = "plumbed" /\ command' = [command EXCEPT !.at = "route"]
               /\ UNCHANGED <<baked, proxy, sticky, foreign, master, convOff,
                              env, hatch, rec, told, old, runs, lost, events>>

CliRoute == /\ command.at = "route"
            /\ baked' \in {baked, command.port}    \* settings_enable may refuse
            /\ command' = NoCommand
            /\ UNCHANGED <<registry, proxy, sticky, foreign, master, convOff,
                           env, hatch, rec, told, old, runs, lost, events>>

\* uninstall opts the project out, uninstall --all forgets it.
CliStrip == /\ command.at = "idle" /\ events < MaxEvents /\ events' = events + 1
            /\ baked' = 0
            /\ \E after \in {"optout", "forget"} : command' = [at |-> after, port |-> 0]
            /\ UNCHANGED <<registry, proxy, sticky, foreign, master, convOff,
                           env, hatch, rec, told, old, runs, lost>>

CliOptout == /\ command.at \in {"optout", "forget"}
             /\ registry' = IF command.at = "optout" THEN "optout" ELSE "none"
             /\ command' = NoCommand
             /\ UNCHANGED <<baked, proxy, sticky, foreign, master, convOff, env,
                            hatch, rec, told, old, runs, lost, events>>

\* An event outside the hooks: hooks past their probe acted on older reads.
Event == /\ events < MaxEvents /\ events' = events + 1
         /\ runs' = [s \in Sessions |->
               [runs[s] EXCEPT !.moved = runs[s].at \in {"state", "write",
                                                         "emit", "send"}]]

MaskProject == /\ Event /\ proxy # 0 /\ master' = ~master
               /\ UNCHANGED <<registry, baked, proxy, sticky, foreign, convOff,
                              env, hatch, rec, told, old, command, lost>>

\* mask off needs a session routed to the live proxy; mask on and the expiry
\* of the window end it.
MaskConversation(s) ==
    /\ Event /\ proxy # 0 /\ env[s] # 0
    /\ convOff' = IF s \in convOff THEN convOff \ {s} ELSE convOff \cup {s}
    /\ UNCHANGED <<registry, baked, proxy, sticky, foreign, master, env, hatch,
                   rec, told, old, command, lost>>

-----------------------------------------------------------------------------
\* Ports, time and faults.

ProxyDies == /\ Event /\ proxy # 0 /\ proxy' = 0
             /\ master' = TRUE /\ convOff' = {}
             /\ UNCHANGED <<registry, baked, sticky, foreign, env, hatch, rec,
                            told, old, command, lost>>

PortTaken == /\ Event
             /\ \E p \in Ports \ (foreign \cup {proxy}) :
                   foreign' = foreign \cup {p}
             /\ UNCHANGED <<registry, baked, proxy, sticky, master, convOff,
                            env, hatch, rec, told, old, command, lost>>

\* Claude Code applies a route written during the session, unreliably.
LiveReload(s) == /\ Event /\ baked # 0 /\ env[s] # baked
                 /\ runs[s].at # "off"
                 /\ env' = [env EXCEPT ![s] = baked]
                 /\ UNCHANGED <<registry, baked, proxy, sticky, foreign, master,
                                convOff, hatch, rec, told, old, command, lost>>

TwoWeeks(s) == /\ events < MaxEvents /\ events' = events + 1
               /\ runs[s].at = "ready" /\ rec[s] # "none" /\ ~old[s]
               /\ old' = [old EXCEPT ![s] = TRUE]
               /\ UNCHANGED <<registry, baked, proxy, sticky, foreign, master,
                              convOff, env, hatch, rec, told, runs, command, lost>>

\* The records of all projects share a directory: a write elsewhere prunes it.
PruneElsewhere == /\ \E s \in Sessions : old[s]
                  /\ rec' = [s \in Sessions |->
                                IF old[s] THEN "none" ELSE rec[s]]
                  /\ lost' = [s \in Sessions |-> lost[s] \/ old[s]]
                  /\ old' = [s \in Sessions |-> FALSE]
                  /\ UNCHANGED <<registry, baked, proxy, sticky, foreign,
                                 master, convOff, env, hatch, told, runs, command,
                                 events>>

\* The hook is killed: Claude Code lets the prompt pass.
Kill(s) == /\ events < MaxEvents /\ events' = events + 1
           /\ runs[s].at \in {"probe", "state", "write", "emit"}
           /\ runs' = [runs EXCEPT ![s].at = "send", ![s].killed = TRUE]
           /\ lost' = [lost EXCEPT ![s] = @ \/ runs[s].at = "emit"]
           /\ UNCHANGED <<registry, baked, proxy, sticky, foreign, master, env,
                          convOff, hatch, rec, told, old, command>>

Exit(s) == /\ runs[s].at = "ready" /\ Goto(s, "off")
           /\ events < MaxEvents /\ events' = events + 1
           /\ UNCHANGED <<registry, baked, proxy, sticky, foreign, master, env,
                          convOff, hatch, rec, told, old, command, lost>>

GateNext ==
    \/ \E s \in Sessions :
          \/ Launch(s) \/ StartRead(s) \/ StartHeal(s) \/ StartUp(s)
          \/ StartBake(s) \/ StartRegister(s) \/ Submit(s) \/ ProbeAndDecide(s) \/ ReadState(s)
          \/ WriteRecord(s) \/ Emit(s) \/ Send(s) \/ MaskConversation(s)
          \/ LiveReload(s) \/ TwoWeeks(s) \/ Kill(s) \/ Exit(s)
    \/ CliReserve \/ CliRegistry \/ CliRoute \/ CliStrip \/ CliOptout
    \/ MaskProject \/ ProxyDies \/ PortTaken \/ PruneElsewhere

GateSpec == GateInit /\ [][GateNext]_gateVars

-----------------------------------------------------------------------------
\* Properties.

\* Ports and states stay in their sets.
GateTypeOK ==
    /\ registry \in {"none", "plumbed", "optout"}
    /\ {baked, proxy, sticky, command.port} \subseteq Ports \cup {0}
    /\ foreign \subseteq Ports /\ convOff \subseteq Sessions
    /\ master \in BOOLEAN
    /\ \A s \in Sessions : /\ env[s] \in Ports \cup {0}
                           /\ rec[s] \in MaskState \cup {"none"}
                           /\ told[s] \in MaskState \cup {"none"}

\* user_prompt_submit fails closed: a prompt of a plumbed project that was
\* neither opted out, hatched nor a /sordino: command leaves only for our own
\* proxy, unless the hook was killed or the ports moved after its probe.
NoUnverifiedEgress ==
    \A s \in Sessions :
       /\ runs[s].at = "send" /\ ~runs[s].killed /\ ~runs[s].moved
       /\ MustCheck(s)
       => Dest(s) = "ours"

\* mask_delta_line / should_narrate: when a prompt leaves, a model that was
\* last told "masked" is masked, as far as the hook could determine a state
\* and no record or line was lost.
BeliefIsCurrent ==
    \A s \in Sessions :
       /\ runs[s].at = "send" /\ ~runs[s].killed /\ ~runs[s].moved
       /\ ~lost[s] /\ runs[s].cur # "none" /\ told[s] = "masked"
       => Dest(s) = "ours" /\ EffectiveMasking(s)

\* The status line (render_segment) and the narration (session_mask_state)
\* are separate code: for a session on the baked route of a project that is
\* not opted out, the shield shows exactly when "masked" would be narrated.
SurfacesAgree ==
    \A s \in Sessions :
       baked # 0 /\ env[s] = baked =>
          (Segment(s) = "shield"
             <=> "masked" \in SessionMaskState(s, FALSE, baked))

\* What the hooks tell: the model is not left believing it is masked, and the
\* status line and the narration tell the same (mask_delta_line, render_segment).
GateTells ==
    /\ GateTypeOK
    /\ BeliefIsCurrent
    /\ SurfacesAgree
=============================================================================
