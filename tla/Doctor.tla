------------------------------- MODULE Doctor -------------------------------
(***************************************************************************)
(* /sordino:verify and /sordino:doctor (sordino-hooks, main.rs): whether   *)
(* what they report of a session is what its next prompt will meet.        *)
(*   verify  a canary masked by the project's proxy under this session's   *)
(*           conversation, and whether the session is routed to it         *)
(*   doctor  the project's proxy, and the single-instance preflight        *)
(*                                                                         *)
(* Both are short processes that look at the world one probe at a time, so *)
(* the world may move between two probes.  A port is a number whose        *)
(* decimals make its URL: the URL of port 12 begins with that of port 1.   *)
(***************************************************************************)
EXTENDS Integers

CONSTANTS DoctorPorts,  \* loopback ports
          MaxMoves      \* bound: steps of the world

ASSUME DoctorAssumption == DoctorPorts \subseteq Nat \ {0} /\ MaxMoves \in Nat

VARIABLES host,      \* what is wrong with the machine
          server,    \* what listens on each port
          record,    \* the project's rendezvous record: port (0: none), a live pid
          route,     \* the session's ANTHROPIC_BASE_URL
          layers,    \* where the upstream may be configured
          launched,  \* the upstream our proxy was started with
          switch,    \* the proxy's masking, this conversation's, the Contact category
          tool, step, \* the command that runs and its next probe
          seenPort,  \* the verified port the canary goes to
          graded,    \* the verdicts so far
          shaken,    \* our proxy ended or a setting was changed during the run
          moves
doctorVars == <<host, server, record, route, layers, launched, switch, tool, step,
                seenPort, graded, shaken, moves>>

(* ours: the proxy that wrote the record; rival: another plumbed project's    *)
(* proxy; stray: a proxy in no registry; other: a server with no 2xx /healthz. *)
Servers == {"none", "ours", "rival", "stray", "other"}
Masker(p) == server[p] \in {"ours", "rival", "stray"}

NoRoute == [host |-> "none", port |-> 0, path |-> "bare"]
Routes == {NoRoute, [host |-> "provider", port |-> 0, path |-> "bare"]}
  \cup [host : {"127.0.0.1", "localhost"}, port : DoctorPorts, path : {"bare", "session"}]

(* A machine that is firewalled answers on no port, not even our own.      *)
Hosts == {"fine", "firewalled", "ipv6", "unbindable", "unwritable", "bare"}
Answers(p) == host # "firewalled" /\ server[p] # "none"

(* Where a prompt of the session goes.                                     *)
PromptAt ==
  CASE route.host \in {"none", "provider"} -> "direct"
    [] route.host \in {"127.0.0.1", "localhost"} ->
         IF Answers(route.port) THEN server[route.port] ELSE "none"

(* live_identity: the recorded port, if its process lives and answers with *)
(* the nonce of the record.                                                *)
LivePort == record.port # 0 /\ record.lives
OwnAnswers == LivePort /\ Answers(record.port) /\ server[record.port] = "ours"
VerifiedPort == IF OwnAnswers THEN record.port ELSE 0

(* The proxy's URL itself, or with a path after it.                        *)
BaseUrlMatches(p) == route.host = "127.0.0.1" /\ route.port = p

HasConversation == route.path = "session"

(* diag_mask: the canary is an e-mail address; the conversation counts     *)
(* when it is given and its masking is off.                                *)
CanaryMasked(conv) ==
  switch.master /\ switch.contact /\ (conv => ~switch.off)

(* An unmasked canary fails with or without a conversation.                *)
EngineMaskVerdict(conv, masked) ==
  CASE conv /\ masked -> "pass"
    [] ~conv /\ masked -> "warn"
    [] OTHER -> "fail"

SessionRouted == VerifiedPort # 0 /\ BaseUrlMatches(VerifiedPort)

(***************************************************************************)
(* The single-instance preflight.                                          *)
(***************************************************************************)
(* An upstream: "unset", "empty", "provider", "loopback"; a file layer may *)
(* also be "absent" or "bad", one that does not parse.                     *)
Mentions(l) == l \in {"provider", "loopback"}
FirstOf(s) ==
  IF \E i \in DOMAIN s : Mentions(s[i])
  THEN s[CHOOSE i \in DOMAIN s : Mentions(s[i]) /\ \A j \in 1..(i - 1) : ~Mentions(s[j])]
  ELSE "provider"

(* The shell's variable, then the local, the project's and the user's file.*)
ConfiguredUpstream == FirstOf(<<layers.env, layers.local, layers.project, layers.user>>)

(* What a proxy that starts now forwards to: the same layers merged; a     *)
(* value that is set counts even when it is empty, and a file that does    *)
(* not parse stops the start.                                              *)
Starts == \A f \in {"local", "project", "user"} : layers[f] # "bad"
ProxyUpstream ==
  LET order == <<layers.env, layers.local, layers.project, layers.user>>
      set(i) == order[i] \in {"empty", "provider", "loopback"}
  IN IF \E i \in 1..4 : set(i)
     THEN order[CHOOSE i \in 1..4 : set(i) /\ \A j \in 1..(i - 1) : ~set(j)]
     ELSE "provider"

(* The registry walk: the verified proxies of other plumbed projects.      *)
RivalSeen == \E p \in DoctorPorts : Answers(p) /\ server[p] = "rival"

LoopbackPort == IF route.host \in {"127.0.0.1", "localhost"} THEN route.port ELSE 0

(* The route is a loopback port, not our verified one, where a Sordino     *)
(* proxy answers.                                                          *)
ForeignRoute ==
  /\ LoopbackPort # 0 /\ LoopbackPort # VerifiedPort
  /\ Answers(LoopbackPort) /\ Masker(LoopbackPort)

DualInstance(rival, upstream, foreign) ==
  IF rival \/ upstream = "loopback" \/ foreign THEN "warn" ELSE "pass"

(* Deviation: a recorded port that does not answer only warns.             *)
StrangerWarns ==
  CASE ~LivePort -> "info"
    [] LivePort /\ OwnAnswers -> "pass"
    [] OTHER -> "warn"

(* Recorded and answering, answering as somebody else, not answering.      *)
ProjectProxy ==
  CASE ~LivePort -> "info"
    [] LivePort /\ OwnAnswers -> "pass"
    [] LivePort /\ ~OwnAnswers /\ Answers(record.port) /\ Masker(record.port) -> "warn"
    [] OTHER -> "fail"

(* The probes of the machine.  That localhost is IPv6 and that plugins are *)
(* switched off for future sessions only warn.                             *)
LoopbackReachable == IF host \in {"firewalled", "unbindable"} THEN "fail" ELSE "pass"
LocalhostResolves == IF host = "ipv6" THEN "warn" ELSE "pass"
EphemeralBind == IF host = "unbindable" THEN "fail" ELSE "pass"
StateDirWritable == IF host = "unwritable" THEN "fail" ELSE "pass"
NoBareMode == IF host = "bare" THEN "warn" ELSE "pass"
HostProbes == {LoopbackReachable, LocalhostResolves, EphemeralBind, StateDirWritable, NoBareMode}

(***************************************************************************)
(* The commands.                                                           *)
(***************************************************************************)
Unreported == [engine |-> "none", routed |-> "none", proxy |-> "none",
               failed |-> FALSE, rival |-> FALSE, upstream |-> "provider", single |-> "none"]

FileLayer == {"absent", "bad", "empty", "provider", "loopback"}
UpstreamLayers == [env : {"unset", "empty", "loopback"}, local : FileLayer,
                   project : {"absent", "loopback"}, user : {"absent", "loopback"}]
DefaultLayers == [env |-> "unset", local |-> "absent", project |-> "absent", user |-> "absent"]

(* Nothing runs yet; verify's world keeps its upstream and doctor's its    *)
(* switches.                                                               *)
DoctorInit ==
  /\ host \in Hosts
  /\ server = [p \in DoctorPorts |-> "none"]
  /\ record = [port |-> 0, lives |-> FALSE]
  /\ route \in Routes
  /\ tool \in {"verify", "doctor"}
  /\ layers \in IF tool = "doctor" /\ host = "fine" THEN UpstreamLayers ELSE {DefaultLayers}
  /\ switch = [master |-> TRUE, off |-> FALSE, contact |-> TRUE]
  /\ launched = "provider"
  /\ step = "first" /\ seenPort = 0 /\ graded = Unreported
  /\ shaken = FALSE /\ moves = 0

World == <<host, server, record, route, layers, launched, switch, tool, shaken, moves>>
Probe(t, from, to) == tool = t /\ step = from /\ step' = to /\ UNCHANGED World

(* Leg 1: the verified port and key, then the canary.                      *)
VerifyPort ==
  /\ Probe("verify", "first", "canary")
  /\ seenPort' = VerifiedPort
  /\ graded' = IF VerifiedPort = 0 THEN [graded EXCEPT !.engine = "fail"] ELSE graded

(* The proxy on that port checks the key.                                  *)
VerifyEngineMasks ==
  /\ Probe("verify", "canary", "routed")
  /\ graded' = IF seenPort = 0 THEN graded
               ELSE IF Answers(seenPort) /\ server[seenPort] = "ours"
               THEN [graded EXCEPT !.engine =
                       EngineMaskVerdict(HasConversation, CanaryMasked(HasConversation))]
               ELSE [graded EXCEPT !.engine = "fail"]
  /\ UNCHANGED seenPort

(* Leg 2.  The third leg only informs.                                     *)
VerifySessionRouted ==
  /\ Probe("verify", "routed", "done")
  /\ graded' = [graded EXCEPT !.routed = IF SessionRouted THEN "pass" ELSE "fail"]
  /\ UNCHANGED seenPort

DoctorProxy ==
  /\ Probe("doctor", "first", "walk")
  /\ graded' = [graded EXCEPT !.proxy = ProjectProxy,
                             !.failed = "fail" \in HostProbes \cup {ProjectProxy}]
  /\ UNCHANGED seenPort
DoctorWalk ==
  /\ Probe("doctor", "walk", "upstream")
  /\ graded' = [graded EXCEPT !.rival = RivalSeen]
  /\ UNCHANGED seenPort
DoctorUpstream ==
  /\ Probe("doctor", "upstream", "route")
  /\ graded' = [graded EXCEPT !.upstream = ConfiguredUpstream]
  /\ UNCHANGED seenPort
DoctorRoute ==
  /\ Probe("doctor", "route", "done")
  /\ graded' = [graded EXCEPT !.single =
                  DualInstance(graded.rival, graded.upstream, ForeignRoute)]
  /\ UNCHANGED seenPort

(***************************************************************************)
(* The world.                                                              *)
(***************************************************************************)
Running == step \notin {"first", "done"}
Move ==
  /\ step # "done"
  /\ moves < MaxMoves /\ moves' = moves + 1
  /\ UNCHANGED <<host, route, tool, step, seenPort, graded>>
Shake == shaken' = (shaken \/ Running)

(* A proxy that dies may leave its record, and its pid may be reused.      *)
OursDies(p) ==
  /\ Move /\ Shake /\ server[p] = "ours"
  /\ server' = [server EXCEPT ![p] = "none"]
  /\ record' \in {[port |-> 0, lives |-> FALSE], [record EXCEPT !.lives = FALSE], record}
  /\ UNCHANGED <<layers, launched, switch>>
OursStarts(p) ==
  /\ Move /\ server[p] = "none" /\ \A q \in DoctorPorts : server[q] # "ours"
  /\ Starts /\ host \notin {"unbindable", "unwritable"}
  /\ server' = [server EXCEPT ![p] = "ours"]
  /\ record' = [port |-> p, lives |-> TRUE]
  /\ launched' = ProxyUpstream
  /\ switch' = [switch EXCEPT !.master = TRUE, !.off = FALSE]
  /\ UNCHANGED <<layers, shaken>>
OtherServes(p) ==
  /\ Move /\ server[p] = "none"
  /\ \E k \in {"rival", "stray", "other"} : server' = [server EXCEPT ![p] = k]
  /\ UNCHANGED <<record, layers, launched, switch, shaken>>

(* mask on and off need the proxy; a category is set without it, too.      *)
FlipMasking ==
  /\ Move /\ Shake /\ tool = "verify"
  /\ \/ VerifiedPort # 0 /\ switch' = [switch EXCEPT !.master = ~@]
     \/ VerifiedPort # 0 /\ switch' = [switch EXCEPT !.off = ~@]
     \/ switch' = [switch EXCEPT !.contact = ~@]
  /\ UNCHANGED <<server, record, layers, launched>>
EditUpstream ==
  /\ Move /\ Shake /\ tool = "doctor"
  /\ \E u \in FileLayer : layers' = [layers EXCEPT !.local = u]
  /\ UNCHANGED <<server, record, launched, switch>>

DoctorNext ==
  \/ VerifyPort \/ VerifyEngineMasks \/ VerifySessionRouted
  \/ DoctorProxy \/ DoctorWalk \/ DoctorUpstream \/ DoctorRoute
  \/ \E p \in DoctorPorts : OursDies(p) \/ OursStarts(p) \/ OtherServes(p)
  \/ FlipMasking \/ EditUpstream

DoctorSpec == DoctorInit /\ [][DoctorNext]_doctorVars

(***************************************************************************)
(* Properties                                                              *)
(***************************************************************************)
Concluded(t) == tool = t /\ step = "done" /\ ~shaken

(* The shape of the state.                                                 *)
DoctorTypeOK ==
  /\ server \in [DoctorPorts -> Servers] /\ route \in Routes
  /\ seenPort \in DoctorPorts \cup {0}
  /\ graded.engine \in {"none", "pass", "warn", "fail"}
  /\ graded.proxy \in {"none", "pass", "info", "warn", "fail"}
  /\ graded.single \in {"none", "pass", "warn"}

(* When verify reports no failure, the session's prompts reach the         *)
(* project's own proxy and are masked there, under its conversation when   *)
(* the route names one (main.rs, F1c: never a green verdict over an        *)
(* unmasked session).                                                      *)
NoFalseGreen ==
  Concluded("verify") /\ "fail" \notin {graded.engine, graded.routed} =>
    /\ PromptAt = "ours"
    /\ switch.master /\ switch.contact /\ (route.path = "session" => ~switch.off)

(* A session on a route Sordino wrote, to its verified proxy, with masking *)
(* on, is not told that it is unmasked, whatever path the route carries.   *)
(* (A proxy that came up after the first leg is not the one it asked.)     *)
NoFalseRed ==
  /\ Concluded("verify")
  /\ route.host = "127.0.0.1" /\ route.port = VerifiedPort /\ PromptAt = "ours"
  /\ seenPort = VerifiedPort /\ CanaryMasked(HasConversation)
  => graded.routed = "pass" /\ graded.engine \in {"pass", "warn"}

(* What doctor calls a single instance is one: the session's prompts reach *)
(* no other Sordino, and our proxy was not started onto a loopback         *)
(* upstream, if no layer was edited since (main.rs:5251, "resolved the     *)
(* SAME way the proxy resolves it").                                       *)
SingleIsSingle ==
  /\ Concluded("doctor") /\ graded.single = "pass"
  => /\ PromptAt \notin {"rival", "stray"}
     /\ (\E p \in DoctorPorts : server[p] = "ours") /\ launched = ProxyUpstream
        => launched # "loopback"

(* Doctor passes only on a machine where the hooks could have a proxy: one *)
(* that binds, answers on loopback and has its record, and where a live    *)
(* record is not answered by a stranger or not at all.                     *)
NoFalseAllClear ==
  Concluded("doctor") /\ ~graded.failed =>
    /\ host \notin {"firewalled", "unbindable", "unwritable"}
    /\ LivePort => Masker(record.port)

(* The two commands read the route with two parsers: a session that verify *)
(* calls routed is never one that doctor calls foreign, and prompts that   *)
(* reach another Sordino are never called routed.                          *)
ParsersAgree ==
  SessionRouted => ~ForeignRoute /\ PromptAt = "ours"

(* Every line that doctor and verify print of a world that stood still is  *)
(* true of it, and the two agree.                                          *)
DoctorHonest ==
  /\ DoctorTypeOK
  /\ NoFalseGreen
  /\ NoFalseRed
  /\ SingleIsSingle
  /\ NoFalseAllClear
  /\ ParsersAgree
=============================================================================
