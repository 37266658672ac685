----------------------------- MODULE HooksProofs -----------------------------
(***************************************************************************)
(* Theorems about the programs sordino-hooks installs or runs: the mask    *)
(* gate (Gate), the settings files (Settings), the Codex config (Codex)    *)
(* and the doctor (Doctor), for any sessions, ports, files and events.     *)
(***************************************************************************)
EXTENDS Gate, Doctor, Settings, Codex, TLAPS, FiniteSetTheorems

-----------------------------------------------------------------------------
(* The gate.                                                               *)

USE GateAssumption

Places == {"off", "start", "heal", "up", "bake", "register", "ready", "probe",
           "state", "write", "emit", "send"}

RunType == [at : Places, kind : {"none", "routed", "plumb"}, cmd : BOOLEAN,
            opt : BOOLEAN, port : Ports \cup {0}, ok : BOOLEAN,
            cur : MaskState \cup {"none"}, line : BOOLEAN,
            moved : BOOLEAN, killed : BOOLEAN]

\* The world the hooks look at.
WorldTyped ==
    /\ registry \in {"none", "plumbed", "optout"}
    /\ baked \in Ports \cup {0} /\ proxy \in Ports \cup {0}
    /\ sticky \in Ports \cup {0}
    /\ command \in [at : {"idle", "registry", "route", "optout", "forget"},
                    port : Ports \cup {0}]
    /\ foreign \subseteq Ports /\ convOff \subseteq Sessions
    /\ master \in BOOLEAN
    /\ env \in [Sessions -> Ports \cup {0}]
    /\ hatch \in [Sessions -> BOOLEAN]

\* What a session remembers and what its hooks have read.
SessionsTyped ==
    /\ rec \in [Sessions -> MaskState \cup {"none"}]
    /\ told \in [Sessions -> MaskState \cup {"none"}]
    /\ old \in [Sessions -> BOOLEAN] /\ lost \in [Sessions -> BOOLEAN]
    /\ runs \in [Sessions -> RunType]

GateTyped == WorldTyped /\ SessionsTyped

LEMMA GateTypedImplies == GateTyped => GateTypeOK
BY DEF GateTyped, WorldTyped, SessionsTyped, GateTypeOK

LEMMA EnsureUpIs ==
  ASSUME WorldTyped, NEW p \in Ports, EnsureUp(p)
  PROVE  /\ proxy' = p /\ sticky' = p
         /\ proxy # 0 => proxy' = proxy
BY DEF EnsureUp

LEMMA MaskStateIs ==
  ASSUME GateTyped, NEW s \in Sessions, NEW cur,
         cur \in SessionMaskState(s, runs[s].opt, runs[s].port)
  PROVE  /\ cur \in MaskState \cup {"none"}
         /\ cur = "masked" => /\ env[s] # 0 /\ proxy = env[s]
                              /\ EffectiveMasking(s)
<1> USE DEF SessionMaskState, RoutedStatus, RoutedThrough, VerifiedProxy
<1>1. ResolveRouted(s) \in MaskState
      /\ (ResolveRouted(s) = "masked" => EffectiveMasking(s))
  BY DEF ResolveRouted, EffectiveMasking, MaskState, GateTyped, WorldTyped
<1>2. cur \in {"disabled", "none", "unmasked_bypass", "not_reaching"}
      \/ /\ cur = ResolveRouted(s)
         /\ runs[s].port # 0 /\ env[s] = runs[s].port /\ proxy = runs[s].port
  OBVIOUS
<1> QED  BY <1>1, <1>2 DEF MaskState

LEMMA QuietTyped == Quiet \in RunType /\ Quiet.at = "ready"
BY DEF Quiet, RunType, Places

LEMMA WorldStep == GateTyped /\ [GateNext]_gateVars => WorldTyped'
<1> SUFFICES ASSUME GateTyped, [GateNext]_gateVars PROVE WorldTyped'
  OBVIOUS
<1> USE DEF GateTyped, WorldTyped
<1>1. ASSUME NEW s \in Sessions, Launch(s) PROVE WorldTyped'
  BY <1>1 DEF Launch
<1>2. ASSUME NEW s \in Sessions, StartUp(s) PROVE WorldTyped'
  <2>1. CASE EnsureFailed  BY <1>2, <2>1 DEF StartUp, EnsureFailed
  <2>2. CASE \E p \in Ports : EnsureUp(p)
    BY <1>2, <2>2, EnsureUpIs DEF StartUp
  <2> QED  BY <1>2, <2>1, <2>2 DEF StartUp
<1>3. ASSUME NEW s \in Sessions,
             \/ StartRead(s) \/ StartHeal(s) \/ StartBake(s) \/ StartRegister(s)
             \/ Submit(s) \/ ProbeAndDecide(s) \/ ReadState(s) \/ WriteRecord(s)
             \/ Emit(s) \/ Send(s) \/ TwoWeeks(s) \/ Kill(s) \/ Exit(s)
      PROVE  WorldTyped'
  BY <1>3 DEF StartRead, StartHeal, StartBake, StartRegister, Submit,
     ProbeAndDecide, ReadState, WriteRecord, Emit, Send, TwoWeeks, Kill, Exit,
     SessionsTyped, RunType
<1>4. ASSUME NEW s \in Sessions, MaskConversation(s) \/ LiveReload(s)
      PROVE  WorldTyped'
  BY <1>4 DEF MaskConversation, LiveReload, Event
<1>5. CASE CliReserve  BY <1>5, EnsureUpIs DEF CliReserve
<1>6. CASE CliRegistry \/ CliRoute \/ CliStrip \/ CliOptout
  BY <1>6 DEF CliRegistry, CliRoute, CliStrip, CliOptout, NoCommand
<1>7. CASE MaskProject \/ ProxyDies \/ PortTaken \/ PruneElsewhere
  BY <1>7 DEF MaskProject, ProxyDies, PortTaken, PruneElsewhere, Event
<1>8. CASE UNCHANGED gateVars  BY <1>8 DEF gateVars
<1> QED
  BY <1>1, <1>2, <1>3, <1>4, <1>5, <1>6, <1>7, <1>8 DEF GateNext

LEMMA RunUpdateTyped ==
  ASSUME SessionsTyped, NEW s \in Sessions, NEW x \in RunType,
         runs' = [runs EXCEPT ![s] = x]
  PROVE  runs' \in [Sessions -> RunType]
BY DEF SessionsTyped

LEMMA GotoTyped ==
  ASSUME SessionsTyped, NEW s \in Sessions, NEW at \in Places, Goto(s, at)
  PROVE  runs' \in [Sessions -> RunType]
<1>1. [runs[s] EXCEPT !.at = at] \in RunType  BY DEF SessionsTyped, RunType
<1>2. runs' = [runs EXCEPT ![s] = [runs[s] EXCEPT !.at = at]]
  BY DEF SessionsTyped, RunType, Goto
<1> QED  BY <1>1, <1>2, RunUpdateTyped

LEMMA DoneTyped ==
  ASSUME SessionsTyped, NEW s \in Sessions, Done(s)
  PROVE  runs' \in [Sessions -> RunType]
BY QuietTyped, RunUpdateTyped DEF Done

(***************************************************************************)
(* A hook's own step: what it does to its run.                             *)
(***************************************************************************)
LEMMA RunStep ==
  ASSUME GateTyped, NEW s \in Sessions,
         \/ Launch(s) \/ StartRead(s) \/ StartHeal(s) \/ StartUp(s)
         \/ StartBake(s) \/ StartRegister(s) \/ Submit(s) \/ ProbeAndDecide(s)
         \/ ReadState(s) \/ WriteRecord(s) \/ Emit(s) \/ Send(s) \/ Kill(s)
         \/ Exit(s)
  PROVE  runs' \in [Sessions -> RunType]
<1> USE DEF GateTyped
<1>0. runs \in [Sessions -> RunType] /\ runs[s] \in RunType  BY DEF SessionsTyped
<1>1. CASE Launch(s) \/ Emit(s) \/ Exit(s)
  BY <1>1, GotoTyped DEF Launch, Emit, Exit, Places
<1>2. CASE StartHeal(s) \/ StartRegister(s) \/ Send(s)
  BY <1>2, DoneTyped DEF StartHeal, StartRegister, Send
<1>3. CASE StartBake(s)
  BY <1>3, DoneTyped, GotoTyped DEF StartBake, Places
<1>4. CASE StartRead(s)
  <2>1. ASSUME NEW k \in {"routed", "plumb"},
               runs' = [runs EXCEPT ![s].at = "up", ![s].kind = k]
        PROVE  runs' \in [Sessions -> RunType]
    <3>1. [runs[s] EXCEPT !.at = "up", !.kind = k] \in RunType
      BY <1>0 DEF RunType, Places
    <3>2. runs' = [runs EXCEPT ![s] = [runs[s] EXCEPT !.at = "up", !.kind = k]]
      BY <1>0, <2>1
    <3> QED  BY <3>1, <3>2, RunUpdateTyped
  <2> QED  BY <1>4, <2>1, DoneTyped, GotoTyped DEF StartRead, Places
<1>5. CASE StartUp(s)
  <2>1. ASSUME NEW p \in Ports,
               runs' = [runs EXCEPT ![s].at = "bake", ![s].port = p]
        PROVE  runs' \in [Sessions -> RunType]
    <3>1. [runs[s] EXCEPT !.at = "bake", !.port = p] \in RunType
      BY <1>0 DEF RunType, Places
    <3>2. runs' = [runs EXCEPT ![s] = [runs[s] EXCEPT !.at = "bake", !.port = p]]
      BY <1>0, <2>1
    <3> QED  BY <3>1, <3>2, RunUpdateTyped
  <2> QED  BY <1>5, <2>1, DoneTyped DEF StartUp
<1>6. CASE Submit(s)
  <2> DEFINE o == registry = "optout"
  <2>1. PICK c \in BOOLEAN :
          runs' = [runs EXCEPT ![s].at = "probe", ![s].cmd = c,
                     ![s].opt = o, ![s].port = baked]
    BY <1>6 DEF Submit
  <2>2. o \in BOOLEAN /\ baked \in Ports \cup {0}  BY DEF WorldTyped
  <2> HIDE DEF o
  <2> DEFINE x == [runs[s] EXCEPT !.at = "probe", !.cmd = c, !.opt = o,
                                  !.port = baked]
  <2>3. x \in RunType  BY <1>0, <2>2 DEF RunType, Places
  <2>4. runs' = [runs EXCEPT ![s] = x]  BY <1>0, <2>1
  <2> QED  BY <2>3, <2>4, RunUpdateTyped
<1>7. CASE ProbeAndDecide(s)
  <2>1. ASSUME NEW ok \in BOOLEAN,
               runs' = [runs EXCEPT ![s].at = "state", ![s].ok = ok,
                                    ![s].moved = FALSE]
        PROVE  runs' \in [Sessions -> RunType]
    <3> DEFINE x == [runs[s] EXCEPT !.at = "state", !.ok = ok, !.moved = FALSE]
    <3>1. x \in RunType  BY <1>0 DEF RunType, Places
    <3>2. runs' = [runs EXCEPT ![s] = x]  BY <1>0, <2>1
    <3> QED  BY <3>1, <3>2, RunUpdateTyped
  <2>2. IdentityOk(s) \subseteq BOOLEAN  BY DEF IdentityOk, VerifiedProxy
  <2> QED  BY <1>7, <2>1, <2>2, DoneTyped DEF ProbeAndDecide
<1>8. CASE ReadState(s)
  <2>1. PICK cur \in MaskState \cup {"none"} :
          runs' = [runs EXCEPT ![s].cur = cur,
                     ![s].at = IF cur = "none" THEN "send" ELSE "write"]
    BY <1>8, MaskStateIs DEF ReadState
  <2> DEFINE x == [runs[s] EXCEPT !.cur = cur,
                     !.at = IF cur = "none" THEN "send" ELSE "write"]
  <2>2. x \in RunType  BY <1>0, <2>1 DEF RunType, Places
  <2>3. runs' = [runs EXCEPT ![s] = x]  BY <1>0, <2>1
  <2> QED  BY <2>2, <2>3, RunUpdateTyped
<1>9. CASE WriteRecord(s)
  <2> DEFINE n == ShouldNarrate(rec[s], runs[s].cur)
             x == [runs[s] EXCEPT !.at = "emit", !.line = n]
  <2>1. n \in BOOLEAN  BY DEF ShouldNarrate
  <2>2. runs' = [runs EXCEPT ![s] = x]  BY <1>0, <1>9 DEF WriteRecord
  <2> HIDE DEF n
  <2>3. x \in RunType  BY <1>0, <2>1 DEF RunType, Places
  <2> QED  BY <2>2, <2>3, RunUpdateTyped
<1>10. CASE Kill(s)
  <2> DEFINE x == [runs[s] EXCEPT !.at = "send", !.killed = TRUE]
  <2>1. x \in RunType  BY <1>0 DEF RunType, Places
  <2>2. runs' = [runs EXCEPT ![s] = x]  BY <1>0, <1>10 DEF Kill
  <2> QED  BY <2>1, <2>2, RunUpdateTyped
<1> QED
  BY <1>1, <1>2, <1>3, <1>4, <1>5, <1>6, <1>7, <1>8, <1>9, <1>10

LEMMA EventTyped ==
  ASSUME SessionsTyped, Event
  PROVE  runs' \in [Sessions -> RunType]
<1> DEFINE m(s) == runs[s].at \in {"state", "write", "emit", "send"}
<1>1. runs' = [s \in Sessions |-> [runs[s] EXCEPT !.moved = m(s)]]
  BY DEF Event
<1>2. ASSUME NEW s \in Sessions PROVE [runs[s] EXCEPT !.moved = m(s)] \in RunType
  <2>1. m(s) \in BOOLEAN  OBVIOUS
  <2> HIDE DEF m
  <2> QED  BY <2>1 DEF SessionsTyped, RunType
<1> QED  BY <1>1, <1>2

LEMMA SessionsStep == GateTyped /\ [GateNext]_gateVars => SessionsTyped'
<1> SUFFICES ASSUME GateTyped, [GateNext]_gateVars PROVE SessionsTyped'
  OBVIOUS
<1> USE DEF GateTyped
<1>1. ASSUME UNCHANGED <<rec, told, old, lost>>, runs' \in [Sessions -> RunType]
      PROVE  SessionsTyped'
  BY <1>1 DEF SessionsTyped
<1>2. ASSUME NEW s \in Sessions,
             \/ Launch(s) \/ StartRead(s) \/ StartHeal(s) \/ StartUp(s)
             \/ StartBake(s) \/ StartRegister(s) \/ Submit(s) \/ ProbeAndDecide(s)
             \/ ReadState(s) \/ Send(s) \/ Exit(s)
      PROVE  SessionsTyped'
  <2>1. UNCHANGED <<rec, told, old, lost>>
    BY <1>2 DEF Launch, StartRead, StartHeal, StartUp, StartBake, StartRegister,
       Submit, ProbeAndDecide, ReadState, Send, Exit
  <2> QED  BY <1>1, <1>2, <2>1, RunStep
<1>3. ASSUME NEW s \in Sessions, WriteRecord(s) PROVE SessionsTyped'
  <2>1. runs' \in [Sessions -> RunType]  BY <1>3, RunStep
  <2>2. /\ rec' \in [Sessions -> MaskState \cup {"none"}]
        /\ old' \in [Sessions -> BOOLEAN] /\ told' = told
    BY <1>3 DEF WriteRecord, SessionsTyped, RunType
  <2>3. lost' \in [Sessions -> BOOLEAN]  BY <1>3 DEF WriteRecord
  <2> QED  BY <2>1, <2>2, <2>3 DEF SessionsTyped
<1>4. ASSUME NEW s \in Sessions, Emit(s) PROVE SessionsTyped'
  <2>1. runs' \in [Sessions -> RunType]  BY <1>4, RunStep
  <2>2. told' \in [Sessions -> MaskState \cup {"none"}]
    BY <1>4 DEF Emit, SessionsTyped, RunType
  <2> QED  BY <1>4, <2>1, <2>2 DEF Emit, SessionsTyped
<1>5. ASSUME NEW s \in Sessions, Kill(s) PROVE SessionsTyped'
  <2> DEFINE l == lost[s] \/ runs[s].at = "emit"
  <2>1. runs' \in [Sessions -> RunType]  BY <1>5, RunStep
  <2>2. lost' = [lost EXCEPT ![s] = l]  BY <1>5 DEF Kill
  <2>3. l \in BOOLEAN  OBVIOUS
  <2> HIDE DEF l
  <2>4. lost' \in [Sessions -> BOOLEAN]  BY <2>2, <2>3 DEF SessionsTyped
  <2> QED  BY <1>5, <2>1, <2>4 DEF Kill, SessionsTyped
<1>6. ASSUME NEW s \in Sessions, TwoWeeks(s) PROVE SessionsTyped'
  BY <1>6 DEF TwoWeeks, SessionsTyped
<1>7. ASSUME NEW s \in Sessions, MaskConversation(s) \/ LiveReload(s)
      PROVE  SessionsTyped'
  BY <1>1, <1>7, EventTyped DEF MaskConversation, LiveReload
<1>8. CASE MaskProject \/ ProxyDies \/ PortTaken
  BY <1>1, <1>8, EventTyped DEF MaskProject, ProxyDies, PortTaken
<1>9. CASE PruneElsewhere
  <2>1. lost' \in [Sessions -> BOOLEAN]  BY <1>9 DEF PruneElsewhere
  <2> QED  BY <1>9, <2>1 DEF PruneElsewhere, SessionsTyped
<1>10. CASE CliReserve \/ CliRegistry \/ CliRoute \/ CliStrip \/ CliOptout
  BY <1>10 DEF CliReserve, CliRegistry, CliRoute, CliStrip, CliOptout, SessionsTyped
<1>11. CASE UNCHANGED gateVars  BY <1>11 DEF gateVars, SessionsTyped
<1> QED
  BY <1>2, <1>3, <1>4, <1>5, <1>6, <1>7, <1>8, <1>9, <1>10, <1>11 DEF GateNext

(***************************************************************************)
(* What a hook past its probe still knows, unless it was killed or the     *)
(* world moved: the prompt it lets through goes to the proxy it probed,    *)
(* and a state it read as "masked" is masked.  What the model was told     *)
(* agrees with the record, but between the record's write and the line.    *)
(***************************************************************************)
PastProbe == {"state", "write", "emit", "send"}

Undisturbed(s) == ~runs[s].killed /\ ~runs[s].moved

ProbeHolds(s) ==
    runs[s].at \in PastProbe /\ Undisturbed(s) /\ MustCheck(s) =>
        env[s] = runs[s].port /\ proxy = runs[s].port

StateHolds(s) ==
    /\ runs[s].at \in {"write", "emit", "send"} /\ Undisturbed(s)
    /\ runs[s].cur = "masked"
    => env[s] # 0 /\ proxy = env[s] /\ EffectiveMasking(s)

Recorded(s) ==
    \/ runs[s].at = "emit"
    \/ runs[s].at = "send" /\ ~runs[s].killed /\ runs[s].cur # "none"

RecordHolds(s) ==
    /\ Recorded(s) => ~old[s]
    /\ ~lost[s] =>
         /\ Recorded(s) => rec[s] = runs[s].cur
         /\ runs[s].at # "emit" => (told[s] = "masked" => rec[s] = "masked")
         /\ runs[s].at = "emit" /\ ~runs[s].line
              => (told[s] = "masked" => runs[s].cur = "masked")

SessionHolds(s) == ProbeHolds(s) /\ StateHolds(s) /\ RecordHolds(s)

GateInv == GateTyped /\ \A s \in Sessions : SessionHolds(s)

\* The hook of s itself takes no step: it may be marked as overtaken, the
\* world may change only then, and the record may be pruned when it is old.
LEMMA Bystander ==
  ASSUME GateTyped, NEW s \in Sessions, SessionHolds(s),
         \/ /\ runs'[s] = runs[s] /\ env'[s] = env[s] /\ master' = master
            /\ convOff' = convOff /\ (proxy # 0 => proxy' = proxy)
         \/ runs'[s] = [runs[s] EXCEPT !.moved = runs[s].at \in PastProbe],
         told'[s] = told[s], hatch'[s] = hatch[s],
         \/ rec'[s] = rec[s] /\ lost'[s] = lost[s] /\ old'[s] = old[s]
         \/ old[s] /\ lost'[s] /\ ~old'[s]
  PROVE  SessionHolds(s)'
<1> USE DEF SessionHolds, GateTyped, SessionsTyped
<1>1. /\ runs[s] \in RunType
      /\ runs'[s].at = runs[s].at /\ runs'[s].killed = runs[s].killed
      /\ runs'[s].cur = runs[s].cur /\ runs'[s].line = runs[s].line
      /\ runs'[s].port = runs[s].port /\ runs'[s].opt = runs[s].opt
      /\ runs'[s].cmd = runs[s].cmd
  BY DEF RunType
<1>2. RecordHolds(s)'  BY <1>1 DEF RecordHolds, Recorded
<1>3. CASE /\ runs'[s] = runs[s] /\ env'[s] = env[s] /\ master' = master
           /\ convOff' = convOff /\ (proxy # 0 => proxy' = proxy)
  <2>1. ProbeHolds(s)'
    BY <1>3 DEF ProbeHolds, MustCheck, Undisturbed
  <2>2. StateHolds(s)'
    BY <1>3 DEF StateHolds, Undisturbed, EffectiveMasking
  <2> QED  BY <1>2, <2>1, <2>2
<1>4. CASE runs'[s] = [runs[s] EXCEPT !.moved = runs[s].at \in PastProbe]
  <2>1. runs'[s].moved = (runs[s].at \in PastProbe)  BY <1>1, <1>4 DEF RunType
  <2> QED
    BY <1>1, <1>2, <2>1 DEF ProbeHolds, StateHolds, Undisturbed, PastProbe
<1> QED  BY <1>3, <1>4

(***************************************************************************)
(* The hook of s steps.                                                    *)
(***************************************************************************)
\* Before its probe, and after the prompt, a hook has nothing to keep but the
\* agreement of the record with what the model was told.
LEMMA AtLarge ==
  ASSUME GateTyped, NEW s \in Sessions, SessionHolds(s),
         runs[s].at # "emit", runs'[s].at \notin PastProbe,
         rec'[s] = rec[s], told'[s] = told[s], lost'[s] = lost[s]
  PROVE  SessionHolds(s)'
<1>1. RecordHolds(s)'
  BY DEF SessionHolds, RecordHolds, Recorded, PastProbe, SessionsTyped, GateTyped
<1> QED
  BY <1>1 DEF SessionHolds, ProbeHolds, StateHolds, PastProbe

LEMMA StartStep ==
  ASSUME GateTyped, NEW s \in Sessions, SessionHolds(s),
         \/ Launch(s) \/ StartRead(s) \/ StartHeal(s) \/ StartUp(s)
         \/ StartBake(s) \/ StartRegister(s) \/ Submit(s) \/ Send(s) \/ Exit(s)
  PROVE  SessionHolds(s)'
<1>1. runs \in [Sessions -> RunType] /\ runs[s] \in RunType
  BY DEF GateTyped, SessionsTyped
<1>2. runs[s].at # "emit" /\ UNCHANGED <<rec, told, lost>>
  BY DEF Launch, StartRead, StartHeal, StartUp, StartBake, StartRegister,
     Submit, Send, Exit
<1>3. ASSUME Done(s) PROVE runs'[s].at \notin PastProbe
  BY <1>1, <1>3, QuietTyped DEF Done, PastProbe
<1>4. ASSUME NEW at, Goto(s, at) PROVE runs'[s].at = at
  BY <1>1, <1>4 DEF Goto, RunType
<1>5. runs'[s].at \notin PastProbe
  <2>1. CASE Launch(s) \/ Exit(s)
    BY <1>4, <2>1 DEF Launch, Exit, PastProbe
  <2>2. CASE StartHeal(s) \/ StartRegister(s) \/ Send(s)
    BY <1>3, <2>2 DEF StartHeal, StartRegister, Send
  <2>3. CASE StartBake(s)  BY <1>3, <1>4, <2>3 DEF StartBake, PastProbe
  <2>4. CASE StartRead(s)
    <3>1. ASSUME NEW k, runs' = [runs EXCEPT ![s].at = "up", ![s].kind = k]
          PROVE  runs'[s].at = "up"
      BY <1>1, <3>1 DEF RunType
    <3> QED  BY <1>3, <1>4, <2>4, <3>1 DEF StartRead, PastProbe
  <2>5. CASE StartUp(s)
    <3>1. ASSUME NEW p, runs' = [runs EXCEPT ![s].at = "bake", ![s].port = p]
          PROVE  runs'[s].at = "bake"
      BY <1>1, <3>1 DEF RunType
    <3> QED  BY <1>3, <2>5, <3>1 DEF StartUp, PastProbe
  <2>6. CASE Submit(s)
    <3> DEFINE o == registry = "optout"
    <3>1. PICK c \in BOOLEAN :
            runs' = [runs EXCEPT ![s].at = "probe", ![s].cmd = c,
                       ![s].opt = o, ![s].port = baked]
      BY <2>6 DEF Submit
    <3> HIDE DEF o
    <3>2. runs'[s].at = "probe"  BY <1>1, <3>1 DEF RunType
    <3> QED  BY <3>2 DEF PastProbe
  <2> QED  BY <2>1, <2>2, <2>3, <2>4, <2>5, <2>6
<1> QED  BY <1>2, <1>5, AtLarge

\* The probe answers for the port the session is on, so a prompt that had to
\* be checked is let through only when our proxy answered there.
LEMMA ProbeStep ==
  ASSUME GateTyped, NEW s \in Sessions, SessionHolds(s), ProbeAndDecide(s)
  PROVE  SessionHolds(s)'
<1>1. runs \in [Sessions -> RunType] /\ runs[s] \in RunType
  BY DEF GateTyped, SessionsTyped
<1>2. runs[s].at = "probe" /\ UNCHANGED <<env, proxy, hatch, rec, told, old, lost>>
  BY DEF ProbeAndDecide
<1>3. CASE Done(s)
  BY <1>1, <1>2, <1>3, QuietTyped, AtLarge DEF Done, PastProbe
<1>4. ASSUME NEW ok \in IdentityOk(s),
             ~(/\ BlockUnverified(runs[s].opt, runs[s].port # 0, ok, hatch[s])
               /\ ~runs[s].cmd),
             runs' = [runs EXCEPT ![s].at = "state", ![s].ok = ok,
                                  ![s].moved = FALSE]
      PROVE  SessionHolds(s)'
  <2>1. /\ runs'[s].at = "state" /\ runs'[s].port = runs[s].port
        /\ runs'[s].opt = runs[s].opt /\ runs'[s].cmd = runs[s].cmd
    BY <1>1, <1>4 DEF RunType
  <2>2. MustCheck(s) => RoutedThrough(s, runs[s].port) /\ VerifiedProxy(runs[s].port)
    <3>1. MustCheck(s) => ok
      BY <1>1, <1>4 DEF MustCheck, BlockUnverified
    <3> QED  BY <3>1, <1>4 DEF IdentityOk
  <2>3. ProbeHolds(s)'
    BY <1>2, <2>1, <2>2 DEF ProbeHolds, MustCheck, RoutedThrough, VerifiedProxy
  <2>4. RecordHolds(s)'
    BY <1>2, <2>1 DEF SessionHolds, RecordHolds, Recorded
  <2> QED  BY <2>1, <2>3, <2>4 DEF SessionHolds, StateHolds
<1> QED  BY <1>3, <1>4 DEF ProbeAndDecide

\* Past the probe a step that only advances the run keeps what it knows.
LEMMA Advance ==
  ASSUME GateTyped, NEW s \in Sessions, ProbeHolds(s), runs[s].at \in PastProbe,
         UNCHANGED <<env, proxy, hatch>>,
         runs'[s].port = runs[s].port, runs'[s].opt = runs[s].opt,
         runs'[s].cmd = runs[s].cmd,
         Undisturbed(s)' => Undisturbed(s)
  PROVE  ProbeHolds(s)'
BY DEF ProbeHolds, MustCheck

LEMMA StateStep ==
  ASSUME GateTyped, NEW s \in Sessions, SessionHolds(s), ReadState(s)
  PROVE  SessionHolds(s)'
<1>1. runs \in [Sessions -> RunType] /\ runs[s] \in RunType
  BY DEF GateTyped, SessionsTyped
<1>2. /\ runs[s].at = "state"
      /\ UNCHANGED <<env, proxy, hatch, master, convOff, rec, told, old, lost>>
  BY DEF ReadState
<1>3. PICK cur \in SessionMaskState(s, runs[s].opt, runs[s].port) :
        runs' = [runs EXCEPT ![s].cur = cur,
                   ![s].at = IF cur = "none" THEN "send" ELSE "write"]
  BY DEF ReadState
<1>4. /\ runs'[s].at = IF cur = "none" THEN "send" ELSE "write"
      /\ runs'[s].cur = cur
      /\ runs'[s].port = runs[s].port /\ runs'[s].opt = runs[s].opt
      /\ runs'[s].cmd = runs[s].cmd /\ runs'[s].killed = runs[s].killed
      /\ runs'[s].moved = runs[s].moved
  BY <1>1, <1>3 DEF RunType
<1>5. ProbeHolds(s)'
  BY <1>2, <1>4, Advance DEF SessionHolds, PastProbe, Undisturbed
<1>6. StateHolds(s)'
  BY <1>2, <1>4, MaskStateIs DEF StateHolds, EffectiveMasking
<1>7. RecordHolds(s)'
  BY <1>2, <1>4 DEF SessionHolds, RecordHolds, Recorded
<1> QED  BY <1>5, <1>6, <1>7 DEF SessionHolds

\* The line that follows the record is left out only when the record already
\* said so, or when neither state is one the model has to hear about.
LEMMA WriteStep ==
  ASSUME GateTyped, NEW s \in Sessions, SessionHolds(s), WriteRecord(s)
  PROVE  SessionHolds(s)'
<1>1. runs \in [Sessions -> RunType] /\ runs[s] \in RunType
  BY DEF GateTyped, SessionsTyped
<1>2. runs[s].at = "write" /\ UNCHANGED <<env, proxy, hatch, master, convOff, told>>
  BY DEF WriteRecord
<1>3. rec'[s] = runs[s].cur /\ ~old'[s] /\ lost'[s] = lost[s]
  BY DEF WriteRecord, GateTyped, SessionsTyped
<1> DEFINE n == ShouldNarrate(rec[s], runs[s].cur)
<1>4. n \in BOOLEAN  BY DEF ShouldNarrate
<1>5. ~n => rec[s] # "masked" \/ rec[s] = runs[s].cur  BY DEF ShouldNarrate
<1>6. runs' = [runs EXCEPT ![s].at = "emit", ![s].line = n]
  BY DEF WriteRecord
<1> HIDE DEF n
<1>7. /\ runs'[s].at = "emit" /\ runs'[s].cur = runs[s].cur
      /\ runs'[s].port = runs[s].port /\ runs'[s].opt = runs[s].opt
      /\ runs'[s].cmd = runs[s].cmd /\ runs'[s].killed = runs[s].killed
      /\ runs'[s].moved = runs[s].moved /\ runs'[s].line = n
  BY <1>1, <1>6 DEF RunType
<1>8. ProbeHolds(s)'
  BY <1>2, <1>7, Advance DEF SessionHolds, PastProbe, Undisturbed
<1>9. StateHolds(s)'
  BY <1>2, <1>7 DEF SessionHolds, StateHolds, EffectiveMasking, Undisturbed
<1>10. RecordHolds(s)'
  BY <1>2, <1>3, <1>5, <1>7 DEF SessionHolds, RecordHolds, Recorded
<1> QED  BY <1>8, <1>9, <1>10 DEF SessionHolds

LEMMA EmitStep ==
  ASSUME GateTyped, NEW s \in Sessions, SessionHolds(s), Emit(s)
  PROVE  SessionHolds(s)'
<1>1. runs \in [Sessions -> RunType] /\ runs[s] \in RunType
  BY DEF GateTyped, SessionsTyped
<1>2. /\ runs[s].at = "emit"
      /\ UNCHANGED <<env, proxy, hatch, master, convOff, rec, old, lost>>
      /\ runs' = [runs EXCEPT ![s].at = "send"]
  BY DEF Emit, Goto
<1>3. told'[s] = IF runs[s].line THEN runs[s].cur ELSE told[s]
  BY DEF Emit, GateTyped, SessionsTyped
<1>4. /\ runs'[s].at = "send" /\ runs'[s].cur = runs[s].cur
      /\ runs'[s].port = runs[s].port /\ runs'[s].opt = runs[s].opt
      /\ runs'[s].cmd = runs[s].cmd /\ runs'[s].killed = runs[s].killed
      /\ runs'[s].moved = runs[s].moved
  BY <1>1, <1>2 DEF RunType
<1>5. ProbeHolds(s)'
  BY <1>2, <1>4, Advance DEF SessionHolds, PastProbe, Undisturbed
<1>6. StateHolds(s)'
  BY <1>2, <1>4 DEF SessionHolds, StateHolds, EffectiveMasking, Undisturbed
<1>7. RecordHolds(s)'
  BY <1>2, <1>3, <1>4 DEF SessionHolds, RecordHolds, Recorded
<1> QED  BY <1>5, <1>6, <1>7 DEF SessionHolds

LEMMA KillStep ==
  ASSUME GateTyped, NEW s \in Sessions, SessionHolds(s), Kill(s)
  PROVE  SessionHolds(s)'
<1>1. runs \in [Sessions -> RunType] /\ runs[s] \in RunType
  BY DEF GateTyped, SessionsTyped
<1>2. UNCHANGED <<rec, told, old>>
      /\ runs' = [runs EXCEPT ![s].at = "send", ![s].killed = TRUE]
      /\ (lost'[s] <=> lost[s] \/ runs[s].at = "emit")
  <2> DEFINE l == lost[s] \/ runs[s].at = "emit"
  <2>1. lost' = [lost EXCEPT ![s] = l]  BY DEF Kill
  <2> HIDE DEF l
  <2>2. lost'[s] = l  BY <2>1 DEF GateTyped, SessionsTyped
  <2> QED  BY <2>2 DEF Kill, l
<1>3. runs'[s].at = "send" /\ runs'[s].killed
  BY <1>1, <1>2 DEF RunType
<1>4. RecordHolds(s)'
  BY <1>2, <1>3 DEF SessionHolds, RecordHolds, Recorded
<1> QED
  BY <1>3, <1>4 DEF SessionHolds, ProbeHolds, StateHolds, Undisturbed

LEMMA OldStep ==
  ASSUME GateTyped, NEW s \in Sessions, SessionHolds(s), TwoWeeks(s)
  PROVE  SessionHolds(s)'
BY DEF TwoWeeks, SessionHolds, ProbeHolds, StateHolds, RecordHolds, Recorded,
   PastProbe

LEMMA OwnStep ==
  ASSUME GateTyped, NEW s \in Sessions, SessionHolds(s),
         \/ Launch(s) \/ StartRead(s) \/ StartHeal(s) \/ StartUp(s)
         \/ StartBake(s) \/ StartRegister(s) \/ Submit(s) \/ ProbeAndDecide(s)
         \/ ReadState(s) \/ WriteRecord(s) \/ Emit(s) \/ Send(s) \/ Kill(s)
         \/ Exit(s) \/ TwoWeeks(s)
  PROVE  SessionHolds(s)'
BY StartStep, ProbeStep, StateStep, WriteStep, EmitStep, KillStep, OldStep

(***************************************************************************)
(* The hooks of the other sessions, while s takes a step of its own.       *)
(***************************************************************************)
LEMMA OtherRuns ==
  ASSUME GateTyped, NEW s \in Sessions, NEW t \in Sessions \ {s},
         \/ Launch(s) \/ StartRead(s) \/ StartHeal(s) \/ StartUp(s)
         \/ StartBake(s) \/ StartRegister(s) \/ Submit(s) \/ ProbeAndDecide(s)
         \/ ReadState(s) \/ WriteRecord(s) \/ Emit(s) \/ Send(s) \/ Kill(s)
         \/ Exit(s) \/ TwoWeeks(s)
  PROVE  runs'[t] = runs[t]
<1>1. runs \in [Sessions -> RunType]  BY DEF GateTyped, SessionsTyped
<1>2. ASSUME Done(s) PROVE runs'[t] = runs[t]  BY <1>1, <1>2 DEF Done
<1>3. ASSUME NEW at, Goto(s, at) PROVE runs'[t] = runs[t]
  BY <1>1, <1>3 DEF Goto
<1>4. CASE Launch(s) \/ StartHeal(s) \/ StartBake(s) \/ StartRegister(s)
             \/ Emit(s) \/ Send(s) \/ Exit(s)
  BY <1>2, <1>3, <1>4 DEF Launch, StartHeal, StartBake, StartRegister, Emit,
     Send, Exit
<1>5. CASE StartRead(s)  BY <1>1, <1>2, <1>3, <1>5 DEF StartRead
<1>6. CASE StartUp(s)  BY <1>1, <1>2, <1>6 DEF StartUp
<1>7. CASE Submit(s)  BY <1>1, <1>7 DEF Submit
<1>8. CASE ProbeAndDecide(s)  BY <1>1, <1>2, <1>8 DEF ProbeAndDecide
<1>9. CASE ReadState(s)  BY <1>1, <1>9 DEF ReadState
<1>10. CASE WriteRecord(s)  BY <1>1, <1>10 DEF WriteRecord
<1>11. CASE Kill(s)  BY <1>1, <1>11 DEF Kill
<1>12. CASE TwoWeeks(s)  BY <1>12 DEF TwoWeeks
<1> QED
  BY <1>4, <1>5, <1>6, <1>7, <1>8, <1>9, <1>10, <1>11, <1>12

LEMMA OtherStep ==
  ASSUME GateTyped, NEW s \in Sessions, NEW t \in Sessions \ {s}, SessionHolds(t),
         \/ Launch(s) \/ StartRead(s) \/ StartHeal(s) \/ StartUp(s)
         \/ StartBake(s) \/ StartRegister(s) \/ Submit(s) \/ ProbeAndDecide(s)
         \/ ReadState(s) \/ WriteRecord(s) \/ Emit(s) \/ Send(s) \/ Kill(s)
         \/ Exit(s) \/ TwoWeeks(s)
  PROVE  SessionHolds(t)'
<1>1. runs'[t] = runs[t]  BY OtherRuns
<1>2. /\ env'[t] = env[t] /\ hatch'[t] = hatch[t]
      /\ master' = master /\ convOff' = convOff
  BY DEF Launch, StartRead, StartHeal, StartUp, StartBake, StartRegister, Submit,
     ProbeAndDecide, ReadState, WriteRecord, Emit, Send, Kill, Exit, TwoWeeks,
     GateTyped, WorldTyped
<1>3. proxy # 0 => proxy' = proxy
  <2>1. CASE StartUp(s)
    <3>1. CASE EnsureFailed  BY <3>1 DEF EnsureFailed
    <3>2. ASSUME NEW p \in Ports, EnsureUp(p) PROVE proxy # 0 => proxy' = proxy
      BY <3>2, EnsureUpIs DEF GateTyped
    <3> QED  BY <2>1, <3>1, <3>2 DEF StartUp
  <2>2. CASE ~StartUp(s)
    BY <2>2 DEF Launch, StartRead, StartHeal, StartBake, StartRegister, Submit,
       ProbeAndDecide, ReadState, WriteRecord, Emit, Send, Kill, Exit, TwoWeeks
  <2> QED  BY <2>1, <2>2
<1>4. /\ told'[t] = told[t]
      /\ \/ rec'[t] = rec[t] /\ lost'[t] = lost[t] /\ old'[t] = old[t]
         \/ old[t] /\ lost'[t] /\ ~old'[t]
  <2> USE DEF GateTyped, SessionsTyped
  <2>1. CASE WriteRecord(s)
    <3>1. /\ told'[t] = told[t] /\ ~old'[t]
          /\ rec'[t] = IF old[t] THEN "none" ELSE rec[t]
          /\ (lost'[t] <=> lost[t] \/ old[t])
      BY <2>1 DEF WriteRecord
    <3>2. lost'[t] \in BOOLEAN /\ old'[t] \in BOOLEAN
      BY <2>1 DEF WriteRecord
    <3> QED  BY <3>1, <3>2
  <2>2. CASE Emit(s)  BY <2>2 DEF Emit
  <2>3. CASE Kill(s)  BY <2>3 DEF Kill
  <2>4. CASE TwoWeeks(s)  BY <2>4 DEF TwoWeeks
  <2>5. CASE \/ Launch(s) \/ StartRead(s) \/ StartHeal(s) \/ StartUp(s)
             \/ StartBake(s) \/ StartRegister(s) \/ Submit(s)
             \/ ProbeAndDecide(s) \/ ReadState(s) \/ Send(s) \/ Exit(s)
    BY <2>5 DEF Launch, StartRead, StartHeal, StartUp, StartBake, StartRegister,
       Submit, ProbeAndDecide, ReadState, Send, Exit
  <2> QED  BY <2>1, <2>2, <2>3, <2>4, <2>5
<1> QED  BY <1>1, <1>2, <1>3, <1>4, Bystander

(***************************************************************************)
(* Commands, switches, ports and faults: no hook steps.                    *)
(***************************************************************************)
LEMMA WorldMoves ==
  ASSUME GateTyped, NEW t \in Sessions, SessionHolds(t),
         \/ \E s \in Sessions : MaskConversation(s) \/ LiveReload(s)
         \/ CliReserve \/ CliRegistry \/ CliRoute \/ CliStrip \/ CliOptout
         \/ MaskProject \/ ProxyDies \/ PortTaken \/ PruneElsewhere
         \/ UNCHANGED gateVars
  PROVE  SessionHolds(t)'
<1>1. CASE \/ \E s \in Sessions : MaskConversation(s) \/ LiveReload(s)
           \/ MaskProject \/ ProxyDies \/ PortTaken
  <2>1. /\ Event /\ UNCHANGED <<told, hatch, rec, lost, old>>
    BY <1>1 DEF MaskConversation, LiveReload, MaskProject, ProxyDies, PortTaken
  <2>2. runs'[t] = [runs[t] EXCEPT !.moved = runs[t].at \in PastProbe]
    BY <2>1 DEF Event, PastProbe
  <2> QED  BY <2>1, <2>2, Bystander
<1>2. CASE CliReserve \/ CliRegistry \/ CliRoute \/ CliStrip \/ CliOptout
             \/ UNCHANGED gateVars
  <2>1. UNCHANGED <<runs, env, master, convOff, told, hatch, rec, lost, old>>
    BY <1>2 DEF CliReserve, CliRegistry, CliRoute, CliStrip, CliOptout, gateVars
  <2>2. proxy # 0 => proxy' = proxy
    BY <1>2, EnsureUpIs DEF CliReserve, CliRegistry, CliRoute, CliStrip,
       CliOptout, gateVars, GateTyped
  <2> QED  BY <2>1, <2>2, Bystander
<1>3. CASE PruneElsewhere
  <2> USE DEF GateTyped, SessionsTyped
  <2>1. /\ rec'[t] = IF old[t] THEN "none" ELSE rec[t]
        /\ (lost'[t] <=> lost[t] \/ old[t]) /\ ~old'[t]
    BY <1>3 DEF PruneElsewhere
  <2>2. lost'[t] \in BOOLEAN /\ old'[t] \in BOOLEAN  BY <1>3 DEF PruneElsewhere
  <2>3. UNCHANGED <<runs, env, master, convOff, told, hatch, proxy>>
    BY <1>3 DEF PruneElsewhere
  <2> QED  BY <2>1, <2>2, <2>3, Bystander
<1> QED  BY <1>1, <1>2, <1>3

(***************************************************************************)
(* The invariant of the hooks.                                             *)
(***************************************************************************)
LEMMA GateInvInit == GateInit => GateInv
<1> SUFFICES ASSUME GateInit PROVE GateInv
  OBVIOUS
<1>1. PICK at \in {"off", "start"} :
        runs = [s \in Sessions |-> [Quiet EXCEPT !.at = at]]
  BY DEF GateInit
<1>2. [Quiet EXCEPT !.at = at] \in RunType /\ [Quiet EXCEPT !.at = at].at = at
  BY DEF Quiet, RunType, Places
<1>3. WorldTyped  BY DEF GateInit, WorldTyped, NoCommand
<1>4. SessionsTyped  BY <1>1, <1>2 DEF GateInit, SessionsTyped
<1>5. ASSUME NEW s \in Sessions PROVE SessionHolds(s)
  <2>1. runs[s].at \notin PastProbe /\ told[s] = "none"
    BY <1>1, <1>2 DEF GateInit, PastProbe
  <2> QED
    BY <2>1 DEF SessionHolds, ProbeHolds, StateHolds, RecordHolds, Recorded,
       PastProbe
<1> QED  BY <1>3, <1>4, <1>5 DEF GateInv, GateTyped

LEMMA GateInvStep == GateInv /\ [GateNext]_gateVars => GateInv'
<1> SUFFICES ASSUME GateInv, [GateNext]_gateVars PROVE GateInv'
  OBVIOUS
<1>1. GateTyped'  BY WorldStep, SessionsStep DEF GateInv, GateTyped
<1>2. ASSUME NEW t \in Sessions PROVE SessionHolds(t)'
  <2>1. GateTyped /\ SessionHolds(t)  BY DEF GateInv
  <2>2. CASE \E s \in Sessions :
               \/ Launch(s) \/ StartRead(s) \/ StartHeal(s) \/ StartUp(s)
               \/ StartBake(s) \/ StartRegister(s) \/ Submit(s)
               \/ ProbeAndDecide(s) \/ ReadState(s) \/ WriteRecord(s)
               \/ Emit(s) \/ Send(s) \/ Kill(s) \/ Exit(s) \/ TwoWeeks(s)
    <3>1. PICK s \in Sessions :
               \/ Launch(s) \/ StartRead(s) \/ StartHeal(s) \/ StartUp(s)
               \/ StartBake(s) \/ StartRegister(s) \/ Submit(s)
               \/ ProbeAndDecide(s) \/ ReadState(s) \/ WriteRecord(s)
               \/ Emit(s) \/ Send(s) \/ Kill(s) \/ Exit(s) \/ TwoWeeks(s)
      BY <2>2
    <3>2. CASE s = t  BY <2>1, <3>1, <3>2, OwnStep
    <3>3. CASE s # t  BY <2>1, <3>1, <3>3, OtherStep
    <3> QED  BY <3>2, <3>3
  <2>3. CASE \/ \E s \in Sessions : MaskConversation(s) \/ LiveReload(s)
             \/ CliReserve \/ CliRegistry \/ CliRoute \/ CliStrip \/ CliOptout
             \/ MaskProject \/ ProxyDies \/ PortTaken \/ PruneElsewhere
             \/ UNCHANGED gateVars
    BY <2>1, <2>3, WorldMoves
  <2> QED  BY <2>2, <2>3 DEF GateNext
<1> QED  BY <1>1, <1>2 DEF GateInv

LEMMA GateInvHolds == GateSpec => []GateInv
BY GateInvInit, GateInvStep, PTL DEF GateSpec

(***************************************************************************)
(* What the invariant gives.                                               *)
(***************************************************************************)
LEMMA GateInvEgress == GateInv => NoUnverifiedEgress
<1> SUFFICES ASSUME GateInv, NEW s \in Sessions, runs[s].at = "send",
                    ~runs[s].killed, ~runs[s].moved, MustCheck(s)
             PROVE  Dest(s) = "ours"
  BY DEF NoUnverifiedEgress
<1>1. env[s] = runs[s].port /\ proxy = runs[s].port
  BY DEF GateInv, SessionHolds, ProbeHolds, PastProbe, Undisturbed
<1> QED  BY <1>1 DEF MustCheck, Dest

LEMMA GateInvBelief == GateInv => BeliefIsCurrent
<1> SUFFICES ASSUME GateInv, NEW s \in Sessions, runs[s].at = "send",
                    ~runs[s].killed, ~runs[s].moved, ~lost[s],
                    runs[s].cur # "none", told[s] = "masked"
             PROVE  Dest(s) = "ours" /\ EffectiveMasking(s)
  BY DEF BeliefIsCurrent
<1>1. runs[s].cur = "masked"
  BY DEF GateInv, SessionHolds, RecordHolds, Recorded
<1>2. env[s] # 0 /\ proxy = env[s] /\ EffectiveMasking(s)
  BY <1>1 DEF GateInv, SessionHolds, StateHolds, Undisturbed
<1> QED  BY <1>2 DEF Dest

\* Two computations of one fact: the shield of the status line, and the state
\* the narration reads on the baked route.
LEMMA ShieldIsMasked == GateTyped => SurfacesAgree
<1> SUFFICES ASSUME GateTyped, NEW s \in Sessions, baked # 0, env[s] = baked
             PROVE  Segment(s) = "shield"
                      <=> "masked" \in SessionMaskState(s, FALSE, baked)
  BY DEF SurfacesAgree
<1>1. Segment(s) = "shield" <=> proxy = baked /\ EffectiveMasking(s)
  BY DEF Segment, EffectiveMasking
<1>2. ResolveRouted(s) = "masked" <=> EffectiveMasking(s)
  BY DEF ResolveRouted, EffectiveMasking, GateTyped, WorldTyped
<1>3. SessionMaskState(s, FALSE, baked) = RoutedStatus(s, baked)
  BY DEF SessionMaskState, RoutedThrough
<1>4. "masked" \in RoutedStatus(s, baked) <=> proxy = baked /\ EffectiveMasking(s)
  BY <1>2 DEF RoutedStatus, VerifiedProxy
<1> QED  BY <1>1, <1>3, <1>4

\* user_prompt_submit fails closed for any number of windows and ports: a
\* prompt that had to be checked leaves only for our proxy, unless the hook
\* was killed or the world moved after its probe.
THEOREM GateFailsClosed == GateSpec => []NoUnverifiedEgress
BY GateInvHolds, GateInvEgress, PTL

\* The narration of mask_delta_line does not leave a model believing it is
\* masked when it is not, and the status line tells the same as the narration.
THEOREM GateTellsTheTruth == GateSpec => []GateTells
<1>1. GateInv => GateTells
  BY GateInvBelief, GateTypedImplies, ShieldIsMasked DEF GateInv, GateTells
<1> QED  BY <1>1, GateInvHolds, PTL

-----------------------------------------------------------------------------
(* The doctor: what an earlier probe read still holds.                     *)

DoctorShape ==
    /\ DoctorTypeOK
    /\ record \in [port : DoctorPorts \cup {0}, lives : BOOLEAN]
    /\ switch \in [master : BOOLEAN, off : BOOLEAN, contact : BOOLEAN]
    /\ graded \in [engine : {"none", "pass", "warn", "fail"}, routed : {"none", "pass", "fail"},
                   proxy : {"none", "pass", "info", "warn", "fail"}, failed : BOOLEAN,
                   rival : BOOLEAN, upstream : {"provider", "loopback"},
                   single : {"none", "pass", "warn"}]
    /\ layers \in [env : {"unset", "empty", "loopback"}, local : FileLayer,
                   project : {"absent", "loopback"}, user : {"absent", "loopback"}]
    /\ host \in Hosts /\ shaken \in BOOLEAN
    /\ tool = "verify" => step \in {"first", "canary", "routed", "done"}
    /\ tool = "doctor" => step \in {"first", "walk", "upstream", "route", "done"}
    /\ tool \in {"verify", "doctor"}

\* The verdict on a canary that is masked as the switches are now.
CanaryVerdict == EngineMaskVerdict(HasConversation, CanaryMasked(HasConversation))

\* The port verify sent its canary to is still ours, and the canary's verdict current.
CanaryHolds ==
    tool = "verify" /\ step # "first" /\ ~shaken =>
        /\ seenPort # 0 => OwnAnswers /\ record.port = seenPort
        /\ step = "canary" /\ seenPort = 0 => graded.engine = "fail"
        /\ step # "canary" =>
              graded.engine = IF seenPort = 0 THEN "fail"
                              ELSE CanaryVerdict
        /\ step = "done" => graded.routed = IF SessionRouted THEN "pass" ELSE "fail"

\* What doctor found of the proxy and of the upstream.
DiagnosisHolds ==
    tool = "doctor" /\ step # "first" /\ ~shaken =>
        /\ ~graded.failed => /\ host \notin {"firewalled", "unbindable", "unwritable"}
                             /\ LivePort => Masker(record.port)
        /\ step \in {"route", "done"} => graded.upstream = ConfiguredUpstream
        /\ step = "done" =>
              graded.single = DualInstance(graded.rival, graded.upstream, ForeignRoute)

DoctorInv == DoctorShape /\ CanaryHolds /\ DiagnosisHolds

\* A proxy's upstream is what the first layer that sets one says; when that is a loopback,
\* so does the first that mentions an upstream.
LEMMA UpstreamsAgree ==
    ASSUME ProxyUpstream = "loopback"
    PROVE  ConfiguredUpstream = "loopback"
<1> DEFINE order == <<layers.env, layers.local, layers.project, layers.user>>
           set(i) == order[i] \in {"empty", "provider", "loopback"}
           first(i) == set(i) /\ \A j \in 1..(i - 1) : ~set(j)
<1>1. DOMAIN order = 1..4
  OBVIOUS
<1>2. ProxyUpstream = IF \E i \in 1..4 : set(i) THEN order[CHOOSE i \in 1..4 : first(i)] ELSE "provider"
  BY DEF ProxyUpstream
<1>3. (\E i \in 1..4 : set(i)) => \E i \in 1..4 : first(i)
  <2>1. CASE set(1)
    BY <2>1
  <2>2. CASE ~set(1) /\ set(2)
    BY <2>2
  <2>3. CASE ~set(1) /\ ~set(2) /\ set(3)
    BY <2>3
  <2>4. CASE ~set(1) /\ ~set(2) /\ ~set(3) /\ set(4)
    BY <2>4
  <2> QED
    BY <2>1, <2>2, <2>3, <2>4
<1>4. PICK i \in 1..4 : first(i) /\ order[i] = "loopback"
  BY <1>2, <1>3
<1> DEFINE mention(k) == Mentions(order[k]) /\ \A j \in 1..(k - 1) : ~Mentions(order[j])
<1>5. mention(i)
  BY <1>4 DEF Mentions
<1>6. \A k \in 1..4 : mention(k) => k = i
  BY <1>5
<1>7. ConfiguredUpstream = IF \E k \in DOMAIN order : Mentions(order[k])
                           THEN order[CHOOSE k \in DOMAIN order : mention(k)] ELSE "provider"
  BY DEF ConfiguredUpstream, FirstOf
<1> HIDE DEF mention, order
<1>8. (CHOOSE k \in 1..4 : mention(k)) = i
  BY <1>5, <1>6
<1> QED
  BY <1>1, <1>4, <1>5, <1>7, <1>8 DEF mention

LEMMA UpstreamTyped ==
    ASSUME DoctorShape
    PROVE  ConfiguredUpstream \in {"provider", "loopback"}
<1> DEFINE order == <<layers.env, layers.local, layers.project, layers.user>>
           mention(k) == Mentions(order[k]) /\ \A j \in 1..(k - 1) : ~Mentions(order[j])
<1>1. DOMAIN order = 1..4
  OBVIOUS
<1>2. CASE \E k \in 1..4 : Mentions(order[k])
  <2>1. \E k \in 1..4 : mention(k)
    <3>1. CASE Mentions(order[1])
      BY <3>1
    <3>2. CASE ~Mentions(order[1]) /\ Mentions(order[2])
      BY <3>2
    <3>3. CASE ~Mentions(order[1]) /\ ~Mentions(order[2]) /\ Mentions(order[3])
      BY <3>3
    <3>4. CASE ~Mentions(order[1]) /\ ~Mentions(order[2]) /\ ~Mentions(order[3]) /\ Mentions(order[4])
      BY <3>4
    <3> QED
      BY <1>2, <3>1, <3>2, <3>3, <3>4
  <2>2. ConfiguredUpstream = order[CHOOSE k \in 1..4 : mention(k)]
    BY <1>1, <1>2 DEF ConfiguredUpstream, FirstOf
  <2>3. mention(CHOOSE k \in 1..4 : mention(k))
    BY <2>1
  <2> QED
    BY <2>2, <2>3 DEF Mentions
<1>3. CASE ~\E k \in 1..4 : Mentions(order[k])
  BY <1>1, <1>3 DEF ConfiguredUpstream, FirstOf
<1> QED
  BY <1>2, <1>3

LEMMA DoctorInitInv == DoctorInit => DoctorInv
<1> SUFFICES ASSUME DoctorInit PROVE DoctorInv
  OBVIOUS
<1>1. layers \in [env : {"unset", "empty", "loopback"}, local : FileLayer,
                  project : {"absent", "loopback"}, user : {"absent", "loopback"}]
  <2>1. layers \in UpstreamLayers \cup {DefaultLayers}
    BY DEF DoctorInit
  <2> QED
    BY <2>1 DEF UpstreamLayers, DefaultLayers, FileLayer
<1>2. DoctorTypeOK
  BY DEF DoctorInit, DoctorTypeOK, Unreported, Servers
<1>3. /\ record \in [port : DoctorPorts \cup {0}, lives : BOOLEAN]
      /\ switch \in [master : BOOLEAN, off : BOOLEAN, contact : BOOLEAN]
      /\ host \in Hosts /\ shaken \in BOOLEAN
  BY DEF DoctorInit
<1>4. graded \in [engine : {"none", "pass", "warn", "fail"}, routed : {"none", "pass", "fail"},
                  proxy : {"none", "pass", "info", "warn", "fail"}, failed : BOOLEAN,
                  rival : BOOLEAN, upstream : {"provider", "loopback"},
                  single : {"none", "pass", "warn"}]
  BY DEF DoctorInit, Unreported
<1>5. step = "first" /\ tool \in {"verify", "doctor"}
  BY DEF DoctorInit
<1> QED
  BY <1>1, <1>2, <1>3, <1>4, <1>5 DEF DoctorInv, DoctorShape, CanaryHolds, DiagnosisHolds

\* The verified port is the recorded one, and our proxy listens on it.
LEMMA VerifiedIs ==
    ASSUME DoctorShape
    PROVE  /\ VerifiedPort \in DoctorPorts \cup {0}
           /\ VerifiedPort # 0 => OwnAnswers /\ VerifiedPort = record.port
           /\ OwnAnswers => VerifiedPort # 0
BY DEF VerifiedPort, OwnAnswers, LivePort, DoctorShape

LEMMA VerdictIs ==
    ASSUME NEW conv \in BOOLEAN, NEW masked \in BOOLEAN
    PROVE  /\ EngineMaskVerdict(conv, masked) \in {"pass", "warn", "fail"}
           /\ (EngineMaskVerdict(conv, masked) = "fail") <=> ~masked
BY Zenon DEF EngineMaskVerdict

LEMMA CanaryIs ==
    ASSUME DoctorShape
    PROVE  /\ HasConversation \in BOOLEAN
           /\ CanaryMasked(HasConversation) \in BOOLEAN
           /\ CanaryVerdict \in {"pass", "warn", "fail"}
<1>1. HasConversation \in BOOLEAN
  BY DEF HasConversation
<1>2. CanaryMasked(HasConversation) \in BOOLEAN
  BY DEF DoctorShape, CanaryMasked
<1> QED
  BY <1>1, <1>2, VerdictIs DEF CanaryVerdict

LEMMA ProxyIs ==
    ASSUME DoctorShape
    PROVE  /\ ProjectProxy \in {"pass", "info", "warn", "fail"}
           /\ ProjectProxy # "fail" /\ LivePort => Masker(record.port)
<1>1. CASE ~LivePort
  BY <1>1 DEF ProjectProxy
<1>2. CASE LivePort /\ OwnAnswers
  BY <1>2 DEF ProjectProxy, OwnAnswers, Masker
<1>3. CASE LivePort /\ ~OwnAnswers /\ Answers(record.port) /\ Masker(record.port)
  BY <1>3 DEF ProjectProxy
<1>4. CASE LivePort /\ ~OwnAnswers /\ ~(Answers(record.port) /\ Masker(record.port))
  BY <1>4 DEF ProjectProxy
<1> QED
  BY <1>1, <1>2, <1>3, <1>4

-----------------------------------------------------------------------------
(* The probes.                                                             *)

\* A probe leaves the world, and what is computed from it, as it was.
LEMMA WorldStands ==
    ASSUME UNCHANGED World
    PROVE  /\ UNCHANGED <<host, server, record, route, layers, launched, switch, tool, shaken, moves>>
           /\ UNCHANGED <<HasConversation, CanaryVerdict>> /\ (SessionRouted' <=> SessionRouted)
           /\ (OwnAnswers' <=> OwnAnswers) /\ VerifiedPort' = VerifiedPort
           /\ (LivePort' <=> LivePort) /\ (ForeignRoute' <=> ForeignRoute)
           /\ ConfiguredUpstream' = ConfiguredUpstream
           /\ \A p : Masker(p)' <=> Masker(p)
<1>1. UNCHANGED <<host, server, record, route, layers, launched, switch, tool, shaken, moves>>
  BY DEF World
<1>2. UNCHANGED HasConversation /\ CanaryMasked(HasConversation)' = CanaryMasked(HasConversation)
  BY <1>1 DEF HasConversation, CanaryMasked
<1>3. UNCHANGED CanaryVerdict
  BY <1>1 DEF CanaryVerdict, EngineMaskVerdict, CanaryMasked, HasConversation
<1>4. /\ (OwnAnswers' <=> OwnAnswers) /\ VerifiedPort' = VerifiedPort /\ (LivePort' <=> LivePort)
      /\ (SessionRouted' <=> SessionRouted) /\ \A p : Masker(p)' <=> Masker(p)
  BY <1>1 DEF OwnAnswers, VerifiedPort, LivePort, Answers, SessionRouted, BaseUrlMatches, Masker
<1>5. ForeignRoute' <=> ForeignRoute
  BY <1>1, <1>4 DEF ForeignRoute, LoopbackPort, Answers, Masker
<1>6. ConfiguredUpstream' = ConfiguredUpstream
  BY <1>1 DEF ConfiguredUpstream
<1> QED
  BY <1>1, <1>2, <1>3, <1>4, <1>5, <1>6

LEMMA VerifyStep ==
    ASSUME DoctorInv, VerifyPort \/ VerifyEngineMasks \/ VerifySessionRouted
    PROVE  DoctorInv'
<1> USE DEF DoctorInv
<1>1. UNCHANGED World /\ tool = "verify"
  BY DEF VerifyPort, VerifyEngineMasks, VerifySessionRouted, Probe
<1>2. /\ UNCHANGED <<host, server, record, route, layers, launched, switch, tool, shaken>>
      /\ CanaryVerdict' = CanaryVerdict /\ (SessionRouted' <=> SessionRouted)
      /\ (OwnAnswers' <=> OwnAnswers) /\ VerifiedPort' = VerifiedPort
  BY <1>1, WorldStands
<1>3. CanaryVerdict \in {"pass", "warn", "fail"}
  BY CanaryIs
<1>4. CASE VerifyPort
  <2>1. DoctorShape'
    BY <1>1, <1>2, <1>4, VerifiedIs DEF VerifyPort, Probe, DoctorShape, DoctorTypeOK
  <2>2. CanaryHolds'
    BY <1>1, <1>2, <1>4, VerifiedIs DEF VerifyPort, Probe, CanaryHolds, DoctorShape
  <2> QED
    BY <1>1, <1>2, <2>1, <2>2 DEF DiagnosisHolds
<1>5. CASE VerifyEngineMasks
  <2>1. DoctorShape'
    BY <1>1, <1>2, <1>3, <1>5 DEF VerifyEngineMasks, Probe, DoctorShape, DoctorTypeOK, CanaryVerdict
  <2>2. CanaryHolds'
    BY <1>1, <1>2, <1>5 DEF VerifyEngineMasks, Probe, CanaryHolds, CanaryVerdict, DoctorShape,
       OwnAnswers
  <2> QED
    BY <1>1, <1>2, <2>1, <2>2 DEF DiagnosisHolds
<1>6. CASE VerifySessionRouted
  <2>1. DoctorShape'
    BY <1>1, <1>2, <1>6 DEF VerifySessionRouted, Probe, DoctorShape, DoctorTypeOK
  <2>2. CanaryHolds'
    BY <1>1, <1>2, <1>6 DEF VerifySessionRouted, Probe, CanaryHolds, DoctorShape
  <2> QED
    BY <1>1, <1>2, <2>1, <2>2 DEF DiagnosisHolds
<1> QED
  BY <1>4, <1>5, <1>6

LEMMA DoctorStep ==
    ASSUME DoctorInv, DoctorProxy \/ DoctorWalk \/ DoctorUpstream \/ DoctorRoute
    PROVE  DoctorInv'
<1> USE DEF DoctorInv
<1>1. UNCHANGED World /\ tool = "doctor"
  BY DEF DoctorProxy, DoctorWalk, DoctorUpstream, DoctorRoute, Probe
<1>2. /\ UNCHANGED <<host, server, record, route, layers, launched, switch, tool, shaken>>
      /\ (LivePort' <=> LivePort) /\ (ForeignRoute' <=> ForeignRoute)
      /\ ConfiguredUpstream' = ConfiguredUpstream
      /\ \A p : Masker(p)' <=> Masker(p)
  BY <1>1, WorldStands
<1>3. CASE DoctorProxy
  <2>0. ("fail" \in HostProbes \cup {ProjectProxy}) \in BOOLEAN
    OBVIOUS
  <2>3. PICK v \in BOOLEAN : graded' = [graded EXCEPT !.proxy = ProjectProxy, !.failed = v]
    BY <1>3, <2>0, Zenon DEF DoctorProxy
  <2>4. /\ UNCHANGED <<seenPort>> /\ step' = "walk"
        /\ ProjectProxy \in {"pass", "info", "warn", "fail"}
    BY <1>3, ProxyIs DEF DoctorProxy, Probe
  <2>5. PICK x \in {"pass", "info", "warn", "fail"} : x = ProjectProxy
    BY <2>4
  <2>6. graded' = [graded EXCEPT !.proxy = x, !.failed = v]
    BY <2>3, <2>5
  <2>7. graded' \in [engine : {"none", "pass", "warn", "fail"}, routed : {"none", "pass", "fail"},
                     proxy : {"none", "pass", "info", "warn", "fail"}, failed : BOOLEAN,
                     rival : BOOLEAN, upstream : {"provider", "loopback"},
                     single : {"none", "pass", "warn"}]
    BY <2>6 DEF DoctorShape
  <2>1. DoctorShape'
    BY <1>1, <1>2, <2>4, <2>7 DEF DoctorShape, DoctorTypeOK
  <2>2. DiagnosisHolds'
    BY <1>1, <1>2, <1>3, ProxyIs DEF DoctorProxy, Probe, DiagnosisHolds, DoctorShape, HostProbes,
       LoopbackReachable, EphemeralBind, StateDirWritable
  <2> QED
    BY <1>1, <1>2, <2>1, <2>2 DEF CanaryHolds
<1>4. CASE DoctorWalk
  <2>2. RivalSeen \in BOOLEAN
    BY DEF RivalSeen
  <2>3. PICK v \in BOOLEAN : graded' = [graded EXCEPT !.rival = v]
    BY <1>4, <2>2, Zenon DEF DoctorWalk
  <2>1. DoctorShape' /\ DiagnosisHolds'
    BY <1>1, <1>2, <1>4, <2>3 DEF DoctorWalk, Probe, DoctorShape, DoctorTypeOK, DiagnosisHolds
  <2> QED
    BY <1>1, <1>2, <2>1 DEF CanaryHolds
<1>5. CASE DoctorUpstream
  <2>1. DoctorShape' /\ DiagnosisHolds'
    BY <1>1, <1>2, <1>5, UpstreamTyped
       DEF DoctorUpstream, Probe, DoctorShape, DoctorTypeOK, DiagnosisHolds
  <2> QED
    BY <1>1, <1>2, <2>1 DEF CanaryHolds
<1>6. CASE DoctorRoute
  <2>1. DoctorShape' /\ DiagnosisHolds'
    BY <1>1, <1>2, <1>6 DEF DoctorRoute, Probe, DoctorShape, DoctorTypeOK, DiagnosisHolds, DualInstance
  <2> QED
    BY <1>1, <1>2, <2>1 DEF CanaryHolds
<1> QED
  BY <1>3, <1>4, <1>5, <1>6

-----------------------------------------------------------------------------
(* The world moves.                                                        *)

\* What moves with every step of the world, and what does not.
LEMMA MoveIs ==
    ASSUME DoctorInv, Move
    PROVE  /\ UNCHANGED <<host, route, tool, step, seenPort, graded>> /\ step # "done"
           /\ UNCHANGED HasConversation
           /\ tool = "verify" => DiagnosisHolds'
           /\ tool = "doctor" => CanaryHolds'
BY DEF Move, DoctorInv, DiagnosisHolds, CanaryHolds, HasConversation, DoctorShape

\* A step that shakes the run takes every claim back.
LEMMA ShakeStep ==
    ASSUME DoctorInv, Move, Shake
    PROVE  CanaryHolds' /\ DiagnosisHolds'
<1>1. /\ UNCHANGED <<tool, step>> /\ step # "done" /\ (step # "first" => shaken')
  BY DEF Move, Shake, Running
<1> QED
  BY <1>1 DEF CanaryHolds, DiagnosisHolds

LEMMA OursDiesStep ==
    ASSUME DoctorInv, NEW p \in DoctorPorts, OursDies(p)
    PROVE  DoctorInv'
<1>1. DoctorShape'
  <2>1. server' \in [DoctorPorts -> Servers]
    BY DEF OursDies, DoctorInv, DoctorShape, DoctorTypeOK, Servers
  <2>2. record' \in [port : DoctorPorts \cup {0}, lives : BOOLEAN]
    <3>1. /\ [port |-> 0, lives |-> FALSE] \in [port : DoctorPorts \cup {0}, lives : BOOLEAN]
          /\ [record EXCEPT !.lives = FALSE] \in [port : DoctorPorts \cup {0}, lives : BOOLEAN]
          /\ record \in [port : DoctorPorts \cup {0}, lives : BOOLEAN]
      BY DEF DoctorInv, DoctorShape
    <3> QED
      BY <3>1, Zenon DEF OursDies
  <2>3. shaken' \in BOOLEAN
    BY DEF OursDies, Shake, Running, DoctorInv, DoctorShape
  <2> QED
    BY <2>1, <2>2, <2>3, MoveIs DEF OursDies, DoctorInv, DoctorShape, DoctorTypeOK
<1> QED
  BY <1>1, ShakeStep DEF OursDies, DoctorInv

LEMMA OursStartsStep ==
    ASSUME DoctorInv, NEW p \in DoctorPorts, OursStarts(p)
    PROVE  DoctorInv'
<1> USE DEF DoctorInv
<1>0. /\ UNCHANGED <<host, route, tool, step, seenPort, graded, shaken, layers>> /\ step # "done"
      /\ \A q \in DoctorPorts : server[q] # "ours"
      /\ server' = [server EXCEPT ![p] = "ours"] /\ record' = [port |-> p, lives |-> TRUE]
  BY MoveIs DEF OursStarts
<1>1. DoctorShape'
  <2>1. server' \in [DoctorPorts -> Servers]
    BY <1>0 DEF DoctorShape, DoctorTypeOK, Servers
  <2>2. switch' \in [master : BOOLEAN, off : BOOLEAN, contact : BOOLEAN]
    BY DEF OursStarts, DoctorShape
  <2> QED
    BY <1>0, <2>1, <2>2 DEF DoctorShape, DoctorTypeOK
<1>2. ~OwnAnswers
  BY <1>0 DEF OwnAnswers, LivePort, DoctorShape
<1>3. CanaryHolds'
  <2>1. tool = "verify" /\ step # "first" /\ ~shaken => seenPort = 0
    BY <1>2 DEF CanaryHolds
  <2> QED
    BY <1>0, <2>1 DEF CanaryHolds
<1>4. DiagnosisHolds'
  <2>1. Masker(record.port)'
    BY <1>0 DEF Masker, DoctorShape, DoctorTypeOK
  <2>2. ConfiguredUpstream' = ConfiguredUpstream
    BY <1>0 DEF ConfiguredUpstream
  <2> QED
    BY <1>0, <2>1, <2>2 DEF DiagnosisHolds
<1> QED
  BY <1>1, <1>3, <1>4

LEMMA OtherServesStep ==
    ASSUME DoctorInv, NEW p \in DoctorPorts, OtherServes(p)
    PROVE  DoctorInv'
<1> USE DEF DoctorInv
<1>0. /\ UNCHANGED <<host, route, tool, step, seenPort, graded, shaken, layers, record, switch>>
      /\ step # "done" /\ server[p] = "none"
  BY MoveIs DEF OtherServes
<1>a. PICK k \in {"rival", "stray", "other"} : server' = [server EXCEPT ![p] = k]
  BY DEF OtherServes
<1>1. DoctorShape'
  <2>1. server' \in [DoctorPorts -> Servers]
    BY <1>a DEF DoctorShape, DoctorTypeOK, Servers
  <2> QED
    BY <1>0, <2>1 DEF DoctorShape, DoctorTypeOK
<1>2. OwnAnswers => OwnAnswers'
  BY <1>0, <1>a DEF OwnAnswers, LivePort, Answers, DoctorShape, DoctorTypeOK
<1>3. /\ CanaryVerdict' = CanaryVerdict
      /\ ConfiguredUpstream' = ConfiguredUpstream /\ (LivePort' <=> LivePort)
  BY <1>0 DEF CanaryVerdict, CanaryMasked, HasConversation, EngineMaskVerdict, ConfiguredUpstream,
     LivePort
<1>4. LivePort /\ Masker(record.port) => Masker(record.port)'
  BY <1>0, <1>a DEF Masker, LivePort, DoctorShape, DoctorTypeOK
<1>5. CanaryHolds'
  BY <1>0, <1>2, <1>3 DEF CanaryHolds
<1>6. DiagnosisHolds'
  BY <1>0, <1>3, <1>4 DEF DiagnosisHolds
<1> QED
  BY <1>1, <1>5, <1>6

LEMMA SettingStep ==
    ASSUME DoctorInv, FlipMasking \/ EditUpstream
    PROVE  DoctorInv'
<1> USE DEF DoctorInv
<1>1. Move /\ Shake /\ UNCHANGED <<server, record>>
  BY DEF FlipMasking, EditUpstream
<1>2. shaken' \in BOOLEAN
  BY <1>1 DEF Shake, Running, DoctorShape
<1>3. switch' \in [master : BOOLEAN, off : BOOLEAN, contact : BOOLEAN]
  BY ZenonT(60) DEF FlipMasking, EditUpstream, DoctorShape
<1>4. layers' \in [env : {"unset", "empty", "loopback"}, local : FileLayer,
                   project : {"absent", "loopback"}, user : {"absent", "loopback"}]
  BY ZenonT(60) DEF FlipMasking, EditUpstream, DoctorShape
<1>5. DoctorShape'
  BY <1>1, <1>2, <1>3, <1>4, MoveIs DEF DoctorShape, DoctorTypeOK
<1> QED
  BY <1>1, <1>5, ShakeStep

LEMMA DoctorInvStep == DoctorInv /\ [DoctorNext]_doctorVars => DoctorInv'
<1> SUFFICES ASSUME DoctorInv, [DoctorNext]_doctorVars PROVE DoctorInv'
  OBVIOUS
<1>1. CASE VerifyPort \/ VerifyEngineMasks \/ VerifySessionRouted
  BY <1>1, VerifyStep
<1>2. CASE DoctorProxy \/ DoctorWalk \/ DoctorUpstream \/ DoctorRoute
  BY <1>2, DoctorStep
<1>3. CASE \E p \in DoctorPorts : OursDies(p) \/ OursStarts(p) \/ OtherServes(p)
  BY <1>3, OursDiesStep, OursStartsStep, OtherServesStep
<1>4. CASE FlipMasking \/ EditUpstream
  BY <1>4, SettingStep
<1>5. CASE UNCHANGED doctorVars
  <2>1. UNCHANGED World /\ UNCHANGED <<step, seenPort, graded>>
    BY <1>5 DEF doctorVars, World
  <2>2. DoctorShape'
    BY <2>1, WorldStands DEF DoctorInv, DoctorShape, DoctorTypeOK
  <2>3. CanaryHolds'
    BY <2>1, WorldStands DEF DoctorInv, CanaryHolds
  <2>4. DiagnosisHolds'
    BY <2>1, WorldStands DEF DoctorInv, DiagnosisHolds, DualInstance
  <2> QED
    BY <2>2, <2>3, <2>4 DEF DoctorInv
<1> QED
  BY <1>1, <1>2, <1>3, <1>4, <1>5 DEF DoctorNext

-----------------------------------------------------------------------------
(* The verdicts.                                                           *)

\* A session with our verified route has its prompts at our proxy.
LEMMA RoutedIs ==
    ASSUME DoctorShape
    PROVE  /\ SessionRouted => PromptAt = "ours" /\ ~ForeignRoute
           /\ PromptAt \in {"ours", "rival", "stray"} =>
                /\ route.host \in {"127.0.0.1", "localhost"} /\ route.port \in DoctorPorts
                /\ Answers(route.port) /\ PromptAt = server[route.port]
<1>1. route.host \in {"127.0.0.1", "localhost"} => route.port \in DoctorPorts
  BY DEF DoctorShape, DoctorTypeOK, Routes, NoRoute
<1>2. route.host \in {"none", "provider", "127.0.0.1", "localhost"}
  BY DEF DoctorShape, DoctorTypeOK, Routes, NoRoute
<1>3. CASE route.host \in {"127.0.0.1", "localhost"}
  <2>1. PromptAt = IF Answers(route.port) THEN server[route.port] ELSE "none"
    BY <1>3 DEF PromptAt
  <2>2. SessionRouted => /\ route.port = record.port /\ OwnAnswers /\ route.port = VerifiedPort
                         /\ route.host = "127.0.0.1"
    BY VerifiedIs DEF SessionRouted, BaseUrlMatches
  <2> QED
    BY <1>1, <1>3, <2>1, <2>2 DEF OwnAnswers, ForeignRoute, LoopbackPort
<1>4. CASE route.host \in {"none", "provider"}
  BY <1>4 DEF PromptAt, SessionRouted, BaseUrlMatches
<1> QED
  BY <1>2, <1>3, <1>4

LEMMA VerifyTells == DoctorInv => NoFalseGreen /\ NoFalseRed
<1> SUFFICES ASSUME DoctorInv, Concluded("verify")
             PROVE  NoFalseGreen /\ NoFalseRed
  BY DEF NoFalseGreen, NoFalseRed
<1>1. /\ seenPort # 0 => OwnAnswers /\ record.port = seenPort
      /\ graded.engine = IF seenPort = 0 THEN "fail" ELSE CanaryVerdict
      /\ graded.routed = IF SessionRouted THEN "pass" ELSE "fail"
  BY DEF DoctorInv, CanaryHolds, Concluded
<1>2. /\ CanaryVerdict \in {"pass", "warn", "fail"}
      /\ CanaryVerdict = "fail" <=> ~CanaryMasked(HasConversation)
  <2>1. HasConversation \in BOOLEAN /\ CanaryMasked(HasConversation) \in BOOLEAN
    BY CanaryIs DEF DoctorInv
  <2> QED
    BY <2>1, VerdictIs DEF CanaryVerdict
<1>3. NoFalseGreen
  BY <1>1, <1>2, RoutedIs DEF NoFalseGreen, CanaryMasked, HasConversation, DoctorInv
<1>4. NoFalseRed
  <2> SUFFICES ASSUME route.host = "127.0.0.1", route.port = VerifiedPort, PromptAt = "ours",
                      seenPort = VerifiedPort, CanaryMasked(HasConversation)
               PROVE  graded.routed = "pass" /\ graded.engine \in {"pass", "warn"}
    BY DEF NoFalseRed
  <2>1. VerifiedPort # 0
    BY RoutedIs, DoctorAssumption DEF DoctorInv
  <2> QED
    BY <1>1, <1>2, <2>1 DEF SessionRouted, BaseUrlMatches
<1> QED
  BY <1>3, <1>4

LEMMA DoctorTells == DoctorInv => SingleIsSingle /\ NoFalseAllClear
<1> SUFFICES ASSUME DoctorInv, Concluded("doctor")
             PROVE  SingleIsSingle /\ NoFalseAllClear
  BY DEF SingleIsSingle, NoFalseAllClear
<1>1. /\ ~graded.failed => /\ host \notin {"firewalled", "unbindable", "unwritable"}
                           /\ LivePort => Masker(record.port)
      /\ graded.upstream = ConfiguredUpstream
      /\ graded.single = DualInstance(graded.rival, graded.upstream, ForeignRoute)
  BY DEF DoctorInv, DiagnosisHolds, Concluded
<1>2. SingleIsSingle
  <2> SUFFICES ASSUME graded.single = "pass"
               PROVE  PromptAt \notin {"rival", "stray"} /\ ProxyUpstream # "loopback"
    BY DEF SingleIsSingle
  <2>1. graded.upstream # "loopback" /\ ~ForeignRoute
    BY <1>1 DEF DualInstance
  <2>2. ASSUME PromptAt \in {"rival", "stray"} PROVE FALSE
    <3>1. /\ LoopbackPort = route.port /\ route.port \in DoctorPorts
          /\ Answers(route.port) /\ Masker(route.port) /\ server[route.port] # "ours"
      BY <2>2, RoutedIs DEF LoopbackPort, Masker, DoctorInv
    <3>2. route.port # 0 /\ route.port # VerifiedPort
      BY <3>1, VerifiedIs, DoctorAssumption DEF OwnAnswers, DoctorInv
    <3> QED
      BY <2>1, <3>1, <3>2 DEF ForeignRoute
  <2> QED
    BY <1>1, <2>1, <2>2, UpstreamsAgree
<1> QED
  BY <1>1, <1>2 DEF NoFalseAllClear

\* What verify and doctor print of a world that stood still is true of it, whatever the ports, the
\* configuration and the number of moves (run_verify, run_doctor).
THEOREM DoctorIsHonest == DoctorSpec => []DoctorHonest
<1>1. DoctorInit => DoctorInv
  BY DoctorInitInv
<1>2. DoctorInv /\ [DoctorNext]_doctorVars => DoctorInv'
  BY DoctorInvStep
<1>3. DoctorInv => DoctorHonest
  BY VerifyTells, DoctorTells, RoutedIs
     DEF DoctorHonest, ParsersAgree, DoctorInv, DoctorShape
<1> QED
  BY <1>1, <1>2, <1>3, PTL DEF DoctorSpec

-----------------------------------------------------------------------------
(* The settings files: who has the user's status line.                     *)

JobType == [at : {"idle", "sidecar", "migrate", "write", "local", "committed", "drop"},
            port : Nat, line : Lines \cup {"none"}, v : SettingsFile, changed : BOOLEAN,
            last : {"none", "failed", "enabled", "disabled", "interrupted"}, had : BOOLEAN]

SetShape ==
    /\ settings \in [Names -> SettingsFile]
    /\ sidecar \in Lines \cup {"none"} /\ mine.line \in Lines \cup {"none"}
    /\ mine = [line |-> mine.line, lists |-> mine.lists, urls |-> mine.urls,
               over |-> mine.over, torn |-> mine.torn]
    /\ mine.torn \in BOOLEAN /\ mine.over \in BOOLEAN /\ mine.urls \subseteq Names
    /\ mine.lists \in [Names -> [{"rules", "notes"} -> SUBSET SettingsEntries]]
    /\ job \in JobType

\* What the user has in the lists, and what the built-in entries follow from.
ListsKept ==
    \A n \in Names :
       /\ \A k \in {"rules", "notes"} :
             /\ "ours" \notin mine.lists[n][k]
             /\ mine.lists[n][k] \ {"$defaults"} \subseteq settings[n].lists[k].e
       /\ settings[n].lists["notes"].e # {"ours"}
       /\ Builtin(settings[n].lists["notes"].e) <=> Builtin(mine.lists[n]["notes"])

Tearing == mine.torn \/ job.at = "write"

\* One file is ours at a time, and none of an older install's while an enable writes.
OneWired ==
    /\ Wired(settings["local"]) =>
          ~Wired(settings["committed"]) /\ settings["local"].line # "none"
    /\ Tearing => ~Wired(settings["committed"])

\* The user's line is in force, or ours is and the sidecar has it.
LineHeld ==
    /\ mine.line = "none" => /\ sidecar = "none" /\ settings["committed"].line = "none"
                             /\ settings["local"].line \in {"none", "ours"}
    /\ \/ EffectiveLine = mine.line
       \/ /\ sidecar = mine.line
          /\ EffectiveLine = "ours" \/ (EffectiveLine = "none" /\ Tearing)

\* What a command knows at each of its steps.
EnableKnows ==
    /\ job.at \in {"sidecar", "migrate", "write"} =>
          job.v = settings["local"] /\ job.port \in BakePorts
    /\ job.at = "sidecar" => job.line = UserLine
    /\ job.at \in {"migrate", "write"} => sidecar = mine.line
    /\ job.at = "idle" /\ job.last = "enabled" =>
          /\ IsOurUrl(settings["local"])
          /\ \A k \in {"rules", "notes"} : "ours" \in settings["local"].lists[k].e
DisableKnows ==
    /\ job.at = "local" => job.line = sidecar /\ ~job.changed
    /\ job.at \in {"committed", "drop"} =>
          ~Wired(settings["local"]) /\ (job.changed => EffectiveLine = mine.line)
    /\ job.at = "committed" /\ Wired(settings["committed"]) => job.line = sidecar
    /\ job.at = "drop" => ~Wired(settings["committed"])
    /\ job.at = "idle" /\ job.last = "disabled" =>
          /\ \A n \in Names : ~Wired(settings[n])
          /\ EffectiveLine = mine.line \/ mine.torn

SettingsInv == SetShape /\ ListsKept /\ OneWired /\ LineHeld /\ EnableKnows /\ DisableKnows

LEMMA StripFacts ==
    ASSUME NEW f \in SettingsFile, NEW restore \in Lines \cup {"none"}
    PROVE  LET g == Stripped(f, restore) IN
           /\ g \in SettingsFile /\ ~Wired(g) /\ g.st = f.st
           /\ g.line = IF f.line = "ours" THEN restore ELSE f.line
           /\ \A k \in {"rules", "notes"} :
                 f.lists[k].e \ {"ours", "$defaults"} \subseteq g.lists[k].e
           /\ f.lists["notes"].e # {"ours"} =>
                 /\ g.lists["notes"].e # {"ours"}
                 /\ Builtin(g.lists["notes"].e) <=> Builtin(f.lists["notes"].e)
<1>1. f.lists["rules"] \in SettingsList /\ f.lists["notes"] \in SettingsList
  BY DEF SettingsFile
<1>2. PICK x, y : x = RemoveRules(f.lists["rules"]) /\ y = RemoveNotes(f.lists["notes"])
  OBVIOUS
<1>3. /\ x \in SettingsList
      /\ x.e \in {{}, f.lists["rules"].e \ {"ours"}} /\ (x.e = {} => f.lists["rules"].e \subseteq {"ours"})
  BY <1>1, <1>2 DEF RemoveRules, SettingsList, NoList
<1>4. /\ y \in SettingsList
      /\ "ours" \notin y.e /\ f.lists["notes"].e \ {"ours", "$defaults"} \subseteq y.e
      /\ f.lists["notes"].e # {"ours"} => (Builtin(y.e) <=> Builtin(f.lists["notes"].e))
  BY <1>1, <1>2 DEF RemoveNotes, SettingsList, NoList, Builtin
<1>5. PICK g : g = Stripped(f, restore)
  OBVIOUS
<1>6. /\ g.st = f.st /\ g.url = (IF IsOurUrl(f) THEN 0 ELSE f.url) /\ g.port = 0
      /\ g.line = (IF f.line = "ours" THEN restore ELSE f.line)
      /\ g.lists = [rules |-> x, notes |-> y]
      /\ g = [st |-> g.st, url |-> g.url, port |-> g.port, line |-> g.line, lists |-> g.lists]
  BY <1>2, <1>5 DEF Stripped, SettingsFile
<1>7. /\ g.lists \in [{"rules", "notes"} -> SettingsList]
      /\ g.lists["rules"] = x /\ g.lists["notes"] = y
  BY <1>3, <1>4, <1>6
<1>8. g \in SettingsFile
  BY <1>6, <1>7 DEF SettingsFile
<1>9. ~Wired(g)
  <2>1. g.line # "ours"
    BY <1>6, SettingsAssumption
  <2>2. ~IsOurUrl(g)
    BY <1>6 DEF IsOurUrl
  <2>3. ~AnyEntry(g)
    BY <1>3, <1>4, <1>7 DEF AnyEntry
  <2> QED
    BY <1>6, <2>1, <2>2, <2>3 DEF Wired
<1> QED
  BY <1>3, <1>4, <1>5, <1>6, <1>7, <1>8, <1>9

LEMMA EnableFacts ==
    ASSUME NEW f \in SettingsFile, NEW p \in BakePorts, Mergeable(f)
    PROVE  LET g == Enabled(f, p) IN
           /\ g \in SettingsFile /\ IsOurUrl(g) /\ g.line = "ours"
           /\ \A k \in {"rules", "notes"} :
                 f.lists[k].e \cup {"ours"} \subseteq g.lists[k].e
           /\ f.lists["notes"].e # {"ours"} =>
                 /\ g.lists["notes"].e # {"ours"}
                 /\ Builtin(g.lists["notes"].e) <=> Builtin(f.lists["notes"].e)
<1>0. {"ours", "$defaults"} \subseteq SettingsEntries
  BY DEF SettingsEntries
<1>1. f.lists["rules"] \in SettingsList /\ f.lists["notes"] \in SettingsList
  BY DEF SettingsFile
<1>2. PICK x, y : x = MergeRules(f.lists["rules"]) /\ y = MergeNotes(f.lists["notes"])
  OBVIOUS
<1>3. x \in SettingsList /\ f.lists["rules"].e \cup {"ours"} \subseteq x.e
  BY <1>0, <1>1, <1>2 DEF MergeRules, SettingsList
<1>4. /\ y \in SettingsList /\ f.lists["notes"].e \cup {"ours"} \subseteq y.e
      /\ f.lists["notes"].e # {"ours"} =>
            y.e # {"ours"} /\ (Builtin(y.e) <=> Builtin(f.lists["notes"].e))
  BY <1>0, <1>1, <1>2 DEF MergeNotes, SettingsList, Builtin
<1>5. PICK g : g = Enabled(f, p)
  OBVIOUS
<1>6. /\ g.url = p /\ g.port = p /\ g.line = "ours" /\ g.st = "ok"
      /\ g.lists = [rules |-> x, notes |-> y]
      /\ g = [st |-> g.st, url |-> g.url, port |-> g.port, line |-> g.line, lists |-> g.lists]
  BY <1>2, <1>5 DEF Enabled, SettingsFile
<1>7. /\ g.lists \in [{"rules", "notes"} -> SettingsList]
      /\ g.lists["rules"] = x /\ g.lists["notes"] = y
  BY <1>3, <1>4, <1>6
<1>8. g \in SettingsFile /\ IsOurUrl(g)
  BY <1>6, <1>7, SettingsAssumption DEF SettingsFile, IsOurUrl
<1> QED
  BY <1>3, <1>4, <1>5, <1>6, <1>7, <1>8

LEMMA IdleShape ==
    /\ NoFile \in SettingsFile /\ ~Wired(NoFile)
    /\ Idle = [at |-> "idle", port |-> 0, line |-> "none", v |-> NoFile,
               changed |-> FALSE, last |-> "none", had |-> FALSE]
BY DEF NoFile, NoList, SettingsFile, SettingsList, Wired, IsOurUrl, AnyEntry, Idle

LEMMA EndShape ==
    ASSUME SetShape, NEW result \in {"failed", "enabled", "disabled", "interrupted"}, End(result)
    PROVE  /\ job' \in JobType
           /\ job'.at = "idle" /\ job'.last = result
<1>1. job.had \in BOOLEAN
  BY DEF SetShape, JobType
<1>2. PICK had \in BOOLEAN : job' = [Idle EXCEPT !.last = result, !.had = had]
  BY <1>1, Zenon DEF End
<1>3. job' = [at |-> "idle", port |-> 0, line |-> "none", v |-> NoFile, changed |-> FALSE,
              last |-> result, had |-> had]
  BY <1>2, IdleShape
<1> QED
  BY <1>3, IdleShape DEF JobType

LEMMA SettingsInitInv == SettingsInit => SettingsInv
<1> SUFFICES ASSUME NEW l \in LocalFiles, NEW c \in CommittedFiles,
                    settings = [n \in Names |-> IF n = "local" THEN l ELSE c],
                    sidecar \in IF c.line = "ours" THEN Lines ELSE {"none"},
                    job = Idle,
                    mine = [line |-> IF l.line # "none" THEN l.line
                                     ELSE IF sidecar # "none" THEN sidecar ELSE c.line,
                            lists |-> [n \in Names |->
                                         [k \in {"rules", "notes"} |->
                                             settings[n].lists[k].e \ {"ours"}]],
                            urls |-> {n \in Names : settings[n].url = UserUrl},
                            over |-> FALSE, torn |-> FALSE]
             PROVE  SettingsInv
  BY DEF SettingsInit
<1>1. /\ l \in SettingsFile /\ c \in SettingsFile /\ ~Wired(l)
      /\ c.lists["notes"].e # {"ours"} /\ Lines \cap {"none", "ours"} = {}
  BY SettingsAssumption
<1>2. l.line # "ours" /\ ~AnyEntry(l) /\ l.lists \in [{"rules", "notes"} -> SettingsList]
  BY <1>1 DEF Wired, SettingsFile
<1>3. "ours" \notin l.lists["rules"].e /\ "ours" \notin l.lists["notes"].e
  BY <1>2 DEF AnyEntry
<1>4. /\ settings["local"] = l /\ settings["committed"] = c
      /\ settings \in [Names -> SettingsFile]
  BY <1>1 DEF Names
<1>5. SetShape
  <2>1. mine.lists \in [Names -> [{"rules", "notes"} -> SUBSET SettingsEntries]]
    BY <1>4 DEF SettingsFile, SettingsList
  <2>2. mine.line \in Lines \cup {"none"} /\ sidecar \in Lines \cup {"none"}
    BY <1>1, <1>2 DEF SettingsFile
  <2> QED
    BY <1>4, <2>1, <2>2, IdleShape DEF SetShape, JobType
<1>6. ListsKept
  <2>1. \A n \in Names, k \in {"rules", "notes"} :
           mine.lists[n][k] = settings[n].lists[k].e \ {"ours"}
    OBVIOUS
  <2>2. \A n \in Names : settings[n].lists["notes"].e # {"ours"}
    BY <1>1, <1>3, <1>4 DEF Names
  <2> QED
    BY <2>1, <2>2 DEF ListsKept, Builtin
<1>7. OneWired /\ EnableKnows /\ DisableKnows
  BY <1>1, <1>4, IdleShape DEF OneWired, EnableKnows, DisableKnows, Tearing
<1>8. LineHeld
  BY <1>1, <1>2, <1>4 DEF LineHeld, EffectiveLine, Names
<1> QED
  BY <1>5, <1>6, <1>7, <1>8 DEF SettingsInv

-----------------------------------------------------------------------------
(* The steps.                                                              *)

\* A step that moves only the job keeps what the files hold.
LEMMA JobMoves ==
    ASSUME SettingsInv, UNCHANGED <<settings, sidecar>>,
           mine'.line = mine.line, mine'.lists = mine.lists
    PROVE  /\ ListsKept' /\ EffectiveLine' = EffectiveLine /\ UserLine' = UserLine
           /\ \A n \in Names : Wired(settings[n])' <=> Wired(settings[n])
BY DEF SettingsInv, ListsKept, EffectiveLine, UserLine, Wired, IsOurUrl, AnyEntry

LEMMA EnableLoadStep ==
    ASSUME SettingsInv, NEW p \in BakePorts, EnableLoad(p)
    PROVE  SettingsInv'
<1> USE DEF SettingsInv
<1>0. UNCHANGED <<settings, sidecar, mine>> /\ job.at = "idle"
  BY DEF EnableLoad
<1>1. /\ ListsKept' /\ EffectiveLine' = EffectiveLine /\ UserLine' = UserLine
      /\ \A n \in Names : Wired(settings[n])' <=> Wired(settings[n])
  BY <1>0, JobMoves
<1>2. UserLine \in Lines \cup {"none"} /\ settings["local"] \in SettingsFile /\ p \in Nat
  BY SettingsAssumption DEF UserLine, EffectiveLine, SetShape, SettingsFile, Names
<1>3. PICK had \in BOOLEAN :
        job' = IF \E n \in Names : settings[n].st = "bad"
               THEN [Idle EXCEPT !.last = "failed", !.had = had]
               ELSE [Idle EXCEPT !.at = "sidecar", !.port = p, !.line = UserLine,
                               !.v = settings["local"], !.had = had]
  <2>1. (BakedRoute # 0) \in BOOLEAN
    OBVIOUS
  <2> QED
    BY <2>1, Zenon DEF EnableLoad
<1>4. SetShape'
  BY <1>0, <1>2, <1>3, IdleShape, ZenonT(60) DEF SetShape, JobType
<1>5. /\ job'.at \in {"idle", "sidecar"} /\ (job'.at = "idle" => job'.last = "failed")
      /\ job'.at = "sidecar" => /\ job'.v = settings["local"] /\ job'.port = p
                                /\ job'.line = UserLine
  BY <1>3, IdleShape
<1>6. OneWired' /\ LineHeld'
  BY <1>0, <1>1, <1>5 DEF OneWired, LineHeld, Tearing, Names
<1>7. EnableKnows' /\ DisableKnows'
  BY <1>0, <1>1, <1>5 DEF EnableKnows, DisableKnows
<1> QED
  BY <1>1, <1>4, <1>6, <1>7

LEMMA EnableSidecarStep ==
    ASSUME SettingsInv, EnableSidecar
    PROVE  SettingsInv'
<1> USE DEF SettingsInv
<1>0. /\ UNCHANGED <<settings, mine>> /\ job.at = "sidecar" /\ job' = [job EXCEPT !.at = "migrate"]
      /\ sidecar' = IF job.line = "none" THEN sidecar ELSE job.line
      /\ job.line = UserLine
  BY DEF EnableSidecar, EnableKnows
<1>1. sidecar' = mine.line
  BY <1>0, SettingsAssumption DEF LineHeld, UserLine, SetShape, EffectiveLine
<1>2. SetShape' /\ ListsKept' /\ OneWired'
  BY <1>0, <1>1 DEF SetShape, JobType, ListsKept, OneWired, Tearing, Wired, IsOurUrl, AnyEntry
<1>3. LineHeld'
  BY <1>0, <1>1 DEF LineHeld, EffectiveLine, Tearing, SetShape
<1>4. EnableKnows' /\ DisableKnows'
  BY <1>0, <1>1 DEF EnableKnows, DisableKnows, SetShape
<1> QED
  BY <1>2, <1>3, <1>4

\* Stripping one file of what is ours.
LEMMA StripStep ==
    ASSUME SettingsInv, NEW n \in Names, NEW restore \in Lines \cup {"none"},
           settings' = [settings EXCEPT ![n] = Stripped(@, restore)],
           mine' = mine
    PROVE  /\ settings' \in [Names -> SettingsFile] /\ ListsKept'
           /\ ~Wired(settings'[n])
           /\ settings'[n].line = IF settings[n].line = "ours" THEN restore ELSE settings[n].line
           /\ \A m \in Names \ {n} : settings'[m] = settings[m]
<1> USE DEF SettingsInv
<1>1. settings \in [Names -> SettingsFile] /\ settings[n] \in SettingsFile
  BY DEF SetShape, JobType
<1>2. PICK g : g = Stripped(settings[n], restore)
  OBVIOUS
<1>3. /\ g \in SettingsFile /\ ~Wired(g)
      /\ g.line = IF settings[n].line = "ours" THEN restore ELSE settings[n].line
      /\ \A k \in {"rules", "notes"} :
            settings[n].lists[k].e \ {"ours", "$defaults"} \subseteq g.lists[k].e
      /\ settings[n].lists["notes"].e # {"ours"} =>
            /\ g.lists["notes"].e # {"ours"}
            /\ Builtin(g.lists["notes"].e) <=> Builtin(settings[n].lists["notes"].e)
  BY <1>1, <1>2, StripFacts
<1>4. settings'[n] = g /\ \A m \in Names \ {n} : settings'[m] = settings[m]
  BY <1>1, <1>2
<1>5. settings' \in [Names -> SettingsFile]
  BY <1>1, <1>2, <1>3
<1>6. ListsKept'
  BY <1>3, <1>4 DEF ListsKept
<1> QED
  BY <1>3, <1>4, <1>5, <1>6

LEMMA EnableMigrateStep ==
    ASSUME SettingsInv, EnableMigrate
    PROVE  SettingsInv'
<1> USE DEF SettingsInv
<1>0. /\ UNCHANGED <<sidecar, mine>> /\ job.at = "migrate" /\ job' = [job EXCEPT !.at = "write"]
      /\ sidecar = mine.line /\ job.v = settings["local"] /\ job.port \in BakePorts
  BY DEF EnableMigrate, EnableKnows
<1>1. /\ settings' \in [Names -> SettingsFile] /\ ListsKept'
      /\ settings'["local"] = settings["local"] /\ ~Wired(settings'["committed"])
      /\ settings'["committed"].line \in {"none", settings["committed"].line}
      /\ settings["committed"].line # "ours" =>
            settings'["committed"].line = settings["committed"].line
  <2>1. CASE Wired(settings["committed"])
    <3>1. settings' = [settings EXCEPT !["committed"] = Stripped(@, "none")]
      BY <2>1 DEF EnableMigrate
    <3>2. /\ "committed" \in Names /\ "local" \in Names \ {"committed"}
          /\ "none" \in Lines \cup {"none"}
      BY DEF Names
    <3> QED
      BY <1>0, <3>1, <3>2, StripStep
  <2>2. CASE ~Wired(settings["committed"])
    <3>1. settings' = settings
      BY <2>2 DEF EnableMigrate
    <3> QED
      BY <1>0, <2>2, <3>1, JobMoves DEF SetShape, Names
  <2> QED
    BY <2>1, <2>2
<1>2. SetShape' /\ OneWired'
  BY <1>0, <1>1 DEF SetShape, JobType, OneWired, Tearing
<1>3. LineHeld'
  BY <1>0, <1>1 DEF LineHeld, EffectiveLine, Tearing, SetShape
<1>4. EnableKnows' /\ DisableKnows'
  BY <1>0, <1>1 DEF EnableKnows, DisableKnows, SetShape
<1> QED
  BY <1>1, <1>2, <1>3, <1>4

LEMMA EnableWriteStep ==
    ASSUME SettingsInv, EnableWrite
    PROVE  SettingsInv'
<1> USE DEF SettingsInv
<1>0. /\ UNCHANGED sidecar /\ job.at = "write"
      /\ sidecar = mine.line /\ job.v = settings["local"] /\ job.port \in BakePorts
  BY DEF EnableWrite, EnableKnows
<1>1. CASE Mergeable(job.v)
  <2>0. /\ settings' = [settings EXCEPT !["local"] = Enabled(settings["local"], job.port)]
        /\ End("enabled")
    BY <1>0, <1>1 DEF EnableWrite
  <2>m. /\ mine'.line = mine.line /\ mine'.lists = mine.lists /\ mine'.torn = mine.torn
        /\ mine' = [line |-> mine.line, lists |-> mine.lists, urls |-> mine.urls,
                    over |-> TRUE, torn |-> mine.torn]
    BY <1>1 DEF EnableWrite, SetShape
  <2>1. settings["local"] \in SettingsFile /\ settings \in [Names -> SettingsFile]
    BY DEF SetShape, Names
  <2>2. PICK g : g = Enabled(settings["local"], job.port)
    OBVIOUS
  <2>3. /\ g \in SettingsFile /\ IsOurUrl(g) /\ g.line = "ours"
        /\ \A k \in {"rules", "notes"} : settings["local"].lists[k].e \cup {"ours"} \subseteq g.lists[k].e
        /\ settings["local"].lists["notes"].e # {"ours"} =>
              /\ g.lists["notes"].e # {"ours"}
              /\ Builtin(g.lists["notes"].e) <=> Builtin(settings["local"].lists["notes"].e)
    BY <1>0, <1>1, <2>1, <2>2, EnableFacts
  <2>4. /\ settings' \in [Names -> SettingsFile]
        /\ settings'["local"] = g /\ settings'["committed"] = settings["committed"]
    BY <2>0, <2>1, <2>2, <2>3 DEF Names
  <2>5. ListsKept'
    BY <2>m, <2>3, <2>4 DEF ListsKept, Names
  <2>6. job' \in JobType /\ job'.at = "idle" /\ job'.last = "enabled"
    BY <2>0, EndShape
  <2>7. SetShape'
    BY <1>0, <2>m, <2>4, <2>6 DEF SetShape
  <2>8. OneWired' /\ LineHeld'
    BY <1>0, <2>m, <2>3, <2>4, <2>6 DEF OneWired, LineHeld, Tearing, EffectiveLine, Wired, IsOurUrl,
       AnyEntry
  <2>9. EnableKnows' /\ DisableKnows'
    BY <2>3, <2>4, <2>6 DEF EnableKnows, DisableKnows
  <2> QED
    BY <2>5, <2>7, <2>8, <2>9
<1>2. CASE ~Mergeable(job.v)
  <2>0. settings' = settings /\ End("failed") /\ mine' = [mine EXCEPT !.torn = TRUE]
    BY <1>0, <1>2 DEF EnableWrite
  <2>1. /\ mine'.line = mine.line /\ mine'.lists = mine.lists /\ mine'.torn = TRUE
        /\ mine' = [line |-> mine.line, lists |-> mine.lists, urls |-> mine.urls,
                    over |-> mine.over, torn |-> TRUE]
    BY <2>0 DEF SetShape, JobType
  <2>2. job' \in JobType /\ job'.at = "idle" /\ job'.last = "failed"
    BY <2>0, EndShape
  <2>3. /\ ListsKept' /\ EffectiveLine' = EffectiveLine
        /\ \A n \in Names : Wired(settings[n])' <=> Wired(settings[n])
    BY <1>0, <2>0, <2>1, JobMoves
  <2>4. SetShape'
    BY <1>0, <2>0, <2>1, <2>2 DEF SetShape
  <2>5. OneWired' /\ LineHeld'
    BY <1>0, <2>0, <2>1, <2>2, <2>3 DEF OneWired, LineHeld, Tearing, Names
  <2>6. EnableKnows' /\ DisableKnows'
    BY <2>2 DEF EnableKnows, DisableKnows
  <2> QED
    BY <2>3, <2>4, <2>5, <2>6
<1> QED
  BY <1>1, <1>2

LEMMA DisableLoadStep ==
    ASSUME SettingsInv, DisableLoad
    PROVE  SettingsInv'
<1> USE DEF SettingsInv
<1>0. /\ UNCHANGED <<settings, sidecar, mine>> /\ job.at = "idle"
      /\ job' = [at |-> "local", port |-> 0, line |-> sidecar, v |-> NoFile, changed |-> FALSE,
                 last |-> "none", had |-> FALSE]
  BY IdleShape DEF DisableLoad
<1>1. /\ ListsKept' /\ EffectiveLine' = EffectiveLine
      /\ \A n \in Names : Wired(settings[n])' <=> Wired(settings[n])
  BY <1>0, JobMoves
<1>2. SetShape'
  BY <1>0, IdleShape DEF SetShape, JobType
<1>3. OneWired' /\ LineHeld'
  BY <1>0, <1>1 DEF OneWired, LineHeld, Tearing, Names
<1>4. EnableKnows' /\ DisableKnows'
  BY <1>0 DEF EnableKnows, DisableKnows
<1> QED
  BY <1>1, <1>2, <1>3, <1>4

LEMMA DisableFileStep ==
    ASSUME SettingsInv, NEW n \in Names, DisableFile(n)
    PROVE  SettingsInv'
<1> USE DEF SettingsInv
<1>0. /\ UNCHANGED <<sidecar, mine>> /\ job.at = n /\ n \in {"local", "committed"}
      /\ job.line \in Lines \cup {"none"} /\ Lines \cap {"none", "ours"} = {}
      /\ settings \in [Names -> SettingsFile] /\ job \in JobType
  BY SettingsAssumption DEF DisableFile, Names, SetShape, JobType
<1>1. CASE settings[n].st = "bad"
  <2>1. UNCHANGED settings /\ End("failed")
    BY <1>1 DEF DisableFile
  <2>2. job' \in JobType /\ job'.at = "idle" /\ job'.last = "failed"
    BY <2>1, EndShape
  <2>3. /\ ListsKept' /\ EffectiveLine' = EffectiveLine
        /\ \A m \in Names : Wired(settings[m])' <=> Wired(settings[m])
    BY <1>0, <2>1, JobMoves
  <2>4. SetShape' /\ EnableKnows' /\ DisableKnows'
    BY <1>0, <2>1, <2>2 DEF SetShape, EnableKnows, DisableKnows
  <2>5. OneWired' /\ LineHeld'
    BY <1>0, <2>1, <2>2, <2>3 DEF OneWired, LineHeld, Tearing, Names
  <2> QED
    BY <2>3, <2>4, <2>5
<1>2. CASE settings[n].st # "bad" /\ ~Wired(settings[n])
  <2>1. UNCHANGED settings /\ job' = [job EXCEPT !.at = AfterFile(n)]
    BY <1>2 DEF DisableFile
  <2>2. /\ job' \in JobType /\ job'.at = AfterFile(n) /\ job'.line = job.line
        /\ job'.changed = job.changed /\ job'.at \in {"committed", "drop"}
    BY <1>0, <2>1 DEF JobType, AfterFile
  <2>3. /\ ListsKept' /\ EffectiveLine' = EffectiveLine
        /\ \A m \in Names : Wired(settings[m])' <=> Wired(settings[m])
    BY <1>0, <2>1, JobMoves
  <2>4. SetShape' /\ EnableKnows'
    BY <1>0, <2>1, <2>2 DEF SetShape, EnableKnows
  <2>5. OneWired' /\ LineHeld'
    BY <1>0, <2>1, <2>2, <2>3 DEF OneWired, LineHeld, Tearing, Names
  <2>6. DisableKnows'
    BY <1>0, <1>2, <2>1, <2>2, <2>3 DEF DisableKnows, AfterFile, Names
  <2> QED
    BY <2>3, <2>4, <2>5, <2>6
<1>3. CASE settings[n].st # "bad" /\ Wired(settings[n])
  <2>1. /\ settings' = [settings EXCEPT ![n] = Stripped(@, job.line)]
        /\ job' = [job EXCEPT !.at = AfterFile(n), !.changed = TRUE,
                     !.line = IF settings[n].line = "ours" THEN "none" ELSE @]
    BY <1>3 DEF DisableFile
  <2>2. /\ settings' \in [Names -> SettingsFile] /\ ListsKept' /\ ~Wired(settings'[n])
        /\ settings'[n].line = IF settings[n].line = "ours" THEN job.line ELSE settings[n].line
        /\ \A m \in Names \ {n} : settings'[m] = settings[m]
    BY <1>0, <2>1, StripStep
  <2>3. /\ job' \in JobType /\ job'.at = AfterFile(n) /\ job'.changed
        /\ job'.at \in {"committed", "drop"}
    BY <1>0, <2>1 DEF JobType, AfterFile
  <2>4. SetShape' /\ EnableKnows'
    BY <1>0, <2>2, <2>3 DEF SetShape, EnableKnows
  <2>5. CASE n = "local"
    <3>1. /\ settings'["committed"] = settings["committed"] /\ ~Wired(settings["committed"])
          /\ settings["local"].line # "none" /\ job.line = sidecar
          /\ settings["committed"].line # "ours" /\ job'.at = "committed"
      BY <1>0, <1>3, <2>2, <2>3, <2>5 DEF Names, OneWired, DisableKnows, Wired, AfterFile
    <3>2. EffectiveLine' = mine.line
      BY <1>0, <2>2, <2>5, <3>1 DEF EffectiveLine, LineHeld, SetShape
    <3>3. OneWired' /\ LineHeld'
      BY <1>0, <2>2, <2>3, <2>5, <3>1, <3>2 DEF OneWired, LineHeld, Tearing, SetShape
    <3>4. DisableKnows'
      BY <1>0, <2>2, <2>3, <2>5, <3>1, <3>2 DEF DisableKnows
    <3> QED
      BY <2>2, <2>4, <3>3, <3>4
  <2>6. CASE n = "committed"
    <3>1. /\ settings'["local"] = settings["local"] /\ ~Wired(settings["local"])
          /\ settings["local"].line # "ours" /\ job.line = sidecar /\ job'.at = "drop"
          /\ ~Tearing
      BY <1>0, <1>3, <2>2, <2>3, <2>6 DEF Names, OneWired, DisableKnows, Wired, AfterFile
    <3>2. EffectiveLine' = mine.line
      BY <1>0, <2>2, <2>6, <3>1 DEF EffectiveLine, LineHeld, SetShape
    <3>3. OneWired' /\ LineHeld'
      BY <1>0, <2>2, <2>3, <2>6, <3>1, <3>2 DEF OneWired, LineHeld, Tearing, SetShape
    <3>4. DisableKnows'
      BY <1>0, <2>2, <2>3, <2>6, <3>1, <3>2 DEF DisableKnows
    <3> QED
      BY <2>2, <2>4, <3>3, <3>4
  <2> QED
    BY <1>0, <2>5, <2>6
<1> QED
  BY <1>1, <1>2, <1>3

LEMMA DisableDropStep ==
    ASSUME SettingsInv, DisableDrop
    PROVE  SettingsInv'
<1> USE DEF SettingsInv
<1>0. /\ UNCHANGED <<settings, mine>> /\ job.at = "drop" /\ End("disabled")
      /\ sidecar' = IF job.changed THEN "none" ELSE sidecar
      /\ ~Wired(settings["local"]) /\ ~Wired(settings["committed"])
      /\ job.changed => EffectiveLine = mine.line
  BY DEF DisableDrop, DisableKnows
<1>1. job' \in JobType /\ job'.at = "idle" /\ job'.last = "disabled"
  BY <1>0, EndShape
<1>2. SetShape' /\ ListsKept'
  BY <1>0, <1>1 DEF SetShape, ListsKept
<1>3. EffectiveLine' = EffectiveLine /\ \A m \in Names : Wired(settings[m])' <=> Wired(settings[m])
  BY <1>0 DEF EffectiveLine, Wired, IsOurUrl, AnyEntry
<1>4. EffectiveLine # "ours"
  BY <1>0 DEF EffectiveLine, Wired
<1>5. OneWired' /\ LineHeld'
  BY <1>0, <1>1, <1>3 DEF OneWired, LineHeld, Tearing, Names
<1>6. EnableKnows' /\ DisableKnows'
  BY <1>0, <1>1, <1>3, <1>4 DEF EnableKnows, DisableKnows, LineHeld, Tearing, Names
<1> QED
  BY <1>2, <1>5, <1>6

LEMMA InterruptedStep ==
    ASSUME SettingsInv, Interrupted
    PROVE  SettingsInv'
<1> USE DEF SettingsInv
<1>0. UNCHANGED <<settings, sidecar>> /\ job.at # "idle" /\ End("interrupted")
  BY DEF Interrupted
<1>1. PICK torn \in BOOLEAN : torn = (mine.torn \/ job.at = "write") /\ mine' = [mine EXCEPT !.torn = torn]
  BY Zenon DEF Interrupted
<1>2. /\ mine'.line = mine.line /\ mine'.lists = mine.lists /\ mine'.torn = torn
      /\ mine' = [line |-> mine.line, lists |-> mine.lists, urls |-> mine.urls,
                  over |-> mine.over, torn |-> torn]
      /\ torn <=> Tearing
  BY <1>1 DEF SetShape, Tearing
<1>3. job' \in JobType /\ job'.at = "idle" /\ job'.last = "interrupted"
  BY <1>0, EndShape
<1>4. /\ ListsKept' /\ EffectiveLine' = EffectiveLine
      /\ \A m \in Names : Wired(settings[m])' <=> Wired(settings[m])
  BY <1>0, <1>2, JobMoves
<1>5. SetShape' /\ EnableKnows' /\ DisableKnows'
  BY <1>0, <1>2, <1>3 DEF SetShape, EnableKnows, DisableKnows
<1>6. Tearing' <=> Tearing
  BY <1>2, <1>3 DEF Tearing
<1>7. OneWired' /\ LineHeld'
  BY <1>0, <1>2, <1>4, <1>6 DEF OneWired, LineHeld, Names
<1> QED
  BY <1>4, <1>5, <1>7

LEMMA HandLineStep ==
    ASSUME SettingsInv, NEW l \in Lines, HandLine(l)
    PROVE  SettingsInv'
<1> USE DEF SettingsInv
<1>0. /\ UNCHANGED sidecar /\ job.at = "idle" /\ job' = Idle /\ l \notin {"none", "ours"}
      /\ settings' = [settings EXCEPT !["local"] = [@ EXCEPT !.line = l]]
      /\ mine' = [mine EXCEPT !.line = l]
      /\ settings \in [Names -> SettingsFile] /\ Names = {"local", "committed"}
  BY SettingsAssumption DEF HandLine, SetShape, Names
<1>1. PICK f, g : f = settings["local"] /\ g = [f EXCEPT !.line = l]
  OBVIOUS
<1>2. /\ f \in SettingsFile /\ g \in SettingsFile /\ g.line = l
      /\ g.url = f.url /\ g.port = f.port /\ g.lists = f.lists /\ g.st = f.st
  BY <1>0, <1>1 DEF SettingsFile
<1>3. /\ settings'["local"] = g /\ settings'["committed"] = settings["committed"]
      /\ settings' \in [Names -> SettingsFile]
      /\ \A n \in Names : settings'[n].lists = settings[n].lists
  BY <1>0, <1>1, <1>2
<1>4. mine' = [line |-> l, lists |-> mine.lists, urls |-> mine.urls,
               over |-> mine.over, torn |-> mine.torn]
  BY <1>0 DEF SetShape
<1>5. SetShape' /\ ListsKept'
  BY <1>0, <1>3, <1>4, IdleShape DEF SetShape, ListsKept, JobType
<1>6. Wired(g) => Wired(f)
  BY <1>0, <1>2 DEF Wired, IsOurUrl, AnyEntry
<1>7. OneWired' /\ LineHeld'
  BY <1>0, <1>1, <1>2, <1>3, <1>4, <1>6, IdleShape DEF OneWired, LineHeld, Tearing, EffectiveLine
<1>8. EnableKnows' /\ DisableKnows'
  BY <1>0, IdleShape DEF EnableKnows, DisableKnows
<1> QED
  BY <1>5, <1>7, <1>8

LEMMA HandUrlStep ==
    ASSUME SettingsInv, HandUrl
    PROVE  SettingsInv'
<1> USE DEF SettingsInv
<1>0. /\ UNCHANGED sidecar /\ job.at = "idle" /\ job' = Idle
      /\ settings' = [settings EXCEPT !["local"] = [@ EXCEPT !.url = UserUrl]]
      /\ mine' = [mine EXCEPT !.urls = @ \cup {"local"}, !.over = FALSE]
      /\ settings \in [Names -> SettingsFile] /\ Names = {"local", "committed"}
  BY DEF HandUrl, SetShape, Names
<1>1. PICK f, g : f = settings["local"] /\ g = [f EXCEPT !.url = UserUrl]
  OBVIOUS
<1>2. /\ f \in SettingsFile /\ g \in SettingsFile /\ g.url = UserUrl
      /\ g.line = f.line /\ g.port = f.port /\ g.lists = f.lists /\ g.st = f.st
  BY <1>0, <1>1 DEF SettingsFile, UserUrl
<1>3. /\ settings'["local"] = g /\ settings'["committed"] = settings["committed"]
      /\ settings' \in [Names -> SettingsFile]
      /\ \A n \in Names : /\ settings'[n].lists = settings[n].lists
                          /\ settings'[n].line = settings[n].line
  BY <1>0, <1>1, <1>2
<1>4. /\ mine'.line = mine.line /\ mine'.lists = mine.lists /\ mine'.torn = mine.torn
      /\ mine' = [line |-> mine.line, lists |-> mine.lists, urls |-> mine.urls \cup {"local"},
                  over |-> FALSE, torn |-> mine.torn]
  BY <1>0 DEF SetShape
<1>5. SetShape' /\ ListsKept'
  <2>0. mine.urls \subseteq Names
    BY DEF SetShape
  <2>1. PICK w : w = mine.urls \cup {"local"} /\ w \subseteq Names
    BY <1>0, <2>0
  <2>2. /\ mine'.urls = w /\ mine'.over = FALSE
        /\ mine' = [line |-> mine'.line, lists |-> mine'.lists, urls |-> mine'.urls,
                    over |-> mine'.over, torn |-> mine'.torn]
    BY <1>4, <2>1
  <2>3. Idle \in JobType
    BY IdleShape DEF JobType
  <2>4. SetShape'
    BY <1>0, <1>3, <1>4, <2>1, <2>2, <2>3 DEF SetShape
  <2>5. ListsKept'
    BY <1>0, <1>3, <1>4 DEF ListsKept
  <2> QED
    BY <2>4, <2>5
<1>6. Wired(g) => Wired(f)
  BY <1>2 DEF Wired, IsOurUrl, AnyEntry
<1>7. EffectiveLine' = EffectiveLine
  BY <1>0, <1>3 DEF EffectiveLine
<1>8. OneWired' /\ LineHeld'
  BY <1>0, <1>1, <1>2, <1>3, <1>4, <1>6, <1>7, IdleShape DEF OneWired, LineHeld, Tearing
<1>9. EnableKnows' /\ DisableKnows'
  BY <1>0, IdleShape DEF EnableKnows, DisableKnows
<1> QED
  BY <1>5, <1>8, <1>9

LEMMA HandFileStep ==
    ASSUME SettingsInv, HandUnroute \/ \E n \in Names : HandMend(n)
    PROVE  SettingsInv'
<1> USE DEF SettingsInv
<1>0. /\ UNCHANGED <<sidecar, mine>> /\ job.at = "idle" /\ job' = Idle
      /\ settings \in [Names -> SettingsFile]
  BY DEF HandUnroute, HandMend, SetShape
<1>1. PICK n \in Names :
        \E g \in SettingsFile :
           /\ settings' = [settings EXCEPT ![n] = g]
           /\ g.line = settings[n].line /\ g.lists = settings[n].lists
           /\ Wired(g) => Wired(settings[n])
  <2>1. CASE HandUnroute
    <3>1. PICK g : g = [settings["local"] EXCEPT !.url = 0, !.port = 0]
      OBVIOUS
    <3>2. settings' = [settings EXCEPT !["local"] = g] /\ settings["local"] \in SettingsFile
      BY <1>0, <2>1, <3>1 DEF HandUnroute, Names
    <3>3. /\ g \in SettingsFile /\ g.line = settings["local"].line
          /\ g.lists = settings["local"].lists /\ g.url = 0 /\ g.port = 0
      BY <3>1, <3>2 DEF SettingsFile
    <3>4. Wired(g) => Wired(settings["local"])
      BY <3>3 DEF Wired, IsOurUrl, AnyEntry
    <3> QED
      BY <3>2, <3>3, <3>4 DEF Names
  <2>2. CASE \E n \in Names : HandMend(n)
    <3>0. PICK n \in Names : HandMend(n)
      BY <2>2
    <3>1. PICK g : g = [settings[n] EXCEPT !.st = "ok"]
      OBVIOUS
    <3>2. settings' = [settings EXCEPT ![n] = g] /\ settings[n] \in SettingsFile
      BY <1>0, <3>0, <3>1 DEF HandMend
    <3>3. /\ g \in SettingsFile /\ g.line = settings[n].line
          /\ g.lists = settings[n].lists /\ g.url = settings[n].url /\ g.port = settings[n].port
      BY <3>1, <3>2 DEF SettingsFile
    <3>4. Wired(g) => Wired(settings[n])
      BY <3>3 DEF Wired, IsOurUrl, AnyEntry
    <3> QED
      BY <3>2, <3>3, <3>4
  <2> QED
    BY <2>1, <2>2
<1>2. /\ settings' \in [Names -> SettingsFile]
      /\ \A m \in Names : /\ settings'[m].line = settings[m].line
                          /\ settings'[m].lists = settings[m].lists
                          /\ Wired(settings'[m]) => Wired(settings[m])
  BY <1>0, <1>1
<1>3. SetShape' /\ ListsKept'
  BY <1>0, <1>2, IdleShape DEF SetShape, ListsKept, JobType
<1>4. EffectiveLine' = EffectiveLine
  BY <1>2 DEF EffectiveLine, Names
<1>5. OneWired' /\ LineHeld'
  BY <1>0, <1>2, <1>4, IdleShape DEF OneWired, LineHeld, Tearing, Names
<1>6. EnableKnows' /\ DisableKnows'
  BY <1>0, IdleShape DEF EnableKnows, DisableKnows
<1> QED
  BY <1>3, <1>5, <1>6

LEMMA SettingsInvStep == SettingsInv /\ [SettingsNext]_setVars => SettingsInv'
<1> SUFFICES ASSUME SettingsInv, [SettingsNext]_setVars PROVE SettingsInv'
  OBVIOUS
<1>1. CASE (\E p \in BakePorts : EnableLoad(p)) \/ EnableSidecar \/ EnableMigrate \/ EnableWrite
  BY <1>1, EnableLoadStep, EnableSidecarStep, EnableMigrateStep, EnableWriteStep
<1>2. CASE DisableLoad \/ DisableDrop \/ \E n \in Names : DisableFile(n)
  BY <1>2, DisableLoadStep, DisableDropStep, DisableFileStep
<1>3. CASE Interrupted \/ HandUnroute \/ (\E n \in Names : HandMend(n)) \/ \E l \in Lines : HandLine(l)
  BY <1>3, InterruptedStep, HandFileStep, HandLineStep
<1>5. CASE HandUrl
  BY <1>5, HandUrlStep
<1>4. CASE UNCHANGED setVars
  BY <1>4 DEF setVars, SettingsInv, SetShape, ListsKept, OneWired, LineHeld, EnableKnows, DisableKnows,
     Tearing, EffectiveLine, UserLine, Wired, IsOurUrl, AnyEntry
<1> QED
  BY <1>1, <1>2, <1>3, <1>4, <1>5 DEF SettingsNext

\* Only an enable takes a base URL of the user's, and only the local one.
LEMMA UrlStripFacts ==
    ASSUME NEW f \in SettingsFile, NEW restore, f.url = UserUrl
    PROVE  Stripped(f, restore).url = UserUrl
<1>1. ~IsOurUrl(f)
  BY DEF IsOurUrl
<1>2. Stripped(f, restore).url = (IF IsOurUrl(f) THEN 0 ELSE f.url)
  BY DEF Stripped, SettingsFile
<1> QED
  BY <1>1, <1>2

LEMMA UrlKeptStep == SettingsInv /\ UrlKept /\ [SettingsNext]_setVars => UrlKept'
<1> SUFFICES ASSUME SettingsInv, UrlKept, [SettingsNext]_setVars PROVE UrlKept'
  OBVIOUS
<1>0. /\ settings \in [Names -> SettingsFile] /\ mine.urls \subseteq Names
      /\ mine = [line |-> mine.line, lists |-> mine.lists, urls |-> mine.urls,
                 over |-> mine.over, torn |-> mine.torn]
      /\ Names = {"local", "committed"}
  BY DEF SettingsInv, SetShape, Names
<1>1. ASSUME UNCHANGED settings, mine'.urls = mine.urls, mine'.over = mine.over
      PROVE  UrlKept'
  BY <1>1 DEF UrlKept
<1>2. ASSUME NEW m \in Names, NEW restore, UNCHANGED mine,
             settings' = [settings EXCEPT ![m] = Stripped(settings[m], restore)]
      PROVE  UrlKept'
  <2> SUFFICES ASSUME NEW n \in mine.urls, ~(n = "local" /\ mine.over)
               PROVE  settings'[n].url = UserUrl
    BY <1>2 DEF UrlKept
  <2>1. n \in Names /\ settings[n] \in SettingsFile /\ settings[n].url = UserUrl
    BY <1>0 DEF UrlKept
  <2>2. CASE n = m
    BY <1>0, <1>2, <2>1, <2>2, UrlStripFacts
  <2>3. CASE n # m
    BY <1>0, <1>2, <2>1, <2>3
  <2> QED
    BY <2>2, <2>3
<1>3. CASE EnableMigrate
  <2>1. CASE Wired(settings["committed"])
    BY <1>0, <1>2, <1>3, <2>1, Zenon DEF EnableMigrate
  <2>2. CASE ~Wired(settings["committed"])
    BY <1>1, <1>3, <2>2 DEF EnableMigrate
  <2> QED
    BY <2>1, <2>2
<1>4. CASE \E m \in Names : DisableFile(m)
  <2>0. PICK m \in Names : DisableFile(m)
    BY <1>4
  <2>1. CASE settings[m].st # "bad" /\ Wired(settings[m])
    <3>1. /\ settings' = [settings EXCEPT ![m] = Stripped(settings[m], job.line)]
          /\ UNCHANGED mine
      BY <2>0, <2>1 DEF DisableFile
    <3> QED
      BY <1>2, <3>1
  <2>2. CASE ~(settings[m].st # "bad" /\ Wired(settings[m]))
    <3>1. UNCHANGED <<settings, mine>>
      BY <2>0, <2>2 DEF DisableFile
    <3> QED
      BY <1>1, <3>1
  <2> QED
    BY <2>1, <2>2
<1>5. CASE EnableWrite
  <2>1. CASE Mergeable(job.v)
    <3>1. /\ settings' = [settings EXCEPT !["local"] = Enabled(job.v, job.port)]
          /\ mine'.urls = mine.urls /\ mine'.over
      BY <1>0, <1>5, <2>1 DEF EnableWrite
    <3>2. settings'["committed"] = settings["committed"]
      BY <1>0, <3>1
    <3> QED
      BY <1>0, <3>1, <3>2 DEF UrlKept
  <2>2. CASE ~Mergeable(job.v)
    <3>1. UNCHANGED settings /\ mine'.urls = mine.urls /\ mine'.over = mine.over
      BY <1>0, <1>5, <2>2 DEF EnableWrite
    <3> QED
      BY <1>1, <3>1
  <2> QED
    BY <2>1, <2>2
<1>6. CASE HandUrl
  <2>1. /\ settings'["local"].url = UserUrl /\ settings'["committed"] = settings["committed"]
        /\ mine'.urls = mine.urls \cup {"local"}
    BY <1>0, <1>6 DEF HandUrl, SettingsFile
  <2> QED
    BY <1>0, <2>1 DEF UrlKept
<1>7. CASE HandUnroute \/ (\E m \in Names : HandMend(m)) \/ \E l \in Lines : HandLine(l)
  <2>1. mine'.urls = mine.urls /\ mine'.over = mine.over
    BY <1>0, <1>7 DEF HandUnroute, HandMend, HandLine
  <2>2. \A n \in Names : settings[n].url = UserUrl => settings'[n].url = UserUrl
    <3>1. CASE HandUnroute
      BY <1>0, <3>1 DEF HandUnroute, IsOurUrl, SettingsFile
    <3>2. CASE \E m \in Names : HandMend(m)
      BY <1>0, <3>2 DEF HandMend, SettingsFile
    <3>3. CASE \E l \in Lines : HandLine(l)
      BY <1>0, <3>3 DEF HandLine, SettingsFile
    <3> QED
      BY <1>7, <3>1, <3>2, <3>3
  <2> QED
    BY <1>0, <2>1, <2>2 DEF UrlKept
<1>8. CASE Interrupted
  <2>1. UNCHANGED settings /\ mine'.urls = mine.urls /\ mine'.over = mine.over
    BY <1>0, <1>8 DEF Interrupted
  <2> QED
    BY <1>1, <2>1
<1>9. CASE \E p \in BakePorts : EnableLoad(p)
  <2>1. UNCHANGED <<settings, mine>>
    BY <1>9, Zenon DEF EnableLoad
  <2> QED
    BY <1>1, <2>1
<1>10. CASE EnableSidecar \/ DisableLoad \/ DisableDrop \/ UNCHANGED setVars
  <2>1. UNCHANGED <<settings, mine>>
    BY <1>10, Zenon DEF EnableSidecar, DisableLoad, DisableDrop, setVars
  <2> QED
    BY <1>1, <2>1
<1> QED
  BY <1>3, <1>4, <1>5, <1>6, <1>7, <1>8, <1>9, <1>10 DEF SettingsNext

\* The user's status line, rules and notes are not lost in any order of enables, disables, hand
\* edits and cut writes, whatever the files held at first, and of the user's base URLs only the
\* local one under an enabled route (settings_enable, settings_disable_at).
THEOREM SettingsAreKept == SettingsSpec => []SettingsKept
<1>1. SettingsInit => SettingsInv
  BY SettingsInitInv
<1>2. SettingsInv /\ [SettingsNext]_setVars => SettingsInv'
  BY SettingsInvStep
<1>3. SettingsInv /\ UrlKept => SettingsKept
  <2> SUFFICES ASSUME SettingsInv, UrlKept PROVE SettingsKept
    OBVIOUS
  <2>1. LineKept
    BY DEF SettingsInv, LineHeld, LineKept, EffectiveLine, SetShape
  <2>2. EntriesKept
    BY DEF SettingsInv, ListsKept, EntriesKept
  <2>3. DefaultsKept
    <3> SUFFICES ASSUME NEW n \in Names
                 PROVE  Builtin(settings[n].lists["notes"].e) = Builtin(mine.lists[n]["notes"])
      BY DEF DefaultsKept
    <3>1. Builtin(settings[n].lists["notes"].e) <=> Builtin(mine.lists[n]["notes"])
      BY DEF SettingsInv, ListsKept
    <3>2. /\ Builtin(settings[n].lists["notes"].e) \in BOOLEAN
          /\ Builtin(mine.lists[n]["notes"]) \in BOOLEAN
      BY DEF Builtin
    <3> QED
      BY <3>1, <3>2
  <2>4. DisableIsInverse /\ EnableIsComplete
    BY DEF SettingsInv, DisableKnows, EnableKnows, OneWired, DisableIsInverse, EnableIsComplete, Wired
  <2> QED
    BY <2>1, <2>2, <2>3, <2>4 DEF SettingsKept
<1>4. SettingsInit => UrlKept
  BY DEF SettingsInit, UrlKept
<1>5. SettingsInv /\ UrlKept /\ [SettingsNext]_setVars => UrlKept'
  BY UrlKeptStep
<1> QED
  BY <1>1, <1>2, <1>3, <1>4, <1>5, PTL DEF SettingsSpec

-----------------------------------------------------------------------------
(* The Codex merges.                                                       *)

CodexEvent == [shape : {"none", "inline", "tables"}, groups : SUBSET CodexGroups]
OursOf(gs) == {g \in gs : OursIn(g) # {}}
UserHas(gs) == \E g \in gs : UserHook \in g.hooks

\* An enabled event has our current path inline, and keeps what was the user's.
LEMMA EnableEventFacts ==
    ASSUME NEW ev \in CodexEvent, NEW d \in Dirs
    PROVE  LET n == EnableEvent(ev, d) IN
           /\ n \in CodexEvent
           /\ UserHas(ev.groups) => UserHas(n.groups)
           /\ \E g \in OursOf(n.groups) : g.form = "array" /\ OursIn(g) = {d}
           /\ OneOurs(ev.groups) => \E g : OursOf(n.groups) = {g} /\ g.form = "array"
<1> DEFINE cur(g) == IF g.form = "array" /\ OursIn(g) # {}
                     THEN [g EXCEPT !.hooks = (@ \cap {UserHook}) \cup {d}] ELSE g
           fresh == Group("array", {d})
<1>1. d \in Nat /\ UserHook \notin {d} /\ UserHook = -1
  BY CodexAssumption DEF UserHook
<1>2. ASSUME NEW g \in CodexGroups
      PROVE  /\ cur(g) \in CodexGroups /\ cur(g).form = g.form
             /\ UserHook \in g.hooks => UserHook \in cur(g).hooks
             /\ g.form = "array" /\ OursIn(g) # {} => OursIn(cur(g)) = {d}
             /\ ~(g.form = "array" /\ OursIn(g) # {}) => cur(g) = g
  BY <1>1 DEF CodexGroups, OursIn
<1>3. fresh \in CodexGroups /\ fresh.form = "array" /\ OursIn(fresh) = {d}
  BY <1>1 DEF CodexGroups, Group, OursIn
<1>4. PICK n : n = EnableEvent(ev, d)
  OBVIOUS
<1>5. ev.groups \subseteq CodexGroups
  BY DEF CodexEvent
<1>6. n = [shape |-> "tables",
           groups |-> IF \E g \in ev.groups : g.form = "array" /\ OursIn(g) # {}
                      THEN {cur(g) : g \in ev.groups} ELSE ev.groups \cup {fresh}]
  BY <1>4 DEF EnableEvent
<1> HIDE DEF cur, fresh
<1>7. CASE \E g \in ev.groups : g.form = "array" /\ OursIn(g) # {}
  <2>1. n.groups = {cur(g) : g \in ev.groups} /\ n = [shape |-> "tables", groups |-> n.groups]
    BY <1>6, <1>7
  <2>2. PICK a \in ev.groups : a.form = "array" /\ OursIn(a) # {}
    BY <1>7
  <2>3. n \in CodexEvent
    BY <1>2, <1>5, <2>1 DEF CodexEvent
  <2>4. UserHas(ev.groups) => UserHas(n.groups)
    BY <1>2, <1>5, <2>1 DEF UserHas
  <2>5. cur(a) \in OursOf(n.groups) /\ cur(a).form = "array" /\ OursIn(cur(a)) = {d}
    BY <1>2, <1>5, <2>1, <2>2 DEF OursOf
  <2>6. ASSUME OneOurs(ev.groups) PROVE OursOf(n.groups) = {cur(a)}
    <3>1. \A g \in ev.groups : OursIn(g) # {} => g = a
      BY <2>2, <2>6 DEF OneOurs
    <3>2. \A g \in ev.groups : OursIn(cur(g)) # {} => g = a
      BY <1>2, <1>5, <3>1
    <3> QED
      BY <2>1, <2>5, <3>2 DEF OursOf
  <2> QED
    BY <1>4, <2>3, <2>4, <2>5, <2>6
<1>8. CASE ~\E g \in ev.groups : g.form = "array" /\ OursIn(g) # {}
  <2>1. n.groups = ev.groups \cup {fresh} /\ n = [shape |-> "tables", groups |-> n.groups]
    BY <1>6, <1>8
  <2>2. n \in CodexEvent /\ (UserHas(ev.groups) => UserHas(n.groups))
    BY <1>3, <1>5, <2>1 DEF CodexEvent, UserHas
  <2>3. fresh \in OursOf(n.groups)
    BY <1>3, <2>1 DEF OursOf
  <2>4. ASSUME OneOurs(ev.groups) PROVE OursOf(n.groups) = {fresh}
    <3>1. \A g \in ev.groups : OursIn(g) = {}
      BY <1>8, <2>4 DEF OneOurs
    <3> QED
      BY <2>1, <2>3, <3>1 DEF OursOf
  <2> QED
    BY <1>3, <1>4, <2>2, <2>3, <2>4
<1> QED
  BY <1>7, <1>8

\* A disabled event has nothing of ours, and keeps what was the user's.
LEMMA DisableEventFacts ==
    ASSUME NEW ev \in CodexEvent
    PROVE  LET n == DisableEvent(ev) IN
           /\ n \in CodexEvent
           /\ UserHas(ev.groups) => UserHas(n.groups)
           /\ \A g \in n.groups : OursIn(g) = {}
<1> DEFINE bare(g) == [g EXCEPT !.hooks = @ \cap {UserHook}]
           kept == {g \in {bare(g) : g \in ev.groups} : g.hooks # {}}
<1>1. ASSUME NEW g \in CodexGroups
      PROVE  /\ bare(g) \in CodexGroups /\ OursIn(bare(g)) = {}
             /\ UserHook \in g.hooks <=> UserHook \in bare(g).hooks
  BY DEF CodexGroups, OursIn
<1>2. ev.groups \subseteq CodexGroups
  BY DEF CodexEvent
<1>3. PICK n : n = DisableEvent(ev)
  OBVIOUS
<1>4. n = IF \A g \in ev.groups : OursIn(g) = {} THEN ev
          ELSE IF kept = {} THEN NoEvent ELSE [shape |-> "tables", groups |-> kept]
  BY <1>3 DEF DisableEvent
<1>5. /\ kept \subseteq CodexGroups /\ (\A g \in kept : OursIn(g) = {})
      /\ UserHas(ev.groups) => UserHas(kept)
  <2> HIDE DEF bare
  <2> QED
    BY <1>1, <1>2 DEF UserHas
<1> HIDE DEF kept, bare
<1>6. NoEvent \in CodexEvent /\ NoEvent.groups = {}
  BY DEF NoEvent, CodexEvent
<1>7. CASE \A g \in ev.groups : OursIn(g) = {}
  BY <1>3, <1>4, <1>7
<1>8. CASE ~(\A g \in ev.groups : OursIn(g) = {}) /\ kept = {}
  BY <1>3, <1>4, <1>5, <1>6, <1>8 DEF UserHas
<1>9. CASE ~(\A g \in ev.groups : OursIn(g) = {}) /\ kept # {}
  <2>1. n = [shape |-> "tables", groups |-> kept]
    BY <1>4, <1>9
  <2>2. n \in CodexEvent /\ n.groups = kept
    BY <1>5, <2>1 DEF CodexEvent
  <2> QED
    BY <1>3, <1>5, <2>2
<1> QED
  BY <1>7, <1>8, <1>9

-----------------------------------------------------------------------------
(* The invariant.                                                          *)

CodexPort == CodexPorts \cup {0, 99}
Selections == {"none", "us", "acme", "corp"}

EditType == [at : {"idle", "write"}, kind : {"none", "enabled", "disabled"},
             read : CodexDoc, port : CodexPorts \cup {0}, dir : Nat,
             last : {"none", "refused", "enabled", "disabled"}]
SesType == [at : {"off", "start", "verify", "ready", "probe", "ask", "send"},
            route : CodexPort, over : BOOLEAN, start : Int, port : CodexPort,
            told : {"none", "not_routed", "auth_fail", "proxy_down", "restart", "onboarding"},
            exempt : BOOLEAN, conf : BOOLEAN, allowed : 0 .. 3,
            seen : {"never", "recent", "stale"}, reached : BOOLEAN, warn : BOOLEAN,
            silent : Nat]
HistType == [chosen : Selections, moved : BOOLEAN, first : CodexDoc, reformed : BOOLEAN]

CodexShape ==
    /\ doc \in CodexDoc /\ edit \in EditType /\ ses \in SesType /\ hist \in HistType
    /\ mtime \in Nat /\ now \in Nat /\ mtime <= now /\ now <= MaxTicks + 1
    /\ serving \in CodexPorts \cup {0} /\ optedOut \in BOOLEAN

\* A file that the merges and the user's edits leave behind.
FileSound(d) ==
    /\ d.block.owner = "ours" => d.st = "ok"
    /\ d.block.owner # "ours" => d.block.prior = "none"
    /\ d.sel = "us" => d.block.owner # "none"
    /\ d.st = "bad" => \A e \in CodexEvents : d.hooks[e].groups = {}

\* The provider that a disable would select.
Underneath(d) == IF d.block.owner = "ours" /\ d.sel = "us" THEN d.block.prior ELSE d.sel

FileKept ==
    /\ FileSound(doc)
    /\ hist.first.block.owner = "user" => doc.block = hist.first.block
    /\ hist.first.st = "bad" => doc = hist.first
    /\ \A e \in CodexEvents :
          UserHas(hist.first.hooks[e].groups) => UserHas(doc.hooks[e].groups)
    /\ ~hist.moved => hist.chosen = Underneath(doc)
    /\ ~hist.reformed => \A e \in CodexEvents : OneOurs(doc.hooks[e].groups)

\* A command writes over the file it read.
EditKept ==
    /\ edit.at = "write" =>
          /\ edit.read = doc /\ edit.kind \in {"enabled", "disabled"}
          /\ edit.kind = "enabled" => /\ ~RefusesProvider(doc)
                                      /\ edit.port \in CodexPorts /\ edit.dir \in Dirs
          /\ edit.kind = "disabled" => doc.st # "bad"
    /\ DisableRestores
    /\ edit.at = "idle" /\ edit.last = "enabled" =>
          /\ RouteFromConfig(doc) = edit.port /\ doc.block.sealed
          /\ \A e \in CodexEvents :
                /\ \E g \in OursOf(doc.hooks[e].groups) :
                      g.form = "array" /\ OursIn(g) = {edit.dir}
                /\ ~hist.reformed => \E g : OursOf(doc.hooks[e].groups) = {g}

\* A route read from the file is the session's own, until the file is written.
SessionKept ==
    /\ ses.at # "off" =>
          /\ ses.start <= now
          /\ mtime > ses.start \/ ses.over \/ ses.route = RouteFromConfig(doc)
    /\ ses.at \in {"verify", "probe", "ask", "send"} =>
          mtime > ses.start \/ ses.port = RouteFromConfig(doc)
    /\ ses.at = "verify" => ses.port # 0
    /\ ConfirmedIsLaunched /\ OnboardedIsLaunched
    /\ ses.silent <= 1 /\ (ses.silent = 1 => ses.allowed >= 1)

CodexInv == CodexShape /\ FileKept /\ EditKept /\ SessionKept

-----------------------------------------------------------------------------
(* The merges.                                                             *)

HooksType == [CodexEvents -> CodexEvent]

LEMMA DocFacts ==
    \A d \in CodexDoc :
       /\ d = [st |-> d.st, sel |-> d.sel, block |-> d.block, hooks |-> d.hooks]
       /\ d.st \in {"none", "ok", "bad"} /\ d.sel \in Selections
       /\ d.block.owner \in {"none", "ours", "user"} /\ d.block.sealed \in BOOLEAN
       /\ d.block.port \in CodexPort /\ d.block.prior \in {"none", "acme", "corp"}
       /\ d.hooks \in HooksType
  BY DEF CodexDoc, HooksType, CodexEvent, CodexPort, Selections

\* An enable selects our block, sealed, on the port, and remembers what it covers.
LEMMA EnableDocFacts ==
    ASSUME NEW d \in CodexDoc, NEW p \in CodexPorts, NEW dir \in Dirs,
           FileSound(d), ~RefusesProvider(d)
    PROVE  LET n == EnableHooks(EnableProvider(d, p), dir) IN
           /\ n \in CodexDoc /\ FileSound(n) /\ n.st = "ok" /\ n.sel = "us"
           /\ n.block.owner = "ours" /\ n.block.port = p /\ n.block.sealed
           /\ ~(d.block.owner = "ours" /\ d.sel # "us") => Underneath(n) = Underneath(d)
           /\ \A e \in CodexEvents : n.hooks[e] = EnableEvent(d.hooks[e], dir)
<1>1. PICK m : m = EnableProvider(d, p)
  OBVIOUS
<1>2. PICK n : n = EnableHooks(m, dir)
  OBVIOUS
<1>3. PriorOf(d) \in {"none", "acme", "corp"}
  BY DocFacts DEF PriorOf, Selections
<1>4. /\ m.st = "ok" /\ m.sel = "us" /\ m.block.owner = "ours" /\ m.block.port = p
      /\ m.block.sealed /\ m.hooks = d.hooks /\ m \in CodexDoc
      /\ m.block.prior = IF d.block.owner = "ours" /\ d.sel = "us" /\ d.block.port = p /\ d.block.sealed
                         THEN d.block.prior ELSE PriorOf(d)
  <2>1. CASE d.block.owner = "ours" /\ d.sel = "us" /\ d.block.port = p /\ d.block.sealed
    BY <1>1, <2>1 DEF EnableProvider, FileSound
  <2>2. CASE ~(d.block.owner = "ours" /\ d.sel = "us" /\ d.block.port = p /\ d.block.sealed)
    <3>1. m = [d EXCEPT !.st = "ok", !.sel = "us",
                   !.block = [owner |-> "ours", port |-> p, sealed |-> TRUE,
                              prior |-> PriorOf(d)]]
      BY <1>1, <2>2, Zenon DEF EnableProvider
    <3> QED
      BY <1>3, <2>2, <3>1 DEF CodexDoc
  <2> QED
    BY <2>1, <2>2
<1>5. n = [m EXCEPT !.hooks = [e \in CodexEvents |-> EnableEvent(m.hooks[e], dir)]]
  BY <1>2 DEF EnableHooks
<1>6. \A e \in CodexEvents : EnableEvent(d.hooks[e], dir) \in CodexEvent
  BY DocFacts, EnableEventFacts DEF HooksType
<1>7. /\ n.st = m.st /\ n.sel = m.sel /\ n.block = m.block
      /\ \A e \in CodexEvents : n.hooks[e] = EnableEvent(d.hooks[e], dir)
  BY <1>4, <1>5 DEF CodexDoc
<1>8. n \in CodexDoc
  BY <1>4, <1>5, <1>6 DEF CodexDoc, CodexEvent
<1>9. FileSound(n)
  BY <1>4, <1>7 DEF FileSound
<1>10. ~(d.block.owner = "ours" /\ d.sel # "us") => Underneath(n) = Underneath(d)
  BY <1>4, <1>7, DocFacts DEF Underneath, PriorOf, FileSound, RefusesProvider
<1> QED
  BY <1>1, <1>2, <1>4, <1>7, <1>8, <1>9, <1>10

\* A disable leaves no block of ours, and what it covered is selected again.
LEMMA DisableDocFacts ==
    ASSUME NEW d \in CodexDoc, FileSound(d), d.st # "bad"
    PROVE  LET n == DisableHooks(DisableProvider(d)) IN
           /\ n \in CodexDoc /\ FileSound(n) /\ n.st = d.st
           /\ n.block.owner # "ours" /\ Underneath(n) = Underneath(d) /\ n.sel = Underneath(d)
           /\ d.block.owner # "ours" => n.block = d.block
           /\ \A e \in CodexEvents : n.hooks[e] = DisableEvent(d.hooks[e])
<1>1. PICK m : m = DisableProvider(d)
  OBVIOUS
<1>2. PICK n : n = DisableHooks(m)
  OBVIOUS
<1>3. /\ m.st = d.st /\ m.block.owner # "ours" /\ m.hooks = d.hooks /\ m \in CodexDoc
      /\ m.sel = Underneath(d) /\ (d.block.owner # "ours" => m.block = d.block)
      /\ FileSound(m)
  <2>1. CASE d.block.owner # "ours"
    BY <1>1, <2>1, DocFacts DEF DisableProvider, Underneath
  <2>2. CASE d.block.owner = "ours"
    <3>1. m = [d EXCEPT !.block = NoBlock, !.sel = IF d.sel = "us" THEN d.block.prior ELSE d.sel]
      BY <1>1, <2>2 DEF DisableProvider
    <3>2. m.st = d.st /\ m.block = NoBlock /\ m.hooks = d.hooks /\ m.sel = Underneath(d)
      BY <2>2, <3>1 DEF CodexDoc, Underneath
    <3>3. m \in CodexDoc
      <4>1. Underneath(d) \in Selections /\ NoBlock \in [owner : {"none", "ours", "user"},
                port : CodexPorts \cup {0, 99}, sealed : BOOLEAN, prior : {"none", "acme", "corp"}]
        BY DocFacts DEF Underneath, Selections, NoBlock
      <4>2. m = [d EXCEPT !.block = NoBlock, !.sel = Underneath(d)]
        BY <2>2, <3>1 DEF Underneath
      <4> QED
        BY <4>1, <4>2 DEF CodexDoc, Selections
    <3>4. m.block.owner = "none" /\ m.block.prior = "none" /\ m.sel # "us"
      BY <2>2, <3>2, DocFacts DEF NoBlock, Underneath
    <3> QED
      BY <2>2, <3>2, <3>3, <3>4 DEF FileSound
  <2> QED
    BY <2>1, <2>2
<1>4. n = [m EXCEPT !.hooks = [e \in CodexEvents |-> DisableEvent(m.hooks[e])]]
  BY <1>2 DEF DisableHooks
<1>5. \A e \in CodexEvents : DisableEvent(d.hooks[e]) \in CodexEvent
  BY DocFacts, DisableEventFacts DEF HooksType
<1>6. /\ n.st = m.st /\ n.sel = m.sel /\ n.block = m.block
      /\ \A e \in CodexEvents : n.hooks[e] = DisableEvent(d.hooks[e])
  BY <1>3, <1>4 DEF CodexDoc
<1>7. n \in CodexDoc
  BY <1>3, <1>4, <1>5 DEF CodexDoc, CodexEvent
<1>8. FileSound(n) /\ Underneath(n) = Underneath(d)
  BY <1>3, <1>6 DEF FileSound, Underneath
<1> QED
  BY <1>1, <1>2, <1>3, <1>6, <1>7, <1>8

-----------------------------------------------------------------------------
(* The steps.                                                              *)

LEMMA VerdictFacts ==
    ASSUME NEW r \in BOOLEAN, NEW k \in BOOLEAN, NEW i \in BOOLEAN, NEW l \in BOOLEAN
    PROVE  /\ Verdict(r, k, i, l) \in {"not_routed", "auth_fail", "proxy_down", "restart",
                                       "onboarding"}
           /\ Verdict(r, k, i, l) = "onboarding" => r /\ k /\ i /\ l
  BY DEF Verdict

LEMMA RouteFacts == \A d \in CodexDoc : RouteFromConfig(d) \in CodexPort /\ 0 \in CodexPort
  BY DocFacts DEF RouteFromConfig, CodexPort

LEMMA NoEditType == NoEdit \in EditType /\ NoSession \in SesType
<1>1. NoDoc \in CodexDoc
  BY DEF NoDoc, CodexDoc, NoBlock, NoEvent
<1> QED
  BY <1>1 DEF NoEdit, EditType, NoSession, SesType, CodexPort

LEMMA CodexInitInv == CodexInit => CodexInv
<1> SUFFICES ASSUME CodexInit PROVE CodexInv
  OBVIOUS
<1>1. /\ doc \in CodexDoc /\ doc.block.owner # "ours" /\ doc.block.prior = "none"
      /\ doc.sel = "us" => doc.block.owner = "user"
      /\ \A e \in CodexEvents : OneOurs(doc.hooks[e].groups)
                                /\ (doc.st = "bad" => doc.hooks[e].groups = {})
  BY CodexDocsAssumption DEF CodexInit
<1>2. CodexShape
  <2>1. doc.sel \in Selections
    BY <1>1, DocFacts
  <2>2. hist \in HistType
    BY <1>1, <2>1 DEF CodexInit, HistType
  <2>3. mtime \in Nat /\ now \in Nat /\ mtime <= now /\ now <= MaxTicks + 1
    BY CodexAssumption DEF CodexInit
  <2> QED
    BY <1>1, <2>2, <2>3, NoEditType DEF CodexInit, CodexShape
<1>3. FileKept
  BY <1>1 DEF CodexInit, FileKept, FileSound, Underneath
<1>4. EditKept
  BY DEF CodexInit, EditKept, NoEdit, DisableRestores
<1>5. SessionKept
  BY DEF CodexInit, SessionKept, NoSession, ConfirmedIsLaunched, OnboardedIsLaunched
<1> QED
  BY <1>2, <1>3, <1>4, <1>5 DEF CodexInv

LEMMA FileRests == CodexInv /\ UNCHANGED <<doc, hist>> => FileKept'
  BY DEF CodexInv, FileKept

LEMMA EditRests == CodexInv /\ UNCHANGED <<doc, hist, edit>> => EditKept'
  BY DEF CodexInv, EditKept, DisableRestores

LEMMA SessionRests ==
    CodexInv /\ now' >= now /\ now' \in Nat /\ UNCHANGED ses
             /\ \/ UNCHANGED <<doc, mtime>>
                \/ mtime' = now + 1
      => SessionKept'
<1> SUFFICES ASSUME CodexInv, now' >= now, now' \in Nat, UNCHANGED ses,
                    UNCHANGED <<doc, mtime>> \/ mtime' = now + 1
             PROVE  SessionKept'
  OBVIOUS
<1>1. ses.start \in Int /\ now \in Nat /\ mtime \in Nat
  BY DEF CodexInv, CodexShape, SesType
<1>2. ConfirmedIsLaunched' /\ OnboardedIsLaunched'
  BY DEF CodexInv, SessionKept, ConfirmedIsLaunched, OnboardedIsLaunched
<1>3. CASE UNCHANGED <<doc, mtime>>
  BY <1>1, <1>2, <1>3 DEF CodexInv, SessionKept
<1>4. CASE mtime' = now + 1
  BY <1>1, <1>2, <1>4 DEF CodexInv, SessionKept
<1> QED
  BY <1>3, <1>4

LEMMA EnableReadKeeps ==
    ASSUME CodexInv, NEW p \in CodexPorts, NEW dir \in Dirs, CodexEnableRead(p, dir)
    PROVE  CodexInv'
<1>1. UNCHANGED <<doc, mtime, now, optedOut, ses, hist>> /\ serving' = p
  BY DEF CodexEnableRead
<1>2. dir \in Nat
  BY CodexAssumption
<1>3. edit' \in EditType /\ EditKept'
  <2>1. CASE RefusesProvider(doc)
    <3>1. edit' = [NoEdit EXCEPT !.last = "refused"]
      BY <2>1 DEF CodexEnableRead
    <3>2. edit' \in EditType /\ edit'.at = "idle" /\ edit'.last = "refused"
      BY <3>1, NoEditType DEF EditType, NoEdit
    <3> QED
      BY <3>2 DEF EditKept, DisableRestores
  <2>2. CASE ~RefusesProvider(doc)
    <3>1. edit' = [NoEdit EXCEPT !.at = "write", !.kind = "enabled",
                                 !.read = doc, !.port = p, !.dir = dir]
      BY <2>2 DEF CodexEnableRead
    <3>2. /\ edit' \in EditType /\ edit'.at = "write" /\ edit'.kind = "enabled"
          /\ edit'.read = doc /\ edit'.port = p /\ edit'.dir = dir
      BY <1>2, <3>1, NoEditType DEF EditType, CodexInv, CodexShape
    <3> QED
      BY <1>1, <2>2, <3>2 DEF EditKept, DisableRestores, RefusesProvider
  <2> QED
    BY <2>1, <2>2
<1> QED
  BY <1>1, <1>3, FileRests, SessionRests DEF CodexInv, CodexShape

LEMMA DisableReadKeeps ==
    ASSUME CodexInv, CodexDisableRead
    PROVE  CodexInv'
<1>1. UNCHANGED <<doc, mtime, now, serving, optedOut, ses, hist>>
  BY DEF CodexDisableRead
<1>2. edit' \in EditType /\ EditKept'
  <2>1. CASE doc.st = "bad"
    <3>1. edit' = [NoEdit EXCEPT !.last = "refused"]
      BY <2>1 DEF CodexDisableRead
    <3>2. edit' \in EditType /\ edit'.at = "idle" /\ edit'.last = "refused"
      BY <3>1, NoEditType DEF EditType, NoEdit
    <3> QED
      BY <3>2 DEF EditKept, DisableRestores
  <2>2. CASE doc.st # "bad"
    <3>1. edit' = [NoEdit EXCEPT !.at = "write", !.kind = "disabled", !.read = doc]
      BY <2>2 DEF CodexDisableRead
    <3>2. /\ edit' \in EditType /\ edit'.at = "write" /\ edit'.kind = "disabled"
          /\ edit'.read = doc
      BY <3>1, NoEditType DEF EditType, CodexInv, CodexShape
    <3> QED
      BY <1>1, <2>2, <3>2 DEF EditKept, DisableRestores
  <2> QED
    BY <2>1, <2>2
<1> QED
  BY <1>1, <1>2, FileRests, SessionRests DEF CodexInv, CodexShape

\* A write leaves the file the merge of what is in it.
LEMMA WriteKeeps ==
    ASSUME CodexInv, CodexWrite
    PROVE  CodexInv'
<1>1. /\ edit.at = "write" /\ edit.read = doc /\ doc \in CodexDoc /\ FileSound(doc)
      /\ now < MaxTicks /\ MaxTicks \in Nat /\ now \in Nat
      /\ UNCHANGED <<serving, optedOut, ses>>
  BY CodexAssumption DEF CodexWrite, CodexInv, CodexShape, FileKept, EditKept
<1>2. edit' = [NoEdit EXCEPT !.last = edit.kind, !.port = edit.port, !.dir = edit.dir]
  BY DEF CodexWrite
<1>3. /\ edit' \in EditType /\ edit'.at = "idle" /\ edit'.last = edit.kind
      /\ edit'.port = edit.port /\ edit'.dir = edit.dir
  BY <1>2, NoEditType DEF EditType, CodexInv, CodexShape, NoEdit
<1>4. PICK new : new = IF edit.kind = "enabled"
                       THEN EnableHooks(EnableProvider(doc, edit.port), edit.dir)
                       ELSE DisableHooks(DisableProvider(doc))
  OBVIOUS
<1>5. IF new = doc THEN UNCHANGED <<doc, mtime, now>> ELSE Written(new)
  BY <1>1, <1>4 DEF CodexWrite
<1>6. /\ doc' = new /\ now' >= now /\ now' \in Nat /\ now' <= MaxTicks + 1
      /\ mtime' \in Nat /\ mtime' <= now'
      /\ UNCHANGED <<doc, mtime>> \/ mtime' = now + 1
  BY <1>1, <1>5 DEF Written, CodexInv, CodexShape
<1>7. SessionKept'
  BY <1>1, <1>6, SessionRests
<1>8. hist \in HistType
  BY DEF CodexInv, CodexShape
<1>9. CASE edit.kind = "enabled"
  <2>1. ~RefusesProvider(doc) /\ edit.port \in CodexPorts /\ edit.dir \in Dirs
    BY <1>1, <1>9 DEF CodexInv, EditKept
  <2>2. /\ new \in CodexDoc /\ FileSound(new) /\ new.st = "ok" /\ new.sel = "us"
        /\ new.block.owner = "ours" /\ new.block.port = edit.port /\ new.block.sealed
        /\ ~(doc.block.owner = "ours" /\ doc.sel # "us") => Underneath(new) = Underneath(doc)
        /\ \A e \in CodexEvents : new.hooks[e] = EnableEvent(doc.hooks[e], edit.dir)
    BY <1>1, <1>4, <1>9, <2>1, EnableDocFacts
  <2>3. hist' = [hist EXCEPT !.moved = hist.moved \/ (doc.block.owner = "ours" /\ doc.sel # "us")]
    BY <1>1, <1>9 DEF CodexWrite
  <2>4. PICK v \in BOOLEAN : hist' = [hist EXCEPT !.moved = v]
                             /\ (v <=> hist.moved \/ (doc.block.owner = "ours" /\ doc.sel # "us"))
    <3>1. hist.moved \/ (doc.block.owner = "ours" /\ doc.sel # "us") \in BOOLEAN
      OBVIOUS
    <3> QED
      BY <2>3, Zenon
  <2>5. /\ hist' \in HistType /\ hist'.moved = v /\ hist'.first = hist.first
        /\ hist'.chosen = hist.chosen /\ hist'.reformed = hist.reformed
    BY <1>8, <2>4 DEF HistType
  <2>6. \A e \in CodexEvents : doc.hooks[e] \in CodexEvent
    BY <1>1, DocFacts DEF HooksType
  <2>7. \A e \in CodexEvents :
           /\ UserHas(doc.hooks[e].groups) => UserHas(new.hooks[e].groups)
           /\ \E g \in OursOf(new.hooks[e].groups) : g.form = "array" /\ OursIn(g) = {edit.dir}
           /\ OneOurs(doc.hooks[e].groups)
                => \E g : OursOf(new.hooks[e].groups) = {g} /\ g.form = "array"
    <3> SUFFICES ASSUME NEW e \in CodexEvents
                 PROVE  /\ UserHas(doc.hooks[e].groups) => UserHas(new.hooks[e].groups)
                        /\ \E g \in OursOf(new.hooks[e].groups) :
                              g.form = "array" /\ OursIn(g) = {edit.dir}
                        /\ OneOurs(doc.hooks[e].groups)
                             => \E g : OursOf(new.hooks[e].groups) = {g} /\ g.form = "array"
      OBVIOUS
    <3>1. new.hooks[e] = EnableEvent(doc.hooks[e], edit.dir) /\ doc.hooks[e] \in CodexEvent
      BY <2>2, <2>6
    <3>2. PICK ev \in CodexEvent, d \in Dirs : ev = doc.hooks[e] /\ d = edit.dir
      BY <2>1, <3>1
    <3>3. PICK n : n = EnableEvent(ev, d)
      OBVIOUS
    <3>4. /\ UserHas(ev.groups) => UserHas(n.groups)
          /\ \E g \in OursOf(n.groups) : g.form = "array" /\ OursIn(g) = {d}
          /\ OneOurs(ev.groups) => \E g : OursOf(n.groups) = {g} /\ g.form = "array"
      BY <3>3, EnableEventFacts, ZenonT(60)
    <3> QED
      BY <3>1, <3>2, <3>3, <3>4
  <2>8. \A e \in CodexEvents : OneOurs(doc.hooks[e].groups) => OneOurs(new.hooks[e].groups)
    BY <2>7 DEF OneOurs, OursOf
  <2>9. hist.first.block.owner # "user" /\ hist.first.st # "bad"
    BY <1>1, <2>1 DEF CodexInv, FileKept, RefusesProvider
  <2>10. FileKept'
    BY <1>6, <2>2, <2>4, <2>5, <2>7, <2>8, <2>9 DEF CodexInv, FileKept
  <2>11. EditKept'
    <3>2. RouteFromConfig(new) = edit.port
      BY <2>2 DEF RouteFromConfig
    <3>3. ~hist.reformed => \A e \in CodexEvents : OneOurs(doc.hooks[e].groups)
      BY DEF CodexInv, FileKept
    <3>4. DisableRestores'
      BY <1>3, <1>9 DEF DisableRestores
    <3> QED
      BY <1>3, <1>6, <1>9, <2>2, <2>5, <2>7, <3>2, <3>3, <3>4 DEF EditKept
  <2> QED
    BY <1>1, <1>3, <1>6, <1>7, <2>2, <2>5, <2>10, <2>11 DEF CodexInv, CodexShape
<1>10. CASE edit.kind = "disabled"
  <2>1. doc.st # "bad"
    BY <1>1, <1>10 DEF CodexInv, EditKept
  <2>2. /\ new \in CodexDoc /\ FileSound(new) /\ new.st = doc.st
        /\ new.block.owner # "ours" /\ Underneath(new) = Underneath(doc)
        /\ new.sel = Underneath(doc)
        /\ doc.block.owner # "ours" => new.block = doc.block
        /\ \A e \in CodexEvents : new.hooks[e] = DisableEvent(doc.hooks[e])
    BY <1>1, <1>4, <1>10, <2>1, DisableDocFacts
  <2>3. hist' = [hist EXCEPT !.moved = FALSE,
                             !.chosen = IF hist.moved THEN new.sel ELSE hist.chosen]
    BY <1>1, <1>4, <1>10 DEF CodexWrite
  <2>4. /\ hist'.moved = FALSE /\ hist'.first = hist.first /\ hist'.reformed = hist.reformed
        /\ hist'.chosen = IF hist.moved THEN new.sel ELSE hist.chosen
        /\ hist' \in HistType
    BY <1>8, <2>2, <2>3, DocFacts DEF HistType
  <2>5. hist'.chosen = new.sel
    BY <2>2, <2>4 DEF CodexInv, FileKept
  <2>6. \A e \in CodexEvents : doc.hooks[e] \in CodexEvent
    BY <1>1, DocFacts DEF HooksType
  <2>7. \A e \in CodexEvents :
           /\ UserHas(doc.hooks[e].groups) => UserHas(new.hooks[e].groups)
           /\ \A g \in new.hooks[e].groups : OursIn(g) = {}
    BY <2>2, <2>6, DisableEventFacts
  <2>8. \A e \in CodexEvents : OneOurs(new.hooks[e].groups)
    BY <2>7 DEF OneOurs
  <2>9. hist.first.block.owner = "user" => new.block = hist.first.block
    BY <2>2 DEF CodexInv, FileKept
  <2>10. hist.first.st # "bad"
    BY <2>1 DEF CodexInv, FileKept
  <2>11. Underneath(new) = new.sel
    BY <2>2 DEF Underneath
  <2>12. FileKept'
    BY <1>6, <2>2, <2>4, <2>5, <2>7, <2>8, <2>9, <2>10, <2>11 DEF CodexInv, FileKept
  <2>13. EditKept'
    BY <1>3, <1>6, <1>10, <2>2, <2>5, <2>7 DEF EditKept, DisableRestores
  <2> QED
    BY <1>1, <1>3, <1>6, <1>7, <2>2, <2>4, <2>12, <2>13 DEF CodexInv, CodexShape
<1> QED
  BY <1>1, <1>9, <1>10 DEF CodexInv, EditKept

\* Codex is launched: its route is the file's, and its start is not after now.
LEMMA LaunchKeeps ==
    ASSUME CodexInv, CodexLaunch, Back = 0
    PROVE  CodexInv'
<1>1. /\ now' \in {now, now + 1} /\ now' <= MaxTicks /\ ses.at = "off"
      /\ UNCHANGED <<doc, mtime, serving, optedOut, hist>>
      /\ edit' = IF edit.at = "idle" THEN NoEdit ELSE edit
  BY DEF CodexLaunch
<1>2. /\ now \in Nat /\ now' \in Nat /\ mtime \in Nat /\ MaxTicks \in Nat /\ mtime <= now
      /\ doc \in CodexDoc
  BY <1>1, CodexAssumption DEF CodexInv, CodexShape
<1>3. PICK over \in BOOLEAN :
         ses' = [NoSession EXCEPT !.at = "start", !.over = over, !.start = Floor(LocalTime(now')),
                                  !.route = IF over THEN 0 ELSE RouteFromConfig(doc)]
  BY DEF CodexLaunch
<1>4. PICK st, r :
         /\ st = Floor(LocalTime(now')) /\ r = (IF over THEN 0 ELSE RouteFromConfig(doc))
         /\ ses' = [NoSession EXCEPT !.at = "start", !.over = over, !.start = st, !.route = r]
  BY <1>3, Zenon
<1>5. st \in Int /\ st <= now'
  <2>1. PICK t \in Nat : t = now'
    BY <1>2
  <2>2. LocalTime(t) = t
    BY CodexAssumption DEF LocalTime
  <2> QED
    BY <1>4, <2>1, <2>2 DEF Floor
<1>6. r \in CodexPort
  BY <1>2, <1>4, RouteFacts
<1>7. /\ ses' \in SesType /\ ses'.at = "start" /\ ses'.over = over /\ ses'.start = st
      /\ ses'.route = r /\ ses'.told = "none" /\ ses'.silent = 0
  BY <1>4, <1>5, <1>6, NoEditType, ZenonT(60) DEF SesType, NoSession
<1>8. SessionKept'
  BY <1>1, <1>2, <1>4, <1>5, <1>7 DEF SessionKept, ConfirmedIsLaunched, OnboardedIsLaunched
<1>9. edit' \in EditType /\ EditKept'
  <2>1. CASE edit.at = "idle"
    <3>1. edit' \in EditType /\ edit'.at = "idle" /\ edit'.last = "none"
      BY <1>1, <2>1, NoEditType DEF NoEdit
    <3> QED
      BY <3>1 DEF EditKept, DisableRestores
  <2>2. CASE edit.at # "idle"
    BY <1>1, <2>2, EditRests DEF CodexInv, CodexShape
  <2> QED
    BY <2>1, <2>2
<1> QED
  BY <1>1, <1>2, <1>7, <1>8, <1>9, FileRests DEF CodexInv, CodexShape

\* A step of the session alone keeps the file and the commands.
LEMMA SessionStep ==
    ASSUME CodexInv, UNCHANGED <<doc, mtime, now, edit, hist>>, ses' \in SesType,
           serving' \in CodexPorts \cup {0}, optedOut' \in BOOLEAN, SessionKept'
    PROVE  CodexInv'
  BY FileRests, EditRests DEF CodexInv, CodexShape

LEMMA StartReadKeeps ==
    ASSUME CodexInv, CodexStartRead
    PROVE  CodexInv'
<1>1. UNCHANGED <<doc, mtime, now, edit, serving, optedOut, hist>> /\ ses.at = "start"
  BY DEF CodexStartRead
<1>2. ses \in SesType /\ RouteFromConfig(doc) \in CodexPort
  BY RouteFacts DEF CodexInv, CodexShape
<1>3. PICK key \in BOOLEAN :
         ses' = IF RouteFromConfig(doc) = 0 \/ ~key
                 THEN [ses EXCEPT !.at = "ready",
                         !.told = Verdict(RouteFromConfig(doc) # 0, key, FALSE, FALSE)]
                 ELSE [ses EXCEPT !.at = "verify", !.port = RouteFromConfig(doc)]
  BY DEF CodexStartRead
<1>4. PICK t : t = Verdict(RouteFromConfig(doc) # 0, key, FALSE, FALSE)
  OBVIOUS
<1>5. t \in {"not_routed", "auth_fail", "proxy_down", "restart"}
  BY <1>4, VerdictFacts
<1>6. CASE RouteFromConfig(doc) = 0 \/ ~key
  <2>1. ses' = [ses EXCEPT !.at = "ready", !.told = t]
    BY <1>3, <1>4, <1>6
  <2>2. /\ ses' \in SesType /\ ses'.at = "ready" /\ ses'.told = t /\ ses'.over = ses.over
        /\ ses'.start = ses.start /\ ses'.route = ses.route
        /\ ses'.silent = ses.silent /\ ses'.allowed = ses.allowed
    BY <1>2, <1>5, <2>1 DEF SesType
  <2>3. SessionKept'
    BY <1>1, <1>5, <2>2 DEF CodexInv, SessionKept, ConfirmedIsLaunched, OnboardedIsLaunched
  <2> QED
    BY <1>1, <2>2, <2>3, SessionStep DEF CodexInv, CodexShape
<1>7. CASE ~(RouteFromConfig(doc) = 0 \/ ~key)
  <2>1. ses' = [ses EXCEPT !.at = "verify", !.port = RouteFromConfig(doc)]
    BY <1>3, <1>7
  <2>2. /\ ses' \in SesType /\ ses'.at = "verify" /\ ses'.told = ses.told
        /\ ses'.over = ses.over /\ ses'.port = RouteFromConfig(doc)
        /\ ses'.start = ses.start /\ ses'.route = ses.route
        /\ ses'.silent = ses.silent /\ ses'.allowed = ses.allowed
    BY <1>2, <2>1 DEF SesType
  <2>3. RouteFromConfig(doc)' = RouteFromConfig(doc)
    BY <1>1
  <2>4. SessionKept'
    BY <1>1, <1>7, <2>2, <2>3 DEF CodexInv, SessionKept, ConfirmedIsLaunched, OnboardedIsLaunched
  <2> QED
    BY <1>1, <2>2, <2>4, SessionStep DEF CodexInv, CodexShape
<1> QED
  BY <1>6, <1>7

\* A file not written since the launch holds the route of the launch.
LEMMA LaunchedRoute ==
    ASSUME CodexInv, Back = 0, LaunchGenerationOk,
           ses.at \in {"verify", "probe", "ask", "send"}
    PROVE  ses.over \/ ses.route = ses.port
<1>1. mtime <= ses.start /\ mtime \in Nat /\ ses.start \in Int
  BY DEF LaunchGenerationOk, LocalTime, CodexInv, CodexShape, SesType
<1> QED
  BY <1>1 DEF CodexInv, SessionKept

LEMMA LaunchBoolean == CodexInv /\ Back = 0 => LaunchGenerationOk \in BOOLEAN
  BY DEF LaunchGenerationOk, LocalTime, CodexInv, CodexShape, SesType

LEMMA StartVerifyKeeps ==
    ASSUME CodexInv, CodexStartVerify, Back = 0
    PROVE  CodexInv'
<1>1. UNCHANGED <<doc, mtime, now, edit, optedOut, hist>> /\ ses.at = "verify"
  BY DEF CodexStartVerify
<1>2. ses \in SesType /\ serving' \in CodexPorts \cup {0}
  BY DEF CodexInv, CodexShape, CodexStartVerify
<1>3. PICK ident \in {FALSE, serving' = ses.port} :
         ses' = [ses EXCEPT !.at = "ready", !.port = 0,
                    !.told = Verdict(TRUE, TRUE, ident, LaunchGenerationOk)]
  BY DEF CodexStartVerify
<1>4. PICK t : t = Verdict(TRUE, TRUE, ident, LaunchGenerationOk)
  OBVIOUS
<1>5. /\ t \in {"not_routed", "auth_fail", "proxy_down", "restart", "onboarding"}
      /\ t = "onboarding" => LaunchGenerationOk
  <2>1. ident \in BOOLEAN /\ LaunchGenerationOk \in BOOLEAN
    BY <1>3, LaunchBoolean
  <2> QED
    BY <1>4, <2>1, VerdictFacts
<1>6. ses' = [ses EXCEPT !.at = "ready", !.port = 0, !.told = t]
  BY <1>3, <1>4, Zenon
<1>7. /\ ses' \in SesType /\ ses'.at = "ready" /\ ses'.told = t /\ ses'.over = ses.over
      /\ ses'.start = ses.start /\ ses'.route = ses.route
      /\ ses'.silent = ses.silent /\ ses'.allowed = ses.allowed
  BY <1>2, <1>5, <1>6, ZenonT(60) DEF SesType, CodexPort
<1>8. t = "onboarding" /\ ~ses.over => ses.route # 0
  BY <1>1, <1>5, LaunchedRoute DEF CodexInv, SessionKept
<1>9. SessionKept'
  BY <1>1, <1>7, <1>8 DEF CodexInv, SessionKept, ConfirmedIsLaunched, OnboardedIsLaunched
<1> QED
  BY <1>1, <1>2, <1>7, <1>9, SessionStep DEF CodexInv, CodexShape

LEMMA SubmitKeeps ==
    ASSUME CodexInv, CodexSubmit
    PROVE  CodexInv'
<1>1. UNCHANGED <<doc, mtime, now, edit, serving, optedOut, hist>> /\ ses.at = "ready"
  BY DEF CodexSubmit
<1>2. ses \in SesType /\ optedOut \in BOOLEAN /\ RouteFromConfig(doc) \in CodexPort
  BY RouteFacts DEF CodexInv, CodexShape
<1>3. PICK x \in BOOLEAN :
         ses' = [ses EXCEPT !.at = "probe", !.exempt = x,
                             !.port = RouteFromConfig(doc), !.warn = FALSE, !.told = "none"]
  <2>1. PICK c \in BOOLEAN, h \in BOOLEAN :
           ses' = [ses EXCEPT !.at = "probe", !.exempt = c \/ h \/ optedOut,
                              !.port = RouteFromConfig(doc), !.warn = FALSE, !.told = "none"]
    BY DEF CodexSubmit
  <2>2. (c \/ h \/ optedOut) \in BOOLEAN
    OBVIOUS
  <2> QED
    BY <2>1, <2>2, Zenon
<1>4. /\ ses' \in SesType /\ ses'.at = "probe" /\ ses'.told = "none"
      /\ ses'.over = ses.over /\ ses'.port = RouteFromConfig(doc)
      /\ ses'.start = ses.start /\ ses'.route = ses.route
      /\ ses'.silent = ses.silent /\ ses'.allowed = ses.allowed
  BY <1>2, <1>3 DEF SesType
<1>5. RouteFromConfig(doc)' = RouteFromConfig(doc)
  BY <1>1
<1>6. SessionKept'
  BY <1>1, <1>4, <1>5 DEF CodexInv, SessionKept, ConfirmedIsLaunched, OnboardedIsLaunched
<1> QED
  BY <1>1, <1>4, <1>6, SessionStep DEF CodexInv, CodexShape

\* The gate confirms only what the launch-generation check lets through.
LEMMA DecideKeeps ==
    ASSUME CodexInv, CodexDecide, Back = 0
    PROVE  CodexInv'
<1>1. UNCHANGED <<doc, mtime, now, edit, serving, optedOut, hist>> /\ ses.at = "probe"
  BY DEF CodexDecide
<1>2. ses \in SesType
  BY DEF CodexInv, CodexShape
<1>3. PICK ident \in Identity(ses.port) :
         LET confirmed == RouteConfirmed(ses.port # 0, ident, LaunchGenerationOk)
             blocked == IntakeBlocks(confirmed, ses.exempt)
         IN ses' = [ses EXCEPT !.conf = confirmed /\ ~blocked,
                       !.at = CASE blocked -> "ready"
                                [] ~blocked /\ confirmed -> "ask"
                                [] OTHER -> "send"]
  BY DEF CodexDecide
<1>4. PICK c : c = RouteConfirmed(ses.port # 0, ident, LaunchGenerationOk)
  OBVIOUS
<1>5. PICK b : b = IntakeBlocks(c, ses.exempt)
  OBVIOUS
<1>6. ses' = [ses EXCEPT !.conf = c /\ ~b,
                 !.at = CASE b -> "ready" [] ~b /\ c -> "ask" [] OTHER -> "send"]
  BY <1>3, <1>4, <1>5
<1>7. /\ ident \in BOOLEAN /\ c \in BOOLEAN /\ b \in BOOLEAN
      /\ c => LaunchGenerationOk
  <2>1. ident \in BOOLEAN
    BY DEF Identity
  <2>2. c \in BOOLEAN /\ (c => LaunchGenerationOk)
    BY <1>4, <2>1, LaunchBoolean DEF RouteConfirmed
  <2>3. b \in BOOLEAN
    BY <1>2, <1>5, <2>2 DEF IntakeBlocks, SesType
  <2> QED
    BY <2>1, <2>2, <2>3
<1>8. PICK v \in BOOLEAN, a \in {"ready", "ask", "send"} :
         ses' = [ses EXCEPT !.conf = v, !.at = a] /\ (v => c)
  <2>1. (c /\ ~b) \in BOOLEAN /\ (c /\ ~b => c)
    OBVIOUS
  <2>2. (CASE b -> "ready" [] ~b /\ c -> "ask" [] OTHER -> "send") \in {"ready", "ask", "send"}
    BY <1>7
  <2> QED
    BY <1>6, <2>1, <2>2, Zenon
<1>9. /\ ses' \in SesType /\ ses'.at = a /\ ses'.told = ses.told /\ ses'.conf = v
      /\ ses'.over = ses.over /\ ses'.port = ses.port
      /\ ses'.start = ses.start /\ ses'.route = ses.route
      /\ ses'.silent = ses.silent /\ ses'.allowed = ses.allowed
  BY <1>2, <1>8 DEF SesType
<1>10. v => ses.over \/ ses.route = ses.port
  BY <1>1, <1>7, <1>8, LaunchedRoute
<1>11. SessionKept'
  BY <1>1, <1>9, <1>10 DEF CodexInv, SessionKept, ConfirmedIsLaunched, OnboardedIsLaunched
<1> QED
  BY <1>1, <1>9, <1>11, SessionStep DEF CodexInv, CodexShape

\* Only a first confirmed prompt of a session goes unwarned.
LEMMA AskProxyKeeps ==
    ASSUME CodexInv, CodexAskProxy
    PROVE  CodexInv'
<1>1. UNCHANGED <<doc, mtime, now, edit, serving, optedOut, hist>> /\ ses.at = "ask"
  BY DEF CodexAskProxy
<1>2. /\ ses \in SesType /\ ses.allowed \in 0 .. 3 /\ ses.silent \in Nat
      /\ ses.silent <= 1 /\ (ses.silent = 1 => ses.allowed >= 1)
  BY DEF CodexInv, CodexShape, SessionKept, SesType
<1>3. PICK recent \in RoutedRecently(ses.port) :
         LET warn == OverrideWarn(ses.allowed, recent)
         IN ses' = [ses EXCEPT !.at = "send", !.warn = warn,
                      !.allowed = IF ses.allowed < 3 THEN ses.allowed + 1 ELSE ses.allowed,
                      !.silent = IF ses.over /\ recent = "no" /\ ~warn /\ ses.silent < 3
                                 THEN ses.silent + 1 ELSE ses.silent]
  BY DEF CodexAskProxy
<1>4. PICK w : w = OverrideWarn(ses.allowed, recent)
  OBVIOUS
<1>5. w \in BOOLEAN /\ (recent = "no" /\ ~w => ses.allowed = 0)
  <2>1. PICK q \in 0 .. 3 : q = ses.allowed
    BY <1>2
  <2>2. (q >= 1 /\ recent = "no") \in BOOLEAN
    OBVIOUS
  <2>3. w = (q >= 1 /\ recent = "no")
    BY <1>4, <2>1 DEF OverrideWarn
  <2>4. w \in BOOLEAN
    BY <2>2, <2>3, Zenon
  <2>5. recent = "no" /\ ~w => ~(q >= 1)
    BY <2>3, Zenon
  <2> QED
    BY <2>1, <2>4, <2>5
<1>6. PICK a : a = IF ses.allowed < 3 THEN ses.allowed + 1 ELSE ses.allowed
  OBVIOUS
<1>7. PICK s : s = IF ses.over /\ recent = "no" /\ ~w /\ ses.silent < 3
                   THEN ses.silent + 1 ELSE ses.silent
  OBVIOUS
<1>8. a \in 0 .. 3 /\ a >= 1 /\ s \in Nat /\ s <= 1
  BY <1>2, <1>5, <1>6, <1>7
<1>9. ses' = [ses EXCEPT !.at = "send", !.warn = w, !.allowed = a, !.silent = s]
  BY <1>3, <1>4, <1>6, <1>7
<1>10. /\ ses' \in SesType /\ ses'.at = "send" /\ ses'.told = ses.told /\ ses'.conf = ses.conf
       /\ ses'.over = ses.over /\ ses'.port = ses.port
       /\ ses'.start = ses.start /\ ses'.route = ses.route
       /\ ses'.silent = s /\ ses'.allowed = a
  BY <1>2, <1>5, <1>8, <1>9 DEF SesType
<1>11. SessionKept'
  BY <1>1, <1>8, <1>10 DEF CodexInv, SessionKept, ConfirmedIsLaunched, OnboardedIsLaunched
<1> QED
  BY <1>1, <1>10, <1>11, SessionStep DEF CodexInv, CodexShape

LEMMA SendKeeps ==
    ASSUME CodexInv, CodexSend
    PROVE  CodexInv'
<1>1. UNCHANGED <<doc, mtime, now, edit, serving, optedOut, hist>> /\ ses.at = "send"
  BY DEF CodexSend
<1>2. ses \in SesType /\ ses.reached \in BOOLEAN /\ ses.seen \in {"never", "recent", "stale"}
  BY DEF CodexInv, CodexShape, SesType
<1>3. PICK in : in = (ses.route # 0 /\ ses.route = serving)
  OBVIOUS
<1>4. PICK r \in BOOLEAN : r = (ses.reached \/ in)
  BY <1>2, <1>3
<1>5. PICK k \in {"never", "recent", "stale"} : k = IF in THEN "recent" ELSE ses.seen
  BY <1>2, <1>3
<1>6. ses' = [ses EXCEPT !.at = "ready", !.conf = FALSE, !.warn = FALSE, !.exempt = FALSE,
                         !.port = 0, !.seen = k, !.reached = r]
  BY <1>3, <1>4, <1>5, Zenon DEF CodexSend
<1>7. /\ ses' \in SesType /\ ses'.at = "ready" /\ ses'.told = ses.told
      /\ ses'.over = ses.over /\ ses'.start = ses.start /\ ses'.route = ses.route
      /\ ses'.silent = ses.silent /\ ses'.allowed = ses.allowed
  BY <1>2, <1>6, ZenonT(60) DEF SesType, CodexPort
<1>8. SessionKept'
  BY <1>1, <1>7 DEF CodexInv, SessionKept, ConfirmedIsLaunched, OnboardedIsLaunched
<1> QED
  BY <1>1, <1>7, <1>8, SessionStep DEF CodexInv, CodexShape

LEMMA ExitKeeps ==
    ASSUME CodexInv, CodexExit
    PROVE  CodexInv'
<1>1. UNCHANGED <<doc, mtime, now, edit, serving, optedOut, hist>> /\ ses' = NoSession
  BY DEF CodexExit
<1>2. SessionKept'
  BY <1>1 DEF SessionKept, NoSession, ConfirmedIsLaunched, OnboardedIsLaunched
<1> QED
  BY <1>1, <1>2, NoEditType, SessionStep DEF CodexInv, CodexShape

\* A pause, a death of the proxy, a start of it and an opt-out leave the session's
\* route, its start and its counts as they are.
LEMMA WorldKeeps ==
    ASSUME CodexInv, \/ CodexPause \/ CodexProxyDies \/ CodexOptOut
                     \/ \E p \in CodexPorts : CodexServe(p)
    PROVE  CodexInv'
<1>1. /\ UNCHANGED <<doc, mtime, now, edit, hist>>
      /\ serving' \in CodexPorts \cup {0} /\ optedOut' \in BOOLEAN
  BY DEF CodexPause, CodexProxyDies, CodexServe, CodexOptOut, CodexInv, CodexShape
<1>2. /\ ses' \in SesType /\ ses'.at = ses.at /\ ses'.told = ses.told /\ ses'.conf = ses.conf
      /\ ses'.over = ses.over /\ ses'.port = ses.port
      /\ ses'.start = ses.start /\ ses'.route = ses.route
      /\ ses'.silent = ses.silent /\ ses'.allowed = ses.allowed
  <2>1. PICK k \in {"never", "stale"} : ses' = [ses EXCEPT !.seen = k] \/ UNCHANGED ses
    BY DEF CodexPause, CodexProxyDies, CodexServe, CodexOptOut
  <2>2. ses \in SesType
    BY DEF CodexInv, CodexShape
  <2> QED
    BY <2>1, <2>2 DEF SesType
<1>3. SessionKept'
  BY <1>1, <1>2 DEF CodexInv, SessionKept, ConfirmedIsLaunched, OnboardedIsLaunched
<1> QED
  BY <1>1, <1>2, <1>3, SessionStep

\* The user writes the file between two commands.
LEMMA UserWrites ==
    ASSUME CodexInv, NEW d \in CodexDoc, Written(d), now < MaxTicks, edit' = NoEdit,
           hist' \in HistType, FileKept', UNCHANGED <<serving, optedOut, ses>>
    PROVE  CodexInv'
<1>1. now \in Nat /\ MaxTicks \in Nat
  BY CodexAssumption DEF CodexInv, CodexShape
<1>2. /\ doc' = d /\ now' \in Nat /\ mtime' \in Nat /\ mtime' <= now' /\ now' <= MaxTicks + 1
      /\ now' >= now /\ mtime' = now + 1
  BY <1>1 DEF Written
<1>3. EditKept'
  BY DEF EditKept, DisableRestores, NoEdit
<1> QED
  BY <1>2, <1>3, NoEditType, SessionRests DEF CodexInv, CodexShape

LEMMA SelectKeeps ==
    ASSUME CodexInv, CodexSelect("corp")
    PROVE  CodexInv'
<1>1. /\ doc.st = "ok" /\ now < MaxTicks /\ Written([doc EXCEPT !.sel = "corp"])
      /\ hist' = [hist EXCEPT !.chosen = "corp"] /\ edit' = NoEdit
      /\ UNCHANGED <<serving, optedOut, ses>>
  BY DEF CodexSelect
<1>2. doc \in CodexDoc /\ hist \in HistType
  BY DEF CodexInv, CodexShape
<1>3. PICK d : d = [doc EXCEPT !.sel = "corp"]
  OBVIOUS
<1>4. /\ d \in CodexDoc /\ d.st = doc.st /\ d.sel = "corp" /\ d.block = doc.block
      /\ d.hooks = doc.hooks
  BY <1>2, <1>3 DEF CodexDoc
<1>5. /\ hist' \in HistType /\ hist'.chosen = "corp" /\ hist'.moved = hist.moved
      /\ hist'.first = hist.first /\ hist'.reformed = hist.reformed
  BY <1>1, <1>2 DEF HistType, Selections
<1>6. FileSound(d) /\ Underneath(d) = "corp"
  BY <1>1, <1>4 DEF FileSound, Underneath, CodexInv, FileKept
<1>7. doc' = d
  BY <1>1, <1>3 DEF Written
<1>8. FileKept'
  BY <1>1, <1>4, <1>5, <1>6, <1>7 DEF CodexInv, FileKept
<1> QED
  BY <1>1, <1>3, <1>4, <1>5, <1>8, UserWrites

\* Rewriting a group as tables keeps its hooks.
LEMMA ReformKeeps ==
    ASSUME CodexInv, NEW e \in CodexEvents, CodexReform(e)
    PROVE  CodexInv'
<1>1. /\ now < MaxTicks /\ edit' = NoEdit /\ hist' = [hist EXCEPT !.reformed = TRUE]
      /\ UNCHANGED <<serving, optedOut, ses>>
  BY DEF CodexReform
<1>2. PICK g \in doc.hooks[e].groups :
         Written([doc EXCEPT !.hooks[e].groups = (@ \ {g}) \cup {[g EXCEPT !.form = "tables"]}])
  BY DEF CodexReform
<1>3. doc \in CodexDoc /\ hist \in HistType /\ doc.hooks \in HooksType
  BY DocFacts DEF CodexInv, CodexShape
<1>4. PICK h : h = [g EXCEPT !.form = "tables"]
  OBVIOUS
<1>5. PICK gs : gs = (doc.hooks[e].groups \ {g}) \cup {h}
  OBVIOUS
<1>6. PICK d : d = [doc EXCEPT !.hooks[e].groups = gs]
  OBVIOUS
<1>7. doc' = d /\ Written(d)
  BY <1>2, <1>4, <1>5, <1>6 DEF Written
<1>8. /\ h \in CodexGroups /\ gs \in SUBSET CodexGroups
      /\ UserHas(doc.hooks[e].groups) => UserHas(gs)
  <2>1. g \in CodexGroups /\ doc.hooks[e].groups \subseteq CodexGroups
    BY <1>3 DEF HooksType, CodexEvent
  <2>2. h \in CodexGroups /\ h.hooks = g.hooks
    BY <1>4, <2>1 DEF CodexGroups
  <2> QED
    BY <1>5, <2>1, <2>2 DEF UserHas
<1>9. /\ d \in CodexDoc /\ d.st = doc.st /\ d.sel = doc.sel /\ d.block = doc.block
      /\ \A x \in CodexEvents : d.hooks[x].groups = IF x = e THEN gs ELSE doc.hooks[x].groups
  <2>1. PICK ev : ev = [doc.hooks[e] EXCEPT !.groups = gs]
    OBVIOUS
  <2>2. ev \in CodexEvent /\ ev.groups = gs
    BY <1>3, <1>8, <2>1 DEF HooksType, CodexEvent
  <2>3. PICK hs : hs = [doc.hooks EXCEPT ![e] = ev]
    OBVIOUS
  <2>4. hs \in HooksType /\ \A x \in CodexEvents : hs[x] = IF x = e THEN ev ELSE doc.hooks[x]
    BY <1>3, <2>2, <2>3 DEF HooksType
  <2>5. d = [doc EXCEPT !.hooks = hs]
    BY <1>6, <2>1, <2>3
  <2>6. d \in CodexDoc
    BY <1>3, <2>4, <2>5 DEF CodexDoc, HooksType, CodexEvent
  <2>7. d.st = doc.st /\ d.sel = doc.sel /\ d.block = doc.block /\ d.hooks = hs
    BY <1>3, <2>5 DEF CodexDoc
  <2> QED
    BY <2>2, <2>4, <2>6, <2>7
<1>10. /\ hist' \in HistType /\ hist'.chosen = hist.chosen /\ hist'.moved = hist.moved
       /\ hist'.first = hist.first /\ hist'.reformed = TRUE
  BY <1>1, <1>3 DEF HistType
<1>11. doc.st # "bad" /\ hist.first.st # "bad"
  BY DEF CodexInv, FileKept, FileSound, CodexReform
<1>12. FileSound(d) /\ Underneath(d) = Underneath(doc)
  BY <1>9, <1>11 DEF FileSound, Underneath, CodexInv, FileKept
<1>13. FileKept'
  BY <1>7, <1>8, <1>9, <1>10, <1>11, <1>12 DEF CodexInv, FileKept
<1> QED
  BY <1>1, <1>7, <1>9, <1>10, <1>13, UserWrites

LEMMA CodexStepKeeps == CodexInv /\ [CodexNext]_codexVars /\ Back = 0 => CodexInv'
<1> SUFFICES ASSUME CodexInv, [CodexNext]_codexVars, Back = 0 PROVE CodexInv'
  OBVIOUS
<1>1. CASE UNCHANGED codexVars
  <2>1. UNCHANGED <<doc, mtime, now, edit, serving, optedOut, ses, hist>>
    BY <1>1 DEF codexVars
  <2>2. now' >= now /\ now' \in Nat
    BY <2>1 DEF CodexInv, CodexShape
  <2> QED
    BY <2>1, <2>2, FileRests, EditRests, SessionRests DEF CodexInv, CodexShape
<1>2. ASSUME NEW p \in CodexPorts, CodexServe(p) PROVE CodexInv'
  BY <1>2, WorldKeeps
<1>3. ASSUME NEW p \in CodexPorts, NEW d \in Dirs, CodexEnableRead(p, d) PROVE CodexInv'
  BY <1>3, EnableReadKeeps
<1>4. CASE CodexPause \/ CodexProxyDies \/ CodexOptOut
  BY <1>4, WorldKeeps
<1>5. CASE CodexDisableRead
  BY <1>5, DisableReadKeeps
<1>6. CASE CodexWrite
  BY <1>6, WriteKeeps
<1>7. CASE CodexLaunch
  BY <1>7, LaunchKeeps
<1>8. CASE CodexStartRead
  BY <1>8, StartReadKeeps
<1>9. CASE CodexStartVerify
  BY <1>9, StartVerifyKeeps
<1>10. CASE CodexSubmit
  BY <1>10, SubmitKeeps
<1>11. CASE CodexDecide
  BY <1>11, DecideKeeps
<1>12. CASE CodexAskProxy
  BY <1>12, AskProxyKeeps
<1>13. CASE CodexSend
  BY <1>13, SendKeeps
<1>14. CASE CodexExit
  BY <1>14, ExitKeeps
<1>15. CASE CodexSelect("corp")
  BY <1>15, SelectKeeps
<1>16. ASSUME NEW e \in CodexEvents, CodexReform(e) PROVE CodexInv'
  BY <1>16, ReformKeeps
<1> QED
  BY <1>1, <1>2, <1>3, <1>4, <1>5, <1>6, <1>7, <1>8, <1>9, <1>10, <1>11, <1>12,
     <1>13, <1>14, <1>15, <1>16 DEF CodexNext

LEMMA CodexInvImplies == CodexInv => CodexSound
<1> SUFFICES ASSUME CodexInv PROVE CodexSound
  OBVIOUS
<1>1. CodexTypeOK
  <2>1. doc \in CodexDoc /\ ses \in SesType
    BY DEF CodexInv, CodexShape
  <2>2. /\ doc.st \in {"none", "ok", "bad"} /\ doc.sel \in {"none", "us", "acme", "corp"}
        /\ doc.block.prior \in {"none", "acme", "corp"}
    BY <2>1, DocFacts DEF Selections
  <2>3. ses.route \in CodexPort /\ ses.port \in CodexPort /\ ses.allowed \in 0 .. 3
    BY <2>1 DEF SesType
  <2>4. mtime \in 0 .. MaxTicks + 1 /\ now \in 0 .. MaxTicks + 1
    BY CodexAssumption DEF CodexInv, CodexShape
  <2> QED
    BY <2>2, <2>3, <2>4 DEF CodexTypeOK, CodexPort, CodexInv, CodexShape
<1>2. UsersConfigKept
  BY DEF CodexInv, FileKept, UsersConfigKept, UserHas
<1>3. EnableInstalls
  <2> SUFFICES ASSUME edit.at = "idle", edit.last = "enabled", NEW e \in CodexEvents
               PROVE  LET ours == {g \in doc.hooks[e].groups : OursIn(g) # {}}
                      IN /\ Group("array", {edit.dir}) \in
                              {[g EXCEPT !.hooks = OursIn(g)] : g \in ours}
                         /\ ~hist.reformed => Cardinality(ours) = 1
    BY DEF EnableInstalls, CodexInv, EditKept
  <2>1. /\ \E g \in OursOf(doc.hooks[e].groups) : g.form = "array" /\ OursIn(g) = {edit.dir}
        /\ ~hist.reformed => \E g : OursOf(doc.hooks[e].groups) = {g}
    BY DEF CodexInv, EditKept
  <2>2. PICK g \in OursOf(doc.hooks[e].groups) : g.form = "array" /\ OursIn(g) = {edit.dir}
    BY <2>1
  <2>3. g \in CodexGroups
    BY DocFacts DEF CodexInv, CodexShape, OursOf, HooksType, CodexEvent
  <2>4. [g EXCEPT !.hooks = OursIn(g)] = Group("array", {edit.dir})
    BY <2>2, <2>3 DEF CodexGroups, Group
  <2>5. ~hist.reformed => Cardinality(OursOf(doc.hooks[e].groups)) = 1
    BY <2>1, FS_Singleton
  <2> QED
    BY <2>2, <2>4, <2>5 DEF OursOf
<1> QED
  BY <1>1, <1>2, <1>3 DEF CodexInv, EditKept, SessionKept, CodexSound, OverrideIsWarned

\* The user's config survives enable, edits and disable, and a session is told,
\* confirmed or warned by the route it was launched with, for any ports,
\* directories and files, as long as the local clock is not put back.
THEOREM CodexIsSound == ASSUME Back = 0 PROVE CodexSpec => []CodexSound
<1>1. CodexInit => CodexInv
  BY CodexInitInv
<1>2. CodexInv /\ [CodexNext]_codexVars => CodexInv'
  BY CodexStepKeeps
<1>3. CodexInv => CodexSound
  BY CodexInvImplies
<1> QED
  BY <1>1, <1>2, <1>3, PTL DEF CodexSpec

=============================================================================
