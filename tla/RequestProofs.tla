---------------------------- MODULE RequestProofs ----------------------------
(***************************************************************************)
(* Theorems about Request, for any conversations, targets, request shapes, *)
(* ttls and bounds.                                                        *)
(***************************************************************************)
EXTENDS Request, TLAPS

USE RequestAssumption

(***************************************************************************)
(* The masking-off window.  A caller between its clock read and its insert *)
(* holds a time that has been and a clamped ttl; the deadline it inserts   *)
(* is then within MAX_MASKING_OFF_TTL of the clock.  The history knows     *)
(* every deadline that was given.                                          *)
(***************************************************************************)
ArmingIsRecent ==
    arming.on => /\ arming.conv \in Conv
                 /\ arming.now \in 1..clock
                 /\ arming.ttl \in 0..MaxTtl

WindowTyped ==
    /\ clock \in 1..MaxClock
    /\ off \in [Conv -> Nat]
    /\ balance \in [Conv -> Int]
    /\ lastDeadline \in [Conv -> Nat]
    /\ \A c \in Conv : off[c] <= lastDeadline[c]

WindowInv == WindowTyped /\ ArmingIsRecent /\ WindowBounded /\ WindowEndsOnce

\* What other steps than those of a window's own may do to the windows.
WindowMoves ==
    \/ \E gone \in SUBSET {c \in Conv : off[c] # 0} :
          Evict(gone) /\ UNCHANGED <<arming, lastDeadline, clock>>
    \/ UNCHANGED <<off, arming, balance, lastDeadline, clock>>

LEMMA EvictInv ==
  ASSUME WindowInv, WindowMoves
  PROVE  /\ WindowInv'
         /\ \A c \in Conv : off'[c] <= off[c] /\ lastDeadline'[c] = lastDeadline[c]
<1> USE DEF WindowInv, WindowTyped, WindowBounded, WindowEndsOnce
<1>1. CASE UNCHANGED <<off, arming, balance, lastDeadline, clock>>
  BY <1>1 DEF ArmingIsRecent
<1>2. ASSUME NEW gone \in SUBSET {c \in Conv : off[c] # 0}, Evict(gone),
             UNCHANGED <<arming, lastDeadline, clock>>
      PROVE  /\ WindowInv'
             /\ \A c \in Conv : /\ off'[c] <= off[c]
                                /\ lastDeadline'[c] = lastDeadline[c]
  <2>1. /\ off' = [c \in Conv |-> IF c \in gone THEN 0 ELSE off[c]]
        /\ balance' = [c \in Conv |-> IF c \in gone THEN balance[c] - 1
                                      ELSE balance[c]]
    BY <1>2 DEF Evict
  <2>2. off' \in [Conv -> Nat] /\ balance' \in [Conv -> Int]  BY <2>1
  <2>3. \A c \in Conv : off'[c] \in {0, off[c]}  BY <2>1
  <2>4. ArmingIsRecent'  BY <1>2 DEF ArmingIsRecent
  <2>5. WindowBounded' /\ \A c \in Conv : off'[c] <= lastDeadline'[c]
    BY <1>2, <2>2, <2>3
  <2>6. WindowEndsOnce'  BY <2>1
  <2> QED  BY <1>2, <2>2, <2>3, <2>4, <2>5, <2>6
<1> QED  BY <1>1, <1>2 DEF WindowMoves

LEMMA ClampIs ==
  ASSUME NEW t \in {DefaultTtl} \cup Ttls
  PROVE  Clamp(t) \in 0..MaxTtl
BY DEF Clamp

LEMMA WindowStep ==
  ASSUME WindowInv, [RequestNext]_reqVars
  PROVE  /\ WindowInv'
         /\ clock <= clock'
         /\ \A c \in Conv : lastDeadline[c] <= lastDeadline'[c]
<1> USE DEF WindowInv, WindowTyped
<1>1. CASE WindowMoves  BY <1>1, EvictInv DEF WindowMoves
<1>2. ASSUME NEW c \in Conv, ArmClock(c)
      PROVE  /\ WindowInv' /\ clock' = clock /\ lastDeadline' = lastDeadline
  <2>1. PICK t \in {DefaultTtl} \cup Ttls :
          arming' = [on |-> TRUE, conv |-> c, now |-> clock, ttl |-> Clamp(t)]
    BY <1>2 DEF ArmClock
  <2>2. UNCHANGED <<off, balance, lastDeadline, clock>>  BY <1>2 DEF ArmClock
  <2>3. ArmingIsRecent'  BY <2>1, <2>2, ClampIs DEF ArmingIsRecent
  <2> QED  BY <2>2, <2>3 DEF WindowBounded, WindowEndsOnce
<1>3. CASE ArmInsert
  <2> DEFINE c == arming.conv
             d == arming.now + arming.ttl
  <2>1. /\ off' = [off EXCEPT ![c] = d]
        /\ balance' = [balance EXCEPT ![c] = IF off[c] = 0 THEN @ + 1 ELSE @]
        /\ lastDeadline' = [lastDeadline EXCEPT ![c] = IF d > @ THEN d ELSE @]
        /\ ~arming'.on /\ clock' = clock
    BY <1>3 DEF ArmInsert
  <2>2. c \in Conv /\ d \in Nat /\ d # 0 /\ d <= clock + MaxTtl
    BY <1>3 DEF ArmInsert, ArmingIsRecent
  <2> HIDE DEF c, d
  <2>3. WindowTyped' /\ \A e \in Conv : lastDeadline[e] <= lastDeadline'[e]
    BY <2>1, <2>2
  <2>4. WindowBounded'  BY <2>1, <2>2 DEF WindowBounded
  <2>5. WindowEndsOnce'  BY <2>1, <2>2 DEF WindowEndsOnce
  <2>6. ArmingIsRecent'  BY <2>1 DEF ArmingIsRecent
  <2> QED  BY <2>1, <2>3, <2>4, <2>5, <2>6
<1>4. ASSUME NEW c \in Conv, ClearOff(c)
      PROVE  /\ WindowInv' /\ clock' = clock /\ lastDeadline' = lastDeadline
  BY <1>4 DEF ClearOff, WindowBounded, WindowEndsOnce, ArmingIsRecent
<1>5. CASE Tick
  BY <1>5 DEF Tick, window, WindowBounded, WindowEndsOnce, ArmingIsRecent
<1>6. CASE Sweep \/ AskWindow \/ CheckWindow
  <2>1. \E gone \in SUBSET {c \in Conv : off[c] # 0} :
          Evict(gone) /\ UNCHANGED <<arming, lastDeadline, clock>>
    <3>1. CASE Sweep
      BY <3>1 DEF Sweep, Expired
    <3>2. CASE AskWindow
      <4> DEFINE gone == {c \in {asking.conv} : Expired(c, asking.now)}
      <4>1. Evict(gone \cap Conv) /\ UNCHANGED <<arming, lastDeadline, clock>>
        BY <3>2 DEF AskWindow, Evict
      <4> QED  BY <4>1 DEF Expired
    <3>3. CASE CheckWindow
      <4> DEFINE gone == {c \in {req.s.url} : Expired(c, req.now)}
      <4>1. Evict(gone \cap Conv) /\ UNCHANGED <<arming, lastDeadline, clock>>
        BY <3>3 DEF CheckWindow, Evict
      <4> QED  BY <4>1 DEF Expired
    <3> QED  BY <1>6, <3>1, <3>2, <3>3
  <2> QED  BY <1>1, <2>1 DEF WindowMoves
<1>7. CASE \/ \E c \in Conv : AskClock(c) \/ SetPin(c)
           \/ SecretsResolve \/ SetEnabled \/ Arrive \/ CheckClock \/ ReadBody
           \/ Mask \/ Record \/ Send \/ Scan \/ Route \/ Relay \/ Finish
           \/ UNCHANGED reqVars
  <2>1. UNCHANGED <<off, arming, balance, lastDeadline, clock>>
    BY <1>7 DEF AskClock, SetPin, SecretsResolve, SetEnabled, Arrive, CheckClock,
       ReadBody, Mask, Record, Send, Scan, Route, Relay, Finish, reqVars, window
  <2> QED  BY <1>1, <2>1 DEF WindowMoves
<1> QED
  BY <1>1, <1>2, <1>3, <1>4, <1>5, <1>6, <1>7
     DEF RequestNext, MaskingDisable, MaskingEnable, MaskingStatus

(***************************************************************************)
(* The request in flight: its types, and what of the control plane cannot  *)
(* have escaped its history while it was in the proxy.                     *)
(***************************************************************************)
MaskedPc == {"clock", "window", "body", "mask", "record", "send"}
VerbatimPc == {"scan", "route", "relay"}
Pcs == {"idle", "sent", "done"} \cup MaskedPc \cup VerbatimPc

ReqType == [pc : Pcs, s : Shapes \cup {NoShape}, target : Verified \cup {NoTarget},
            now : Nat, off : BOOLEAN, clear : BOOLEAN, leaks : BOOLEAN,
            live : BOOLEAN, key : {"none", "client", "target"},
            status : Statuses, arrived : Nat, entry : PinTargets \cup {NoTarget},
            unpinned : BOOLEAN, unknown : BOOLEAN, dark : BOOLEAN]

ShapeType == {"messages", "count_tokens", "chat", "responses", "verbatim"}

SwitchesTyped ==
    /\ {ready, registered, enabled} \subseteq BOOLEAN
    /\ pin \in [Conv -> PinTargets \cup {NoTarget}]
    /\ ledger \in 0..1

\* r has seen the pin p, the rule and the switch as they are now.
Seen(r, p, rule, on) ==
    r.pc \in MaskedPc \cup VerbatimPc =>
        /\ r.s \in Shapes
        /\ Named(r.s) = NoConv \/ p[Named(r.s)] = NoTarget => r.unpinned
        /\ ~rule => r.unknown
        /\ ~on => r.dark

\* Each way of a request keeps what it found out on entry.
OnItsWay(r) ==
    /\ r.pc \in MaskedPc =>
          /\ r.s.kind # "verbatim" /\ r.target = r.entry
          /\ r.target = NoTarget => r.unpinned
    /\ r.pc \in VerbatimPc => r.s.kind = "verbatim"
    /\ r.pc = "relay" => r.unpinned
    /\ r.pc \in {"clock", "window"} => r.s.url \in Conv
    /\ r.pc = "window" => r.arrived <= r.now
    /\ r.pc \in {"clock", "window"} => ~r.clear   \* nothing is masked yet
    /\ r.pc = "sent" =>
          /\ r.s.kind # "verbatim" => r.target = r.entry
          /\ r.target = NoTarget => r.unpinned
          /\ r.target # NoTarget => r.key = "target"

\* What leaves in clear has a reason.
HasReason(r) ==
    /\ r.leaks => r.unknown
    /\ r.off => r.s.url \in Conv /\ r.arrived < lastDeadline[r.s.url]
    /\ r.clear /\ r.s.kind # "verbatim" => r.dark \/ r.off

ReqInv(r) == r \in ReqType /\ r.arrived <= clock /\ OnItsWay(r) /\ HasReason(r)

RequestInv ==
    /\ SwitchesTyped /\ WindowInv
    /\ ReqInv(req) /\ Seen(req, pin, registered, enabled)

LEMMA ShapeFacts ==
  ASSUME NEW s \in Shapes
  PROVE  /\ s.kind \in ShapeType /\ s.pii \in BOOLEAN
         /\ s.url \in Conv \cup {NoConv} /\ s.header \in Conv \cup {NoConv}
         /\ Named(s) \in Conv \cup {NoConv}
         /\ Named(s) = NoConv => s.url = NoConv /\ s.header = NoConv
         /\ s.url # NoConv => Named(s) = s.url
         /\ s.url = NoConv => Named(s) = s.header
BY DEF Named, ShapeType

LEMMA FreshInv ==
  ASSUME WindowTyped
  PROVE  ReqInv(Fresh) /\ \A p, rule, on : Seen(Fresh, p, rule, on)
BY DEF ReqInv, ReqType, OnItsWay, HasReason, Seen, Fresh, NoShape, Statuses, Pcs,
       MaskedPc, VerbatimPc, WindowTyped

\* An answer ends the way, whatever it is.
LEMMA AnswerInv ==
  ASSUME NEW r, ReqInv(r), NEW status \in Statuses
  PROVE  /\ ReqInv(Answer(r, status))
         /\ \A p, rule, on : Seen(Answer(r, status), p, rule, on)
<1>1. Answer(r, status) = [r EXCEPT !.pc = "done", !.status = status]
  BY DEF Answer
<1>2. r \in ReqType  BY DEF ReqInv
<1>3. Answer(r, status) \in ReqType  BY <1>1, <1>2 DEF ReqType, Pcs
<1> QED
  BY <1>1, <1>2, <1>3 DEF ReqInv, ReqType, OnItsWay, HasReason, Seen, MaskedPc,
                          VerbatimPc

\* Time passes and windows are only given later ends.
LEMMA ReqMono ==
  ASSUME WindowInv, [RequestNext]_reqVars, NEW r, ReqInv(r), req' = r
  PROVE  ReqInv(req)'
<1>1. /\ clock \in Nat /\ clock' \in Nat /\ clock <= clock'
      /\ lastDeadline \in [Conv -> Nat] /\ lastDeadline' \in [Conv -> Nat]
      /\ \A c \in Conv : lastDeadline[c] <= lastDeadline'[c]
  BY WindowStep DEF WindowInv, WindowTyped
<1>2. r.arrived \in Nat  BY DEF ReqInv, ReqType
<1> QED  BY <1>1, <1>2 DEF ReqInv, OnItsWay, HasReason

(***************************************************************************)
(* The control plane's changes are watched by the request in flight.       *)
(***************************************************************************)
LEMMA WatchInv ==
  ASSUME RequestInv, req' = Watch(req), NEW r, req' = r
  PROVE  ReqInv(r) /\ Seen(r, pin', registered', enabled')
<1> DEFINE u == IF Named(req.s) = NoConv THEN TRUE
                ELSE pin'[Named(req.s)] = NoTarget
<1>1. req \in ReqType  BY DEF RequestInv, ReqInv
<1>2. CASE req.pc \in {"idle", "sent", "done"}
  <2>1. r = req  BY <1>2 DEF Watch
  <2> QED  BY <1>2, <2>1 DEF RequestInv, Seen, MaskedPc, VerbatimPc
<1>3. CASE req.pc \notin {"idle", "sent", "done"}
  <2> DEFINE x == req.unpinned \/ u
             y == req.unknown \/ ~registered'
             z == req.dark \/ ~enabled'
  <2>1. r = [req EXCEPT !.unpinned = x, !.unknown = y, !.dark = z]
    BY <1>1, <1>3 DEF Watch, ReqType
  <2>2. x \in BOOLEAN /\ y \in BOOLEAN /\ z \in BOOLEAN  OBVIOUS
  <2>3. /\ req.unpinned \/ u => x
        /\ req.unknown \/ ~registered' => y
        /\ req.dark \/ ~enabled' => z
    OBVIOUS
  <2> HIDE DEF x, y, z, u
  <2>4. /\ r.pc = req.pc /\ r.s = req.s /\ r.target = req.target
        /\ r.entry = req.entry /\ r.key = req.key /\ r.now = req.now
        /\ r.arrived = req.arrived /\ r.off = req.off /\ r.clear = req.clear
        /\ r.leaks = req.leaks
        /\ r.unpinned = x /\ r.unknown = y /\ r.dark = z
    BY <1>1, <2>1 DEF ReqType
  <2>5. r \in ReqType  BY <1>1, <2>1, <2>2, ZenonT(60) DEF ReqType
  <2>6. /\ req.unpinned => r.unpinned
        /\ req.unknown => r.unknown
        /\ req.dark => r.dark
        /\ u => r.unpinned
        /\ ~registered' => r.unknown
        /\ ~enabled' => r.dark
    BY <2>3, <2>4
  <2>7. ReqInv(r)
    BY <2>5, <2>4, <2>6 DEF RequestInv, ReqInv, OnItsWay, HasReason
  <2>8. Seen(r, pin', registered', enabled')
    BY <2>4, <2>6 DEF RequestInv, Seen, u
  <2> QED  BY <2>7, <2>8
<1> QED  BY <1>2, <1>3

(***************************************************************************)
(* The masked way: arrival, the window, the body, the mask, the record.    *)
(***************************************************************************)
LEMMA BeginIs ==
  ASSUME RequestInv, NEW s \in Shapes, NEW r, r = Begin(s)
  PROVE  /\ r \in ReqType /\ r.pc = "idle" /\ r.s = s /\ r.arrived = clock
         /\ r.target = NoTarget /\ r.now = 0
         /\ ~r.off /\ ~r.clear /\ ~r.leaks
         /\ r.entry = Pinned(s)
         /\ Named(s) = NoConv \/ pin[Named(s)] = NoTarget => r.unpinned
         /\ ~registered => r.unknown
         /\ ~enabled => r.dark
<1> DEFINE x == IF Named(s) = NoConv THEN TRUE ELSE pin[Named(s)] = NoTarget
           y == ~registered
           z == ~enabled
<1>1. x \in BOOLEAN /\ y \in BOOLEAN /\ z \in BOOLEAN  OBVIOUS
<1>2. Named(s) = NoConv \/ pin[Named(s)] = NoTarget => x  OBVIOUS
<1>3. Pinned(s) \in PinTargets \cup {NoTarget}
  BY ShapeFacts DEF RequestInv, SwitchesTyped, Pinned
<1>4. clock \in Nat  BY DEF RequestInv, WindowInv, WindowTyped
<1>5. r = [Fresh EXCEPT !.s = s, !.arrived = clock, !.unknown = y, !.dark = z,
                        !.entry = Pinned(s), !.unpinned = x]
  BY DEF Begin, Pinned
<1>6. Fresh \in ReqType  
  BY DEF Fresh, ReqType, Pcs, Statuses
<1>7. /\ Fresh.pc = "idle" /\ Fresh.target = NoTarget /\ Fresh.now = 0
      /\ Fresh.off = FALSE /\ Fresh.clear = FALSE /\ Fresh.leaks = FALSE
  BY DEF Fresh
<1> HIDE DEF x, y, z
<1>8. r \in ReqType  BY <1>1, <1>3, <1>4, <1>5, <1>6, ZenonT(60) DEF ReqType
<1>9. /\ r.pc = "idle" /\ r.s = s /\ r.arrived = clock
      /\ r.target = NoTarget /\ r.now = 0 /\ r.entry = Pinned(s)
      /\ r.off = FALSE /\ r.clear = FALSE /\ r.leaks = FALSE
      /\ r.unpinned = x /\ r.unknown = y /\ r.dark = z
  BY <1>5, <1>6, <1>7 DEF ReqType
<1>10. ~registered => y  BY DEF y
<1>11. ~enabled => z  BY DEF z
<1> QED  BY <1>2, <1>8, <1>9, <1>10, <1>11, Zenon

LEMMA ArriveInv ==
  ASSUME RequestInv, Arrive, NEW r, req' = r
  PROVE  ReqInv(r) /\ Seen(r, pin, registered, enabled)
<1>1. PICK s \in Shapes :
        r = IF ~ready THEN Answer(Begin(s), "503")
            ELSE IF s.kind = "verbatim" THEN [Begin(s) EXCEPT !.pc = "scan"]
            ELSE Resolve(Begin(s), s)
  BY DEF Arrive
<1>2. PICK b : b = Begin(s)  OBVIOUS
<1>3. /\ b \in ReqType /\ b.pc = "idle" /\ b.s = s /\ b.arrived = clock
      /\ b.target = NoTarget /\ b.now = 0 /\ ~b.off /\ ~b.clear /\ ~b.leaks
      /\ b.entry = Pinned(s)
      /\ Named(s) = NoConv \/ pin[Named(s)] = NoTarget => b.unpinned
      /\ ~registered => b.unknown
      /\ ~enabled => b.dark
  BY <1>2, BeginIs
<1>4. clock \in Nat  BY DEF RequestInv, WindowInv, WindowTyped
<1>5. ReqInv(b)
  BY <1>3, <1>4 DEF ReqInv, OnItsWay, HasReason, MaskedPc, VerbatimPc
<1>6. CASE \E status \in Statuses : r = Answer(b, status)
  BY <1>5, <1>6, AnswerInv
<1>7. CASE s.kind = "verbatim" /\ r = [b EXCEPT !.pc = "scan"]
  <2>1. r \in ReqType  BY <1>3, <1>7 DEF ReqType, Pcs, VerbatimPc
  <2>2. /\ r.pc = "scan" /\ r.s = s /\ r.arrived = clock
        /\ ~r.off /\ ~r.clear /\ ~r.leaks
        /\ r.unpinned = b.unpinned /\ r.unknown = b.unknown /\ r.dark = b.dark
    BY <1>3, <1>7 DEF ReqType
  <2> QED
    BY <1>3, <1>4, <1>7, <2>1, <2>2
       DEF ReqInv, OnItsWay, HasReason, Seen, MaskedPc, VerbatimPc
<1>8. ASSUME s.kind # "verbatim", NEW t, t = Pinned(s), ~BareRefused(s),
             t \in Verified \cup {NoTarget},
             r = [b EXCEPT !.target = t,
                           !.pc = IF s.url = NoConv THEN "body" ELSE "clock"]
      PROVE  ReqInv(r) /\ Seen(r, pin, registered, enabled)
  <2>1. r \in ReqType  BY <1>3, <1>8, ZenonT(60) DEF ReqType, Pcs, MaskedPc
  <2>2. /\ r.pc = IF s.url = NoConv THEN "body" ELSE "clock"
        /\ r.s = s /\ r.arrived = clock /\ r.target = t /\ r.entry = t
        /\ ~r.off /\ ~r.clear /\ ~r.leaks
        /\ r.unpinned = b.unpinned /\ r.unknown = b.unknown /\ r.dark = b.dark
    BY <1>3, <1>8 DEF ReqType
  <2>3. t = NoTarget => b.unpinned
    BY <1>3, <1>8, ShapeFacts DEF Pinned, BareRefused
  <2> QED
    BY <1>3, <1>4, <1>8, <2>1, <2>2, <2>3, ShapeFacts
       DEF ReqInv, OnItsWay, HasReason, Seen, MaskedPc, VerbatimPc
<1>9. \/ \E status \in Statuses : r = Answer(b, status)
      \/ s.kind = "verbatim" /\ r = [b EXCEPT !.pc = "scan"]
      \/ /\ s.kind # "verbatim" /\ ~BareRefused(s)
         /\ Pinned(s) \in Verified \cup {NoTarget}
         /\ r = [b EXCEPT !.target = Pinned(s),
                          !.pc = IF s.url = NoConv THEN "body" ELSE "clock"]
  BY <1>1, <1>2 DEF Resolve, Statuses
<1> QED  BY <1>6, <1>7, <1>8, <1>9

LEMMA WindowWayInv ==
  ASSUME RequestInv, CheckClock \/ CheckWindow \/ ReadBody \/ Record,
         NEW r, req' = r
  PROVE  ReqInv(r) /\ Seen(r, pin, registered, enabled)
<1>0. /\ req \in ReqType /\ ReqInv(req) /\ Seen(req, pin, registered, enabled)
      /\ clock \in Nat /\ off \in [Conv -> Nat] /\ lastDeadline \in [Conv -> Nat]
      /\ \A c \in Conv : off[c] <= lastDeadline[c]
  BY DEF RequestInv, ReqInv, WindowInv, WindowTyped
<1>1. CASE CheckClock
  <2>1. req.pc = "clock" /\ r = [req EXCEPT !.now = clock, !.pc = "window"]
    BY <1>1 DEF CheckClock
  <2>2. r \in ReqType  BY <1>0, <2>1 DEF ReqType, Pcs, MaskedPc
  <2>3. /\ r.pc = "window" /\ r.now = clock /\ r.s = req.s
        /\ r.target = req.target /\ r.entry = req.entry
        /\ r.arrived = req.arrived /\ r.off = req.off /\ r.clear = req.clear
        /\ r.leaks = req.leaks /\ r.unpinned = req.unpinned
        /\ r.unknown = req.unknown /\ r.dark = req.dark
    BY <1>0, <2>1 DEF ReqType
  <2> QED
    BY <1>0, <2>1, <2>2, <2>3
       DEF ReqInv, OnItsWay, HasReason, Seen, MaskedPc, VerbatimPc
<1>2. CASE CheckWindow
  <2> DEFINE c == req.s.url
             o == off[c] # 0 /\ ~Expired(c, req.now)
  <2>1. /\ req.pc = "window"
        /\ r = [req EXCEPT !.off = o, !.now = 0, !.pc = "body"]
    BY <1>2 DEF CheckWindow
  <2>2. c \in Conv /\ req.arrived <= req.now /\ req.arrived \in Nat /\ req.now \in Nat
    BY <1>0, <2>1 DEF ReqInv, OnItsWay, ReqType
  <2>3. o \in BOOLEAN  OBVIOUS
  <2>4. o => req.arrived < lastDeadline[c]
    BY <1>0, <2>2 DEF Expired
  <2> HIDE DEF o
  <2>5. r \in ReqType  BY <1>0, <2>1, <2>3 DEF ReqType, Pcs, MaskedPc
  <2>6. /\ r.pc = "body" /\ r.s = req.s /\ r.off = o
        /\ r.target = req.target /\ r.entry = req.entry
        /\ r.arrived = req.arrived /\ r.clear = req.clear
        /\ r.leaks = req.leaks /\ r.unpinned = req.unpinned
        /\ r.unknown = req.unknown /\ r.dark = req.dark
    BY <1>0, <2>1 DEF ReqType
  <2>7. ~req.clear  BY <1>0, <2>1 DEF ReqInv, OnItsWay
  <2> QED
    BY <1>0, <2>1, <2>2, <2>4, <2>5, <2>6, <2>7
       DEF ReqInv, OnItsWay, HasReason, Seen, MaskedPc, VerbatimPc
<1>3. CASE ReadBody
  <2>1. CASE r = [req EXCEPT !.pc = "mask"]
    <3>1. r \in ReqType  BY <1>0, <2>1 DEF ReqType, Pcs, MaskedPc
    <3>2. /\ r.pc = "mask" /\ r.s = req.s
          /\ r.target = req.target /\ r.entry = req.entry
          /\ r.arrived = req.arrived /\ r.off = req.off /\ r.clear = req.clear
          /\ r.leaks = req.leaks /\ r.unpinned = req.unpinned
          /\ r.unknown = req.unknown /\ r.dark = req.dark
      BY <1>0, <2>1 DEF ReqType
    <3> QED
      BY <1>0, <1>3, <3>1, <3>2
         DEF ReadBody, ReqInv, OnItsWay, HasReason, Seen, MaskedPc, VerbatimPc
  <2>2. CASE r = Answer(req, "400")
    BY <1>0, <2>2, AnswerInv DEF Statuses
  <2> QED  BY <1>3, <2>1, <2>2 DEF ReadBody
<1>4. CASE Record
  <2> DEFINE v == enabled /\ ~req.off
  <2>1. PICK b : b = [req EXCEPT !.live = v, !.pc = "send"]  OBVIOUS
  <2>2. v \in BOOLEAN  OBVIOUS
  <2> HIDE DEF v
  <2>3. b \in ReqType  BY <1>0, <2>1, <2>2 DEF ReqType, Pcs, MaskedPc
  <2>4. /\ b.pc = "send" /\ b.s = req.s
        /\ b.target = req.target /\ b.entry = req.entry
        /\ b.arrived = req.arrived /\ b.off = req.off /\ b.clear = req.clear
        /\ b.leaks = req.leaks /\ b.unpinned = req.unpinned
        /\ b.unknown = req.unknown /\ b.dark = req.dark
    BY <1>0, <2>1 DEF ReqType
  <2>5. req.pc = "record" /\ (r = b \/ r = Answer(b, "403"))
    BY <1>4, <2>1 DEF Record, v
  <2>6. ReqInv(b) /\ Seen(b, pin, registered, enabled)
    BY <1>0, <2>3, <2>4, <2>5
       DEF ReqInv, OnItsWay, HasReason, Seen, MaskedPc, VerbatimPc
  <2> QED  BY <2>5, <2>6, AnswerInv DEF Statuses
<1> QED  BY <1>1, <1>2, <1>3, <1>4

LEMMA MaskInv ==
  ASSUME RequestInv, Mask, NEW r, req' = r
  PROVE  ReqInv(r) /\ Seen(r, pin, registered, enabled)
<1>0. /\ req.pc = "mask" /\ req \in ReqType /\ ReqInv(req)
      /\ Seen(req, pin, registered, enabled) /\ req.s \in Shapes
  BY DEF Mask, RequestInv, ReqInv, Seen, MaskedPc
<1>1. CASE \E status \in Statuses : r = Answer(req, status)
  BY <1>0, <1>1, AnswerInv
<1>2. CASE r = [req EXCEPT !.pc = AfterMask(req.s),
                           !.clear = req.s.pii /\ (req.off \/ ~enabled),
                           !.leaks = req.s.secret \in {"leaf", "carve_out"}
                                       /\ ~registered]
  <2> DEFINE x == req.s.pii /\ (req.off \/ ~enabled)
             y == req.s.secret \in {"leaf", "carve_out"} /\ ~registered
  <2>1. r = [req EXCEPT !.pc = AfterMask(req.s), !.clear = x, !.leaks = y]
    BY <1>2
  <2>2. x \in BOOLEAN /\ y \in BOOLEAN  OBVIOUS
  <2>3. (x => req.off \/ ~enabled) /\ (y => ~registered)  OBVIOUS
  <2> HIDE DEF x, y
  <2>4. AfterMask(req.s) \in {"send", "record"}  BY DEF AfterMask
  <2>5. r \in ReqType  BY <1>0, <2>1, <2>2, <2>4, ZenonT(60) DEF ReqType, Pcs, MaskedPc
  <2>6. /\ r.pc \in {"send", "record"} /\ r.s = req.s /\ r.clear = x /\ r.leaks = y
        /\ r.target = req.target /\ r.entry = req.entry
        /\ r.arrived = req.arrived /\ r.off = req.off
        /\ r.unpinned = req.unpinned
        /\ r.unknown = req.unknown /\ r.dark = req.dark
    BY <1>0, <2>1, <2>4 DEF ReqType
  <2>7. (x => req.off \/ req.dark) /\ (y => req.unknown)
    BY <1>0, <2>3 DEF Seen, MaskedPc
  <2> QED
    BY <1>0, <2>5, <2>6, <2>7
       DEF ReqInv, OnItsWay, HasReason, Seen, MaskedPc, VerbatimPc
<1> QED  BY <1>1, <1>2 DEF Mask, Statuses

\* A request goes out with the target it brings, or to the default endpoint
\* from the verbatim relay; a header secret has been looked for.
LEMMA EgressInv ==
  ASSUME RequestInv, Send \/ Relay, NEW r, req' = r
  PROVE  ReqInv(r) /\ Seen(r, pin, registered, enabled)
<1>0. /\ req \in ReqType /\ ReqInv(req)
      /\ Seen(req, pin, registered, enabled) /\ req.s \in Shapes
      /\ req.pc \in {"send", "relay"}
  BY DEF Send, Relay, RequestInv, ReqInv, Seen, MaskedPc, VerbatimPc
<1>1. PICK target \in Verified \cup {NoTarget} :
        /\ Egress(target)
        /\ IF req.pc = "send" THEN target = req.target ELSE target = NoTarget
  BY <1>0 DEF Send, Relay, ReqType
<1>2. CASE \E status \in Statuses : r = Answer(req, status)
  BY <1>0, <1>2, AnswerInv
<1>3. CASE ~HeaderHit /\ r = [req EXCEPT !.pc = "sent", !.target = target,
                                !.key = KeyFor(target),
                                !.leaks = @ \/ req.s.secret = "header"]
  <2> DEFINE y == req.leaks \/ req.s.secret = "header"
  <2>1. r = [req EXCEPT !.pc = "sent", !.target = target,
                        !.key = KeyFor(target), !.leaks = y]
    BY <1>0, <1>3 DEF ReqType
  <2>2. y \in BOOLEAN  OBVIOUS
  <2>3. y => req.leaks \/ ~registered  BY <1>3 DEF HeaderHit
  <2>4. KeyFor(target) = IF target = NoTarget THEN "client" ELSE "target"
    BY DEF KeyFor
  <2> HIDE DEF y
  <2>5. r \in ReqType  BY <1>0, <2>1, <2>2, <2>4 DEF ReqType, Pcs
  <2>6. /\ r.pc = "sent" /\ r.s = req.s /\ r.leaks = y /\ r.target = target
        /\ r.key = IF target = NoTarget THEN "client" ELSE "target"
        /\ r.entry = req.entry /\ r.clear = req.clear
        /\ r.arrived = req.arrived /\ r.off = req.off
        /\ r.unpinned = req.unpinned
        /\ r.unknown = req.unknown /\ r.dark = req.dark
    BY <1>0, <2>1, <2>4 DEF ReqType
  <2>7. y => req.unknown
    BY <1>0, <2>3 DEF ReqInv, HasReason, Seen, MaskedPc, VerbatimPc
  <2>8. /\ req.s.kind # "verbatim" => target = req.entry
        /\ target = NoTarget => req.unpinned
    BY <1>0, <1>1 DEF ReqInv, OnItsWay, MaskedPc, VerbatimPc
  <2> QED
    BY <1>0, <2>5, <2>6, <2>7, <2>8
       DEF ReqInv, OnItsWay, HasReason, Seen, MaskedPc, VerbatimPc
<1> QED  BY <1>1, <1>2, <1>3 DEF Egress, Statuses

(***************************************************************************)
(* The verbatim way.                                                       *)
(***************************************************************************)
LEMMA VerbatimInv ==
  ASSUME RequestInv, Scan \/ Route, NEW r, req' = r
  PROVE  ReqInv(r) /\ Seen(r, pin, registered, enabled)
<1>0. /\ req \in ReqType /\ ReqInv(req)
      /\ Seen(req, pin, registered, enabled) /\ req.s \in Shapes
      /\ req.pc \in {"scan", "route"} /\ req.s.kind = "verbatim"
  BY DEF Scan, Route, RequestInv, ReqInv, OnItsWay, Seen, MaskedPc, VerbatimPc
<1>1. CASE \E status \in Statuses : r = Answer(req, status)
  BY <1>0, <1>1, AnswerInv
<1> DEFINE in == req.s.secret \in {"leaf", "carve_out", "path"}
<1>2. CASE /\ ~(registered /\ in)
           /\ r = [req EXCEPT !.pc = "route", !.clear = req.s.pii, !.leaks = in]
  <2>1. in \in BOOLEAN /\ req.s.pii \in BOOLEAN  BY <1>0
  <2>2. in => req.unknown  BY <1>0, <1>2 DEF Seen, VerbatimPc
  <2> HIDE DEF in
  <2>3. r \in ReqType  BY <1>0, <1>2, <2>1 DEF ReqType, Pcs, VerbatimPc
  <2>4. /\ r.pc = "route" /\ r.s = req.s /\ r.leaks = in
        /\ r.arrived = req.arrived /\ r.off = req.off
        /\ r.unpinned = req.unpinned
        /\ r.unknown = req.unknown /\ r.dark = req.dark
    BY <1>0, <1>2 DEF ReqType
  <2> QED
    BY <1>0, <2>2, <2>3, <2>4
       DEF ReqInv, OnItsWay, HasReason, Seen, MaskedPc, VerbatimPc
<1>3. CASE req.pc = "route" /\ ~VerbatimRefused(req.s) /\ r = [req EXCEPT !.pc = "relay"]
  <2>1. req.unpinned
    <3>1. \/ req.s.url # NoConv /\ pin[req.s.url] = NoTarget
          \/ req.s.url = NoConv /\ req.s.header = NoConv
          \/ req.s.url = NoConv /\ pin[req.s.header] = NoTarget
      BY <1>3 DEF VerbatimRefused, BareRefused
    <3>2. Named(req.s) = NoConv \/ pin[Named(req.s)] = NoTarget
      BY <3>1 DEF Named
    <3> QED  BY <1>0, <3>2 DEF Seen, VerbatimPc
  <2>2. r \in ReqType  BY <1>0, <1>3 DEF ReqType, Pcs, VerbatimPc
  <2>3. /\ r.pc = "relay" /\ r.s = req.s /\ r.leaks = req.leaks
        /\ r.arrived = req.arrived /\ r.off = req.off
        /\ r.unpinned = req.unpinned
        /\ r.unknown = req.unknown /\ r.dark = req.dark
    BY <1>0, <1>3 DEF ReqType
  <2> QED
    BY <1>0, <2>1, <2>2, <2>3
       DEF ReqInv, OnItsWay, HasReason, Seen, MaskedPc, VerbatimPc
<1>4. CASE Scan
  BY <1>1, <1>2, <1>4 DEF Scan, Statuses
<1>5. CASE Route
  BY <1>1, <1>3, <1>5 DEF Route, Statuses
<1> QED  BY <1>4, <1>5

LEMMA SwitchesStep ==
  SwitchesTyped /\ [RequestNext]_reqVars => SwitchesTyped'
<1> SUFFICES ASSUME SwitchesTyped, [RequestNext]_reqVars PROVE SwitchesTyped'
  OBVIOUS
<1> USE DEF SwitchesTyped
<1>1. CASE SecretsResolve  BY <1>1 DEF SecretsResolve
<1>2. CASE SetEnabled  BY <1>2 DEF SetEnabled
<1>3. ASSUME NEW c \in Conv, SetPin(c) PROVE SwitchesTyped'
  BY <1>3 DEF SetPin
<1>4. CASE Mask \/ Send \/ Scan \/ Relay \/ Finish
  BY <1>4 DEF Mask, Send, Scan, Relay, Finish, Egress, switches
<1>5. CASE UNCHANGED <<switches, ledger>>  BY <1>5 DEF switches
<1>6. CASE \/ MaskingDisable \/ MaskingEnable \/ MaskingStatus \/ Sweep \/ Tick
           \/ Arrive \/ CheckClock \/ CheckWindow \/ ReadBody \/ Record \/ Route
           \/ UNCHANGED reqVars
  BY <1>5, <1>6 DEF MaskingDisable, ArmInsert, ArmClock, MaskingEnable, ClearOff,
     MaskingStatus, AskWindow, AskClock, Sweep, Tick, Arrive, CheckClock,
     CheckWindow, ReadBody, Record, Route, reqVars
<1> QED  BY <1>1, <1>2, <1>3, <1>4, <1>6 DEF RequestNext

(***************************************************************************)
(* The invariant is inductive: one step per handler of the request, and    *)
(* the steps that leave the request alone.                                 *)
(***************************************************************************)
LEMMA RequestInvStep == RequestInv /\ [RequestNext]_reqVars => RequestInv'
<1> SUFFICES ASSUME RequestInv, [RequestNext]_reqVars PROVE RequestInv'
  OBVIOUS
<1>1. SwitchesTyped' /\ WindowInv'
  BY SwitchesStep, WindowStep DEF RequestInv
<1>2. PICK r : r = req'  OBVIOUS
<1>3. SUFFICES ReqInv(r) /\ Seen(r, pin', registered', enabled')
  BY <1>1, <1>2, ReqMono DEF RequestInv
<1>4. CASE UNCHANGED <<req, switches>>
  BY <1>2, <1>4 DEF RequestInv, switches
<1>5. CASE SecretsResolve \/ SetEnabled \/ \E c \in Conv : SetPin(c)
  BY <1>2, <1>5, WatchInv DEF SecretsResolve, SetEnabled, SetPin
<1>6. CASE \/ Arrive \/ CheckClock \/ CheckWindow \/ ReadBody \/ Mask \/ Record
           \/ Send \/ Scan \/ Route \/ Relay \/ Finish
  <2>1. UNCHANGED <<pin, registered, enabled>>
    BY <1>6 DEF Arrive, CheckClock, CheckWindow, ReadBody, Mask, Record, Send,
       Scan, Route, Relay, Finish, switches
  <2>2. CASE Finish
    BY <1>2, <2>2, FreshInv DEF Finish, RequestInv, WindowInv
  <2> QED
    BY <1>2, <1>6, <2>1, <2>2, ArriveInv, WindowWayInv, MaskInv, EgressInv, VerbatimInv
<1>7. CASE \/ MaskingDisable \/ MaskingEnable \/ MaskingStatus \/ Sweep \/ Tick
           \/ UNCHANGED reqVars
  BY <1>4, <1>7 DEF MaskingDisable, ArmInsert, ArmClock, MaskingEnable, ClearOff,
     MaskingStatus, AskWindow, AskClock, Sweep, Tick, reqVars
<1> QED  BY <1>5, <1>6, <1>7 DEF RequestNext

LEMMA RequestInvInit == RequestInit => RequestInv
<1> SUFFICES ASSUME RequestInit PROVE RequestInv
  OBVIOUS
<1>1. SwitchesTyped /\ WindowInv
  <2>1. SwitchesTyped
    <3>1. ready \in BOOLEAN /\ registered \in BOOLEAN /\ enabled \in BOOLEAN
      BY DEF RequestInit
    <3>2. pin \in [Conv -> PinTargets \cup {NoTarget}] /\ ledger \in 0..1
      BY DEF RequestInit
    <3> QED  BY <3>1, <3>2 DEF SwitchesTyped
  <2>2. /\ clock = 1 /\ ~arming.on
        /\ off = [c \in Conv |-> 0] /\ balance = [c \in Conv |-> 0]
        /\ lastDeadline = [c \in Conv |-> 0]
    BY DEF RequestInit
  <2>3. WindowTyped  BY <2>2 DEF WindowTyped
  <2>4. ArmingIsRecent  BY <2>2 DEF ArmingIsRecent
  <2>5. WindowBounded /\ WindowEndsOnce
    BY <2>2 DEF WindowBounded, WindowEndsOnce
  <2> QED  BY <2>1, <2>3, <2>4, <2>5 DEF WindowInv
<1> QED  BY <1>1, FreshInv DEF RequestInit, RequestInv, WindowInv

(***************************************************************************)
(* For every request shape, on every route, and whatever the control plane *)
(* changes between two steps: the pin of arrival is honoured, a pinned     *)
(* conversation never reaches the default endpoint and a target gets its   *)
(* own key (resolve_pinned_mode, bare_path_zdr_guard, relay_verbatim).     *)
(***************************************************************************)
THEOREM RequestPinHonoured == RequestSpec => []PinHonoured
<1>1. RequestInv => PinHonoured
  BY DEF RequestInv, ReqInv, OnItsWay, PinHonoured
<1> QED
  BY <1>1, RequestInvInit, RequestInvStep, PTL DEF RequestSpec

(***************************************************************************)
(* No secret that was registered all the while a request was in the proxy  *)
(* leaves with it (mask_body, relay_verbatim, send_upstream).              *)
(***************************************************************************)
THEOREM RequestSecretStays == RequestSpec => []SecretNeverLeaves
<1>1. RequestInv => SecretNeverLeaves
  BY DEF RequestInv, ReqInv, HasReason, SecretNeverLeaves
<1> QED
  BY <1>1, RequestInvInit, RequestInvStep, PTL DEF RequestSpec

(***************************************************************************)
(* Masking is off only inside a window; a window is bounded however it was *)
(* armed, and ends once whoever meets its deadline (set_masking_disabled,  *)
(* is_masking_disabled, the sweep).                                        *)
(***************************************************************************)
THEOREM RequestWindowSound == RequestSpec => []WindowSound
<1>1. ASSUME RequestInv PROVE WindowSound
  <2>1. RequestTypeOK
    BY <1>1 DEF RequestInv, SwitchesTyped, WindowInv, WindowTyped, ReqInv, ReqType,
                RequestTypeOK, Pcs, MaskedPc, VerbatimPc
  <2>2. ClearOnlyInWindow
    <3> SUFFICES ASSUME req.pc = "sent", req.clear, req.s.kind # "verbatim"
                 PROVE  \/ req.dark
                        \/ /\ req.s.url # NoConv
                           /\ req.arrived < lastDeadline[req.s.url]
      BY DEF ClearOnlyInWindow
    <3>1. req.dark \/ req.off  BY <1>1 DEF RequestInv, ReqInv, HasReason
    <3>2. req.off => req.s.url \in Conv /\ req.arrived < lastDeadline[req.s.url]
      BY <1>1 DEF RequestInv, ReqInv, HasReason
    <3> QED  BY <3>1, <3>2
  <2> QED  BY <1>1, <2>1, <2>2 DEF WindowSound, RequestInv, WindowInv
<1> QED
  BY <1>1, RequestInvInit, RequestInvStep, PTL DEF RequestSpec
=============================================================================
