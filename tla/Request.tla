------------------------------- MODULE Request -------------------------------
(***************************************************************************)
(* One request's way through the proxy (crates/sordino-proxy/src/routes.rs)*)
(* while the control plane changes what it depends on: the readiness of    *)
(* the secrets, the registered secrets, the master switch, the             *)
(* conversation's trust target (state.rs zdr_sessions) and its bounded     *)
(* masking-off window (state.rs masking_disabled).                         *)
(*                                                                         *)
(* Each shared structure is read under its own lock, so every read is a    *)
(* step.  A request is a shape: its endpoint, the conversation its URL and *)
(* its header name, what its body and headers carry.  The approval gate is *)
(* module Approvals; here its verdict is arbitrary.                        *)
(***************************************************************************)
EXTENDS Integers

CONSTANTS
    Conv,         \* conversation ids
    NoConv,
    PinTargets,   \* target names a selection can hold
    Known,        \* targets of the running configuration
    Verified,     \* those the user verified
    NoTarget,     \* no selection: the default endpoint
    Shapes,       \* the requests a client may send
    DefaultTtl, MaxTtl, Ttls,   \* DEFAULT_, MAX_MASKING_OFF_TTL; ttls asked for
    MaxClock,     \* bound: ticks of the monotonic clock
    MaxFlips      \* bound: changes of pins and of the master switch

ASSUME RequestAssumption ==
    /\ NoConv \notin Conv /\ NoTarget \notin PinTargets
    /\ Known \subseteq PinTargets /\ Verified \subseteq Known
    /\ DefaultTtl \in Nat /\ MaxTtl \in Nat /\ DefaultTtl <= MaxTtl
    /\ Ttls \subseteq Nat /\ MaxClock \in Nat \ {0} /\ MaxFlips \in Nat
    /\ \A s \in Shapes :
         /\ s.kind \in {"messages", "count_tokens", "chat", "responses", "verbatim"}
         /\ s.url \in Conv \cup {NoConv} /\ s.header \in Conv \cup {NoConv}
         /\ s.secret \in {"none", "leaf", "carve_out", "header", "path",
                          "credential"}
         /\ s.path \in {"plain", "batches", "traversal", "bad_escape"}
         /\ s.pii \in BOOLEAN

NoShape == [kind |-> "none", url |-> NoConv, header |-> NoConv, pii |-> FALSE,
            secret |-> "none", path |-> "plain"]

VARIABLES
    ready,        \* secrets_ready
    registered,   \* the engine holds the secret's rule
    enabled,      \* the engine's master switch
    pin,          \* zdr_sessions: conversation -> target
    off,          \* masking_disabled.entries: conversation -> deadline, or 0
    clock,
    arming,       \* set_masking_disabled between its clock read and its insert
    asking,       \* is_masking_disabled of a status query, between the two
    req,          \* the request in flight
    ledger,       \* refusals written to the policy-event ledger
    balance,      \* history: windows opened less windows ended
    lastDeadline, \* history: the latest end any window was given
    flips         \* history: changes counted against MaxFlips

switches == <<ready, registered, enabled, pin, flips>>
window == <<off, arming, asking, balance, lastDeadline>>
reqVars == <<switches, window, clock, req, ledger>>

\* The conversation a pin is looked up for: the URL's, else the header's.
Named(s) == IF s.url # NoConv THEN s.url ELSE s.header

Fresh == [pc |-> "idle", s |-> NoShape, target |-> NoTarget, now |-> 0,
          off |-> FALSE, clear |-> FALSE, leaks |-> FALSE, live |-> FALSE,
          key |-> "none",
          status |-> "none", arrived |-> 0, entry |-> NoTarget, unpinned |-> FALSE,
          unknown |-> FALSE, dark |-> FALSE]

Statuses == {"none", "200", "400", "403", "409", "500", "501", "502", "503"}

RequestTypeOK ==
    /\ {ready, registered, enabled} \subseteq BOOLEAN
    /\ pin \in [Conv -> PinTargets \cup {NoTarget}]
    /\ off \in [Conv -> Nat]
    /\ clock \in 1..MaxClock
    /\ ledger \in 0..1
    /\ req.pc \in {"idle", "clock", "window", "body", "mask", "record", "send",
                   "scan", "route", "relay", "sent", "done"}
    /\ req.status \in Statuses
    /\ req.target \in Verified \cup {NoTarget}
    /\ \A b \in {req.off, req.clear, req.leaks, req.live} : b \in BOOLEAN

RequestInit ==
    /\ ready = FALSE /\ registered = FALSE /\ enabled = TRUE
    /\ pin \in [Conv -> PinTargets \cup {NoTarget}]
    /\ off = [c \in Conv |-> 0]
    /\ clock = 1
    /\ arming = [on |-> FALSE, conv |-> NoConv, now |-> 0, ttl |-> 0]
    /\ asking = [on |-> FALSE, conv |-> NoConv, now |-> 0]
    /\ req = Fresh
    /\ ledger = 0
    /\ balance = [c \in Conv |-> 0]
    /\ lastDeadline = [c \in Conv |-> 0]
    /\ flips = 0

\* History kept on the request in flight: did the pin, the rule, the switch
\* ever let it through while it was in the proxy?
Watch(r) ==
    IF r.pc \in {"idle", "sent", "done"} THEN r
    ELSE [r EXCEPT
            !.unpinned = @ \/ (IF Named(r.s) = NoConv THEN TRUE
                               ELSE pin'[Named(r.s)] = NoTarget),
            !.unknown  = @ \/ ~registered',
            !.dark     = @ \/ ~enabled']

----------------------------------------------------------------------------
(* The masking-off window.                                                 *)

\* set_masking_disabled: the ttl is defaulted and clamped, the clock is read
\* before the insert takes the lock.
Clamp(ttl) == IF ttl > MaxTtl THEN MaxTtl ELSE ttl

ArmClock(c) ==
    /\ ~arming.on
    /\ \E t \in {DefaultTtl} \cup Ttls :
         arming' = [on |-> TRUE, conv |-> c, now |-> clock, ttl |-> Clamp(t)]
    /\ UNCHANGED <<switches, off, asking, balance, lastDeadline, clock, req, ledger>>

ArmInsert ==
    /\ arming.on
    /\ LET c == arming.conv
           d == arming.now + arming.ttl
       IN /\ off' = [off EXCEPT ![c] = d]
          /\ balance' = [balance EXCEPT ![c] = IF off[c] = 0 THEN @ + 1 ELSE @]
          /\ lastDeadline' = [lastDeadline EXCEPT ![c] = IF d > @ THEN d ELSE @]
    /\ arming' = [on |-> FALSE, conv |-> NoConv, now |-> 0, ttl |-> 0]
    /\ UNCHANGED <<switches, asking, clock, req, ledger>>

\* clear_masking_disabled.
ClearOff(c) ==
    /\ off[c] # 0
    /\ off' = [off EXCEPT ![c] = 0]
    /\ balance' = [balance EXCEPT ![c] = @ - 1]
    /\ UNCHANGED <<switches, arming, asking, lastDeadline,
                   clock, req, ledger>>

\* The two halves of is_masking_disabled under the lock: expiry, and the
\* answer.  `now` was read before.
Expired(c, now) == off[c] # 0 /\ now >= off[c]

\* Deviation: an expired window is reported and not removed.
EvictKeeps(gone) ==
    /\ off' = off
    /\ balance' = [c \in Conv |-> IF c \in gone THEN balance[c] - 1
                                  ELSE balance[c]]

Evict(gone) ==
    /\ off' = [c \in Conv |-> IF c \in gone THEN 0 ELSE off[c]]
    /\ balance' = [c \in Conv |-> IF c \in gone THEN balance[c] - 1
                                  ELSE balance[c]]

\* sweep_expired_masking_disabled reads the clock under the lock.
Sweep ==
    /\ \E c \in Conv : Expired(c, clock)
    /\ Evict({c \in Conv : Expired(c, clock)})
    /\ UNCHANGED <<switches, arming, asking, lastDeadline,
                   clock, req, ledger>>

AskClock(c) ==
    /\ ~asking.on
    /\ asking' = [on |-> TRUE, conv |-> c, now |-> clock]
    /\ UNCHANGED <<switches, off, arming, balance, lastDeadline, clock, req, ledger>>

AskWindow ==
    /\ asking.on
    /\ Evict({c \in {asking.conv} : Expired(c, asking.now)})
    /\ asking' = [on |-> FALSE, conv |-> NoConv, now |-> 0]
    /\ UNCHANGED <<switches, arming, lastDeadline, clock, req, ledger>>

Tick ==
    /\ clock < MaxClock
    /\ clock' = clock + 1
    /\ UNCHANGED <<switches, window, req, ledger>>

----------------------------------------------------------------------------
(* The rest of the control plane.                                          *)

\* resolve_and_install has the required secrets, and opens intake; an
\* optional secret is installed later (main.rs).
SecretsResolve ==
    /\ \/ ~ready /\ ready' = TRUE /\ registered' \in {registered, TRUE}
       \/ ready /\ ~registered /\ registered' = TRUE /\ UNCHANGED ready
    /\ UNCHANGED <<enabled, pin, flips, window, clock, ledger>>
    /\ req' = Watch(req)

SetEnabled ==
    /\ flips < MaxFlips
    /\ enabled' = ~enabled /\ flips' = flips + 1
    /\ UNCHANGED <<ready, registered, pin, window, clock, ledger>>
    /\ req' = Watch(req)

\* zdr_set and zdr_clear commit in zdr_sessions (module ZdrSessions).
SetPin(c) ==
    /\ flips < MaxFlips
    /\ \E t \in Verified \cup {NoTarget} :
         /\ t # pin[c]
         /\ pin' = [pin EXCEPT ![c] = t]
    /\ flips' = flips + 1
    /\ UNCHANGED <<ready, registered, enabled, window, clock, ledger>>
    /\ req' = Watch(req)

----------------------------------------------------------------------------
(* The intake handlers: messages_inner and count_tokens_inner.             *)

Answer(r, status) == [r EXCEPT !.pc = "done", !.status = status]

Begin(s) ==
    [Fresh EXCEPT !.s = s, !.arrived = clock, !.unknown = ~registered,
                  !.dark = ~enabled,
                  !.entry = IF s.url = NoConv THEN NoTarget ELSE pin[s.url],
                  !.unpinned = IF Named(s) = NoConv THEN TRUE
                               ELSE pin[Named(s)] = NoTarget]

\* resolve_pinned_mode on the URL's conversation; the bare path has no
\* selection to honour and is refused when its header names a pinned one.
Pinned(s) == IF s.url = NoConv THEN NoTarget ELSE pin[s.url]

BareRefused(s) == s.url = NoConv /\ s.header # NoConv /\ pin[s.header] # NoTarget

\* chat_completions_inner and responses_inner take the same way as messages_inner, but know no
\* route to a trust target.
ChatCompletions(s) == s.kind = "chat"
Responses(s) == s.kind = "responses"
Unsupported(s, t) == t # NoTarget /\ (ChatCompletions(s) \/ Responses(s))

Resolve(r, s) ==
    LET t == Pinned(s) IN
    IF BareRefused(s) THEN Answer(r, "409")
    ELSE IF t \in Verified /\ Unsupported(s, t) THEN Answer(r, "501")
    ELSE IF t = NoTarget \/ t \in Verified
         THEN [r EXCEPT !.target = t,
                        !.pc = IF s.url = NoConv THEN "body" ELSE "clock"]
    ELSE Answer(r, IF t \in Known THEN "403" ELSE "409")

Arrive ==
    /\ req.pc = "idle"
    /\ \E s \in Shapes :
         LET r == Begin(s) IN
         req' = IF ~ready THEN Answer(r, "503")
                ELSE IF s.kind = "verbatim" THEN [r EXCEPT !.pc = "scan"]
                ELSE Resolve(r, s)
    /\ UNCHANGED <<switches, window, clock, ledger>>

CheckClock ==
    /\ req.pc = "clock"
    /\ req' = [req EXCEPT !.now = clock, !.pc = "window"]
    /\ UNCHANGED <<switches, window, clock, ledger>>

CheckWindow ==
    /\ req.pc = "window"
    /\ LET c == req.s.url IN
         /\ req' = [req EXCEPT !.off = off[c] # 0 /\ ~Expired(c, req.now), !.now = 0,
                               !.pc = "body"]
         /\ Evict({d \in {c} : Expired(d, req.now)})
    /\ UNCHANGED <<switches, arming, asking, lastDeadline,
                   clock, ledger>>

ReadBody ==
    /\ req.pc = "body"
    /\ req' \in {[req EXCEPT !.pc = "mask"], Answer(req, "400")}
    /\ UNCHANGED <<switches, window, clock, ledger>>

\* What follows mask_body: a record, but count_tokens_inner sends at once.
AfterMask(s) == IF s.kind = "count_tokens" THEN "send" ELSE "record"

\* scan_value over the subtrees the walk leaves alone.
CarveOutHit(s) == s.secret = "carve_out" /\ registered

\* Deviation: a window lets registered secrets through as well.
MaskForgetsSecrets ==
    /\ req.pc = "mask"
    /\ req' = [req EXCEPT
                 !.pc = AfterMask(req.s),
                 !.clear = req.s.pii /\ (req.off \/ ~enabled),
                 !.leaks = req.s.secret \in {"leaf", "carve_out"}
                               /\ (~registered \/ req.off)]
    /\ UNCHANGED <<switches, window, clock, ledger>>

(* mask_body: the walk masks the personal data unless masking is off, and  *)
(* a registered secret always; a secret in a subtree the walk never        *)
(* rewrites refuses the request.  An engine or join error refuses it too.  *)
Mask ==
    /\ req.pc = "mask"
    /\ \/ /\ CarveOutHit(req.s)
          /\ req' = Answer(req, "409") /\ ledger' = 1
       \/ /\ req' \in {Answer(req, "400"), Answer(req, "500")}
          /\ UNCHANGED ledger
       \/ /\ ~CarveOutHit(req.s)
          /\ req' = [req EXCEPT
                       !.pc = AfterMask(req.s),
                       !.clear = req.s.pii /\ (req.off \/ ~enabled),
                       !.leaks = req.s.secret \in {"leaf", "carve_out"}
                                     /\ ~registered]
          /\ UNCHANGED ledger
    /\ UNCHANGED <<switches, window, clock>>

\* record_llm_request with the switch as it is now, then maybe_approve.
Record ==
    /\ req.pc = "record"
    /\ LET r == [req EXCEPT !.live = enabled /\ ~req.off, !.pc = "send"] IN
         req' \in {r, Answer(r, "403")}
    /\ UNCHANGED <<switches, window, clock, ledger>>

\* send_upstream and relay_built: every built header but the credentials is
\* scanned.  A ZDR target gets its own key, never the client's.
HeaderHit == req.s.secret = "header" /\ registered

\* upstream_request_headers, upstream_request_headers_zdr.
KeyFor(target) == IF target = NoTarget THEN "client" ELSE "target"

Egress(target) ==
    \/ /\ HeaderHit
       /\ req' = Answer(req, "409") /\ ledger' = 1
    \/ /\ ~HeaderHit
       /\ req' \in {[req EXCEPT !.pc = "sent", !.target = target,
                                !.key = KeyFor(target),
                                !.leaks = @ \/ req.s.secret = "header"],
                    Answer(req, "502")}
       /\ UNCHANGED ledger

\* Deviation: the target is read again when the request is sent.
SendReadsAgain ==
    /\ req.pc = "send"
    /\ Egress(Pinned(req.s))
    /\ UNCHANGED <<switches, window, clock>>

Send ==
    /\ req.pc = "send"
    /\ Egress(req.target)
    /\ UNCHANGED <<switches, window, clock>>

----------------------------------------------------------------------------
(* The verbatim relay: nothing is masked, so a registered secret anywhere  *)
(* in the body, the path or the query refuses, and so does a pin.          *)

Scan ==
    /\ req.pc = "scan"
    /\ \/ req' = Answer(req, "400") /\ UNCHANGED ledger
       \/ /\ registered /\ req.s.secret \in {"leaf", "carve_out", "path"}
          /\ req' = Answer(req, "409") /\ ledger' = 1
       \/ /\ ~(registered /\ req.s.secret \in {"leaf", "carve_out", "path"})
          /\ req' = [req EXCEPT !.pc = "route", !.clear = req.s.pii,
                                !.leaks = req.s.secret \in {"leaf", "carve_out",
                                                            "path"}]
          /\ UNCHANGED ledger
    /\ UNCHANGED <<switches, window, clock>>

\* parse_session_prefix fails on a bad escape; the rest must not climb.
PathRefused(s) == s.url # NoConv /\ s.path \in {"traversal", "bad_escape"}

\* A pinned conversation has no verbatim route, and batches are never masked.
VerbatimRefused(s) ==
    \/ s.url # NoConv /\ (pin[s.url] # NoTarget \/ s.path = "batches")
    \/ BareRefused(s)

Route ==
    /\ req.pc = "route"
    /\ req' = IF PathRefused(req.s) THEN Answer(req, "400")
              ELSE IF VerbatimRefused(req.s) THEN Answer(req, "409")
              ELSE [req EXCEPT !.pc = "relay"]
    /\ UNCHANGED <<switches, window, clock, ledger>>

Relay ==
    /\ req.pc = "relay"
    /\ Egress(NoTarget)
    /\ UNCHANGED <<switches, window, clock>>

\* The reply is relayed (module Stream); the next request comes.
Finish ==
    /\ req.pc \in {"sent", "done"}
    /\ req' = Fresh /\ ledger' = 0
    /\ UNCHANGED <<switches, window, clock>>

\* The admin routes over the window: masking_disable, masking_enable,
\* masking_status.
MaskingDisable == ArmInsert \/ \E c \in Conv : ArmClock(c)

MaskingEnable == \E c \in Conv : ClearOff(c)

MaskingStatus == AskWindow \/ \E c \in Conv : AskClock(c)

RequestNext ==
    \/ MaskingDisable \/ MaskingEnable \/ MaskingStatus \/ Sweep \/ Tick
    \/ \E c \in Conv : SetPin(c)
    \/ SecretsResolve \/ SetEnabled
    \/ Arrive \/ CheckClock \/ CheckWindow \/ ReadBody \/ Mask \/ Record \/ Send
    \/ Scan \/ Route \/ Relay \/ Finish

RequestSpec == RequestInit /\ [][RequestNext]_reqVars

----------------------------------------------------------------------------
(* Properties.                                                             *)

\* Masked intake goes where its conversation pointed when it came in, though
\* the pin has changed since; a conversation that was pinned the whole time
\* its request was in the proxy never reaches the default endpoint, on any
\* route; and a target gets its own key (resolve_pinned_mode captured by
\* value, bare_path_zdr_guard, relay_verbatim, upstream_request_headers_zdr).
PinHonoured ==
    req.pc = "sent" =>
        /\ req.s.kind # "verbatim" => req.target = req.entry
        /\ req.target = NoTarget => req.unpinned
        /\ req.target # NoTarget => req.key = "target"

\* No registered secret leaves in clear, in a masked leaf, in a subtree the
\* walk never rewrites, in a header, in a path or a verbatim body, whatever
\* the switch and the window say, unless it was not yet registered while the
\* request was in the proxy (mask_body, relay_verbatim, send_upstream).
SecretNeverLeaves == req.pc = "sent" /\ req.leaks => req.unknown

\* Masked intake sends personal data in clear only if the master switch was
\* off, or the URL's conversation has a window that had not ended when the
\* request arrived (is_masking_disabled and its stale clock read).  A
\* header's conversation cannot turn masking off.
ClearOnlyInWindow ==
    req.pc = "sent" /\ req.clear /\ req.s.kind # "verbatim" =>
        \/ req.dark
        \/ req.s.url # NoConv /\ req.arrived < lastDeadline[req.s.url]

\* No window reaches further than MAX_MASKING_OFF_TTL from now, however it
\* was asked for and re-armed (set_masking_disabled).
WindowBounded == \A c \in Conv : off[c] <= clock + MaxTtl

\* Every window ends once: cleared by the operator, or reverted and reported
\* once, whichever of a request, a status query and the sweep meets the
\* deadline first, and whatever re-arms it in between.
WindowEndsOnce ==
    \A c \in Conv :
        balance[c] = IF off[c] = 0 THEN 0 ELSE 1

\* Masking is off only inside a window, which is bounded whatever arms it and ends
\* once whoever meets its deadline (masking_disabled_active, sweep).
WindowSound ==
    /\ RequestTypeOK
    /\ ClearOnlyInWindow
    /\ WindowBounded
    /\ WindowEndsOnce
=============================================================================
