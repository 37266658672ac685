------------------------------- MODULE Tokens -------------------------------
(***************************************************************************)
(* SessionStore and its users: masking mints tokens into the store and the *)
(* turn's manifest, secrets are resolved in the background after boot, and *)
(* replies and tool calls turn tokens back into values.  Turns run side by *)
(* side; the proxy restarts with its salt, so handles are the same in      *)
(* every process while the store is empty again.  Restoring is read-only:  *)
(* the properties say of every state what every read would return.         *)
(***************************************************************************)
EXTENDS Unmask, FiniteSets, TLC

CONSTANTS
    Turn,         \* requests in progress
    SecretOp,     \* per value: the operator it is registered with, or None
    Detected,     \* per value: what detection without secrets makes of it
    Required,     \* the registered values marked required
    Minted,       \* make_token: the handle of a kind and a value
    Policies,     \* broker policies: sequences of allow rules
    Calls,        \* tool calls: [tool, ptr, host]
    Egress, Opaque,   \* MCP and sub-agent tools; free-form shell tools
    MaxEvents     \* restarts and operator's writes

\* make_token.
MakeToken(k, v) == Minted[<<k, v>>]

\* The kinds of token a value can get; the admin key is installed before anything is masked.
KindsOf(v) ==
    IF SecretOp[v] = "local" THEN {"local"}
    ELSE ({SecretOp[v]} \cap {"broker"}) \cup ({Detected[v]} \ {None})

\* The prefix tells a brokered handle, a fixed token is shared by the values it stands
\* for, every other handle names its kind and value (collisions are not modelled).
ASSUME TokensAssumption ==
    /\ None \notin Val
    /\ \A v \in Val : Detected[v] \in {"pii", "fixed", None}
    /\ \A v \in Val : \A k \in KindsOf(v) :
          /\ MakeToken(k, v) \in Handle
          /\ (MakeToken(k, v) \in BrokerHandle) <=> (k = "broker")
          /\ (MakeToken(k, v) \in Literal) <=> (k = "fixed")
    /\ \A v, w \in Val : \A k \in KindsOf(v), l \in KindsOf(w) :
          MakeToken(k, v) = MakeToken(l, w) /\ k # "fixed" => v = w /\ k = l

AdminKeys == {v \in Val : SecretOp[v] = "local"}
SecretVals == {v \in Val : SecretOp[v] \notin {None, "local"}}

VARIABLES
    store,       \* handle -> [val, kind]
    tombs,       \* deleted handles
    promoted,    \* local handles allowed into tools
    rules,       \* the secrets the config of this process names
    installed,   \* the secret set in force
    ready,       \* secrets_ready
    resolving,   \* the background resolve is still to come
    seed,        \* the monitor's local redactions
    op,          \* per value: the operator the policy gives what detection finds
    brokerPolicy,      \* the broker policy
    man,         \* per turn: its manifest, the first entry of a handle
    early,       \* values masked before they were installed
    events

tvars == <<store, tombs, promoted, rules, installed, ready, resolving, seed, op, brokerPolicy, man,
           early, events>>

Entry == [val : Val, kind : {"pii", "broker", "local", "fixed"}]

TokensTypeOK ==
    /\ DOMAIN store \subseteq Handle /\ \A h \in DOMAIN store : store[h] \in Entry
    /\ tombs \subseteq Handle /\ promoted \subseteq Handle
    /\ rules \subseteq SecretVals /\ installed \subseteq AdminKeys \cup rules
    /\ ready \in BOOLEAN /\ resolving \in BOOLEAN /\ seed \subseteq Val
    /\ op \in [Val -> {"token", "keep"}] /\ brokerPolicy \in Policies
    /\ \A t \in Turn : DOMAIN man[t] \subseteq Handle /\ \A h \in DOMAIN man[t] : man[t][h] \in Entry
    /\ early \subseteq Val

-----------------------------------------------------------------------------
\* A map with an entry for h, unless it has one.
FirstWins(map, h, e) == [g \in DOMAIN map \cup {h} |-> IF g \in DOMAIN map THEN map[g] ELSE e]

\* Deviation: a deleted token may be minted again.
InsertOverTombstone(st, h, v, kind) == FirstWins(st, h, [val |-> v, kind |-> kind])

\* insert_if_absent: the tombstone wins, and so does the first entry.
InsertIfAbsent(st, h, v, kind) ==
    IF h \in tombs THEN st ELSE FirstWins(st, h, [val |-> v, kind |-> kind])

\* set_secret_rules: replaces the set, and mints the tokens of the local ones at once.
Install(set) ==
    /\ installed' = set
    /\ store' = [h \in DOMAIN store \cup ({MakeToken("local", v) : v \in set \cap AdminKeys} \ tombs) |->
                   IF h \in DOMAIN store THEN store[h]
                   ELSE [val |-> CHOOSE v \in AdminKeys : MakeToken("local", v) = h, kind |-> "local"]]

\* local_pairs, in the next state.
LocalPairs == {store'[h].val : h \in {g \in DOMAIN store' : store'[g].kind = "local"}}

\* main: a fresh store under the old salt, the admin key installed before serving.
TokensInit ==
    /\ rules \in SUBSET SecretVals
    /\ store = [h \in {MakeToken("local", v) : v \in AdminKeys} |->
                  [val |-> CHOOSE v \in AdminKeys : MakeToken("local", v) = h, kind |-> "local"]]
    /\ installed = AdminKeys /\ seed = AdminKeys
    /\ tombs = {} /\ promoted = {} /\ early = {}
    /\ ready = (rules \cap Required = {}) /\ resolving = (rules # {})
    /\ op = [v \in Val |-> "token"] /\ brokerPolicy \in Policies
    /\ man = [t \in Turn |-> <<>>]
    /\ events = 0

\* resolve_and_install: some secrets resolve; the install may be refused as a whole, which
\* leaves the earlier set; the gate opens when every required one is in force.
ResolveAndInstall ==
    /\ resolving /\ resolving' = FALSE
    /\ \E got \in SUBSET rules :
           \/ Install(AdminKeys \cup got) /\ ready' = (ready \/ Required \cap rules \subseteq got)
           \/ UNCHANGED <<installed, store, ready>>
    /\ seed' = LocalPairs
    /\ UNCHANGED <<tombs, promoted, rules, op, brokerPolicy, man, early, events>>

\* The kind of token apply mints for v, or None: a registered secret wins over detection.
KindOf(v) ==
    IF v \in installed THEN IF SecretOp[v] \in {"broker", "local"} THEN SecretOp[v] ELSE None
    ELSE IF Detected[v] # None /\ op[v] = "token" THEN Detected[v] ELSE None

\* A leaf with v is masked in turn t: mint into the store, push to the manifest.
MaskLeaf(t, v) ==
    /\ ready /\ KindOf(v) # None
    /\ LET h == MakeToken(KindOf(v), v)
       IN  /\ store' = InsertIfAbsent(store, h, v, KindOf(v))
           /\ man' = [man EXCEPT ![t] = FirstWins(@, h, [val |-> v, kind |-> KindOf(v)])]
    /\ early' = IF v \in rules \ installed THEN early \cup {v} ELSE early
    /\ UNCHANGED <<tombs, promoted, rules, installed, ready, resolving, seed, op, brokerPolicy, events>>

\* The turn's answer is out; the next request of the slot starts with an empty manifest.
EndTurn(t) ==
    /\ man[t] # <<>>
    /\ man' = [man EXCEPT ![t] = <<>>]
    /\ UNCHANGED <<store, tombs, promoted, rules, installed, ready, resolving, seed, op, brokerPolicy, early,
                   events>>

\* set_config and set_broker_policy.
SetPolicy ==
    /\ events < MaxEvents /\ events' = events + 1
    /\ \/ \E v \in Val : Detected[v] # None /\ op' = [op EXCEPT ![v] = "keep"] /\ UNCHANGED brokerPolicy
       \/ brokerPolicy' \in Policies /\ UNCHANGED op
    /\ UNCHANGED <<store, tombs, promoted, rules, installed, ready, resolving, seed, man, early>>

\* promote: only a local token is accepted.
Promote(h) ==
    /\ promoted' = IF h \in DOMAIN store /\ store[h].kind = "local" THEN promoted \cup {h} ELSE promoted
    /\ events < MaxEvents /\ events' = events + 1
    /\ UNCHANGED <<store, tombs, rules, installed, ready, resolving, seed, op, brokerPolicy, man, early>>

\* delete and tombstone.
Delete(h) ==
    /\ store' = [g \in DOMAIN store \ {h} |-> store[g]]
    /\ tombs' = tombs \cup {h}
    /\ events < MaxEvents /\ events' = events + 1
    /\ UNCHANGED <<promoted, rules, installed, ready, resolving, seed, op, brokerPolicy, man, early>>

\* The proxy is recycled, with its salt and perhaps other secrets in its config.
Restart ==
    /\ events < MaxEvents /\ events' = events + 1
    /\ rules' \in SUBSET SecretVals
    /\ store' = [h \in {MakeToken("local", v) : v \in AdminKeys} |->
                   [val |-> CHOOSE v \in AdminKeys : MakeToken("local", v) = h, kind |-> "local"]]
    /\ installed' = AdminKeys /\ seed' = AdminKeys
    /\ tombs' = {} /\ promoted' = {} /\ early' = {}
    /\ ready' = (rules' \cap Required = {}) /\ resolving' = (rules' # {})
    /\ man' = [t \in Turn |-> <<>>]
    /\ UNCHANGED <<op, brokerPolicy>>

TokensNext ==
    \/ ResolveAndInstall \/ SetPolicy \/ Restart
    \/ \E t \in Turn : EndTurn(t) \/ \E v \in Val : MaskLeaf(t, v)
    \/ \E h \in DOMAIN store : Promote(h) \/ Delete(h)

TokensSpec == TokensInit /\ [][TokensNext]_tvars

-----------------------------------------------------------------------------
\* Deviation: the store reveals any kind.
LookAnyKind(t) ==
    [plain |-> [h \in Handle |-> IF h \in DOMAIN man[t] THEN man[t][h].val
                                 ELSE IF h \in DOMAIN store THEN store[h].val ELSE None],
     local |-> {}, promoted |-> promoted, literal |-> [h \in Handle |-> None]]

\* What unmask_inner looks up: the manifest first, then reveal and reveal_for(Local).
LookOf(t) ==
    [plain |-> [h \in Handle |->
                  IF h \in DOMAIN man[t] THEN man[t][h].val
                  ELSE IF h \in DOMAIN store /\ store[h].kind # "broker" THEN store[h].val ELSE None],
     local |-> {h \in Handle : IF h \in DOMAIN man[t] THEN man[t][h].kind = "local"
                               ELSE h \in DOMAIN store /\ store[h].kind = "local"},
     promoted |-> promoted,
     literal |-> [h \in Handle |-> IF h \in DOMAIN man[t] /\ h \in Literal THEN man[t][h].val ELSE None]]

\* What a reply that is just the token of h becomes, as the values in it.
Reply(h, ctx, look) ==
    LET s == IF h \in Literal THEN UnmaskLiteral(h, ctx, FALSE, look)
             ELSE UnmaskToken(Token(h), 1, ctx, "leaf", FALSE, look)
    IN  {s[j].val : j \in {k \in DOMAIN s : s[k] \notin Char}}

\* reveal_audit.
RevealAudit(h) ==
    IF h \in DOMAIN store /\ store[h].kind # "broker" THEN {store[h].val} ELSE {}

Matches(r, v, c) == r.secret \in {v, None} /\ r.tool = c.tool /\ r.ptr = c.ptr

\* decide: egress and shell tools are refused before any rule, then the first match decides.
Decide(v, c) ==
    LET hits == {i \in DOMAIN brokerPolicy : Matches(brokerPolicy[i], v, c)}
        r == brokerPolicy[CHOOSE i \in hits : \A j \in hits : i <= j]
    IN  /\ c.tool \notin Egress \cup Opaque /\ hits # {}
        /\ r.dest = {} \/ (c.host # None /\ c.host \in r.dest)

\* broker_resolve_leaf: what the tool call gets for the token of h.
BrokerResolve(h, c) ==
    IF h \in BrokerHandle /\ h \in DOMAIN store /\ store[h].kind = "broker" /\ Decide(store[h].val, c)
    THEN {store[h].val} ELSE {}

-----------------------------------------------------------------------------
\* A required broker secret reaches no text of any surface, in any turn, whatever is in the
\* store and the manifests; an optional one only if it was sent before it was resolved
\* (readiness gate, refusal by prefix, kind-gated reveal; restarts change the secret set).
BrokerSealed ==
    \A t \in Turn : LET look == LookOf(t) IN \A h \in Handle, ctx \in Context :
        \A v \in Reply(h, ctx, look) \cup RevealAudit(h) :
            (v \in rules /\ SecretOp[v] = "broker") => (v \in early /\ v \notin Required)

\* The admin key is shown to its owner only: elsewhere its token stays unless it was promoted
\* in this process, and the tool boundary never resolves it (the Local class).
LocalStaysHome ==
    \A t \in Turn : LET look == LookOf(t) IN \A h \in Handle :
        /\ \A v \in Reply(h, "other", look) \cup Reply(h, "tool", look) :
               v \in AdminKeys => h \in promoted /\ h = MakeToken("local", v)
        /\ \A c \in Calls : BrokerResolve(h, c) \cap AdminKeys = {}

\* What the capture of a reply must scrub is known from boot on: every owner-revealed value
\* that any turn can show is among the monitor's redactions (eager mint at install).
SeedCoversLocal ==
    \A t \in Turn : LET look == LookOf(t)
                   IN  \A h \in Handle \ tombs : Reply(h, "display", look) \cap AdminKeys \subseteq seed

\* Masking round-trips: while a turn is open its tokens are shown as what they replaced, and a
\* token of the grammar shows that value in every other turn too, unless it was deleted; no
\* handle ever shows another value than its own (first entry wins, deterministic handles).
RoundTrip ==
    \A u \in Turn : LET look == LookOf(u) IN
        /\ \A t \in Turn : \A h \in DOMAIN man[t] \ BrokerHandle :
               t = u \/ h \notin Literal \cup tombs => Reply(h, "display", look) = {man[t][h].val}
        /\ \A h \in Handle \ Literal : \A v \in Reply(h, "display", look) :
               \E k \in {"pii", "local"} : MakeToken(k, v) = h

\* A deleted token is gone from the store for this process: no later masking, install or
\* resolve brings it back (tombstoned handles are not interned again).
NoReintern == tombs \cap DOMAIN store = {} /\ \A h \in tombs, c \in Calls :
                  RevealAudit(h) = {} /\ BrokerResolve(h, c) = {}

\* A brokered value goes to no MCP server, sub-agent or shell, whatever the rules say, and only
\* a secret registered in this process is ever brokered (decide's order, the kind gate).
BrokerBounded ==
    \A h \in Handle, c \in Calls : \A v \in BrokerResolve(h, c) :
        /\ c.tool \notin Egress \cup Opaque
        /\ v \in installed /\ SecretOp[v] = "broker"
        /\ \E i \in DOMAIN brokerPolicy : brokerPolicy[i].secret \in {v, None} /\ brokerPolicy[i].tool = c.tool

\* Tokens mean one thing for ever: a turn restores what it masked, a deleted token
\* stays deleted, and the capture seed names every owner-revealed one.
TokensSound ==
    /\ TokensTypeOK
    /\ RoundTrip
    /\ NoReintern
    /\ SeedCoversLocal

\* No reader gets a value that was not meant for it: not before it is registered,
\* not another surface, not a tool that the broker refuses.
NothingEscapes ==
    /\ BrokerSealed
    /\ LocalStaysHome
    /\ BrokerBounded
=============================================================================
