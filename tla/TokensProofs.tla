----------------------------- MODULE TokensProofs -----------------------------
(***************************************************************************)
(* Tokens mean one thing and reach only who they are meant for, for any    *)
(* number of turns, values, restarts and operator's writes.                *)
(*                                                                         *)
(* The inductive invariant says what every entry of the store and of the   *)
(* manifests is (an entry of a kind its value can get, under its own       *)
(* handle), when each kind could be minted, and what the tombstones leave  *)
(* of the entries the admin key and the open turns rely on.                *)
(***************************************************************************)
EXTENDS Tokens, TLAPS

-----------------------------------------------------------------------------
(* The inductive invariant.                                                *)

\* An entry is filed under the handle of its kind and value, and the kind says how its
\* value came to be masked: as a secret in force, or before it was one.
EntryIn(h, e, secrets, named, sent) ==
    /\ e \in Entry /\ e.kind \in KindsOf(e.val)
    /\ h = MakeToken(e.kind, e.val)
    /\ e.kind = "broker" => e.val \in secrets
    /\ e.kind \in {"pii", "fixed"} /\ e.val \in named => e.val \in sent

EntryHolds(h, e) == EntryIn(h, e, installed, rules, early)

EntriesHold ==
    /\ \A h \in DOMAIN store : EntryHolds(h, store[h])
    /\ \A t \in Turn : \A h \in DOMAIN man[t] : EntryHolds(h, man[t][h])

\* The admin key is always in force; before the resolve nothing else is; and the gate
\* opens only when every required secret is.
InForce ==
    /\ AdminKeys \subseteq installed
    /\ resolving => installed = AdminKeys
    /\ ready => Required \cap rules \subseteq installed
    /\ early \cap Required = {}

\* What was interned is in the store unless it was deleted, and deleted for good.
Interned ==
    /\ tombs \cap DOMAIN store = {}
    /\ \A t \in Turn : DOMAIN man[t] \subseteq DOMAIN store \cup tombs
    /\ \A v \in AdminKeys : MakeToken("local", v) \in DOMAIN store \cup tombs
    /\ \A v \in AdminKeys : MakeToken("local", v) \in tombs \/ v \in seed

\* Every turn has a manifest.
Manifests == man = [t \in Turn |-> man[t]]

TokensInv == TokensTypeOK /\ Manifests /\ EntriesHold /\ InForce /\ Interned

-----------------------------------------------------------------------------
(* Handles and entries.                                                    *)

LEMMA KindsFacts ==
    ASSUME NEW v \in Val
    PROVE  /\ KindsOf(v) \subseteq {"pii", "broker", "local", "fixed"}
           /\ v \in AdminKeys <=> "local" \in KindsOf(v)
           /\ v \in AdminKeys <=> KindsOf(v) = {"local"}
           /\ "broker" \in KindsOf(v) => SecretOp[v] = "broker"
           /\ SecretOp[v] = "broker" => "local" \notin KindsOf(v)
  BY TokensAssumption DEF KindsOf, AdminKeys

\* The admin key's handle.
LEMMA AdminHandle ==
    ASSUME NEW v \in AdminKeys
    PROVE  /\ v \in Val /\ MakeToken("local", v) \in Handle
           /\ MakeToken("local", v) \notin BrokerHandle \cup Literal
           /\ \A w \in AdminKeys : MakeToken("local", w) = MakeToken("local", v) => w = v
<1>1. \A w \in AdminKeys : w \in Val /\ "local" \in KindsOf(w)
  BY KindsFacts DEF AdminKeys
<1>2. /\ MakeToken("local", v) \in Handle
      /\ MakeToken("local", v) \notin BrokerHandle /\ MakeToken("local", v) \notin Literal
  BY <1>1, TokensAssumption
<1>3. \A w \in AdminKeys : MakeToken("local", w) = MakeToken("local", v) => w = v
  BY <1>1, TokensAssumption
<1> QED
  BY <1>1, <1>2, <1>3

\* What minting the admin keys puts under a handle is the key of that handle.
AdminEntry(h) == [val |-> CHOOSE v \in AdminKeys : MakeToken("local", v) = h, kind |-> "local"]

AdminEntryOK(h) ==
    /\ h \in Handle /\ AdminEntry(h) \in Entry /\ AdminEntry(h).kind = "local"
    /\ AdminEntry(h).val \in AdminKeys /\ h = MakeToken("local", AdminEntry(h).val)
    /\ "local" \in KindsOf(AdminEntry(h).val)

LEMMA AdminEntryFacts ==
    ASSUME NEW h, h \in {MakeToken("local", v) : v \in AdminKeys}
    PROVE  AdminEntryOK(h)
<1>1. PICK w \in AdminKeys : h = MakeToken("local", w)
  OBVIOUS
<1>2. PICK x \in AdminKeys : /\ MakeToken("local", x) = h
                             /\ AdminEntry(h) = [val |-> x, kind |-> "local"]
  BY <1>1 DEF AdminEntry
<1>3. x \in Val /\ h \in Handle
  BY <1>2, AdminHandle
<1>4. "local" \in KindsOf(x)
  BY <1>3, KindsFacts
<1>5. [val |-> x, kind |-> "local"] \in Entry
  BY <1>3 DEF Entry
<1>6. /\ AdminEntry(h) \in Entry
      /\ AdminEntry(h).val = x /\ AdminEntry(h).kind = "local"
  BY <1>2, <1>5
<1> QED
  BY <1>2, <1>3, <1>4, <1>6 DEF AdminEntryOK

\* A turn mints a token only of a kind its value can get.
LEMMA KindOfFacts ==
    ASSUME InForce, NEW v \in Val, KindOf(v) # None
    PROVE  /\ KindOf(v) \in KindsOf(v)
           /\ KindOf(v) = "broker" => v \in installed
           /\ KindOf(v) \in {"pii", "fixed"} => v \notin installed
<1>1. CASE v \in installed
  <2>1. KindOf(v) = SecretOp[v] /\ SecretOp[v] \in {"broker", "local"}
    BY <1>1 DEF KindOf
  <2> QED
    BY <1>1, <2>1 DEF KindsOf
<1>2. CASE v \notin installed
  <2>1. KindOf(v) = Detected[v] /\ Detected[v] # None
    BY <1>2 DEF KindOf
  <2>2. SecretOp[v] # "local"
    BY <1>2 DEF InForce, AdminKeys
  <2> QED
    BY <1>2, <2>1, <2>2, TokensAssumption DEF KindsOf
<1> QED
  BY <1>1, <1>2

-----------------------------------------------------------------------------
(* Interning.                                                              *)

\* map with e for h is n: no other entry is disturbed, and the first one wins.
Interns(map, h, e, n) ==
    /\ DOMAIN n = DOMAIN map \cup {h}
    /\ \A g \in DOMAIN n : \/ g \in DOMAIN map /\ n[g] = map[g]
                           \/ g = h /\ n[g] = e

LEMMA FirstWinsInterns ==
    ASSUME NEW map, NEW h, NEW e
    PROVE  Interns(map, h, e, FirstWins(map, h, e))
  BY DEF FirstWins, Interns

-----------------------------------------------------------------------------
(* The invariant holds after boot, and after every restart.                *)

LEMMA TokensInitInv == TokensInit => TokensInv
<1> SUFFICES ASSUME TokensInit PROVE TokensInv
  OBVIOUS
<1> DEFINE S == {MakeToken("local", v) : v \in AdminKeys}
<1>1. /\ DOMAIN store = S
      /\ \A h \in S : store[h] = AdminEntry(h)
  BY DEF TokensInit, AdminEntry
<1>2. \A h \in S : AdminEntryOK(h)
  BY AdminEntryFacts
<1>3. \A t \in Turn : DOMAIN man[t] = {}
  BY DEF TokensInit
<1>4. AdminKeys \subseteq Val /\ Manifests
  BY DEF AdminKeys, TokensInit, Manifests
<1>5. TokensTypeOK
  <2>1. DOMAIN store \subseteq Handle /\ \A h \in DOMAIN store : store[h] \in Entry
    BY <1>1, <1>2 DEF AdminEntryOK
  <2> QED
    BY <1>3, <1>4, <2>1 DEF TokensInit, TokensTypeOK
<1>6. EntriesHold
  <2>1. installed = AdminKeys
    BY DEF TokensInit
  <2>2. \A h \in DOMAIN store : EntryHolds(h, store[h])
    BY <1>1, <1>2, <2>1 DEF AdminEntryOK, EntryHolds, EntryIn
  <2> QED
    BY <1>3, <2>2 DEF EntriesHold
<1>7. InForce
  BY DEF TokensInit, InForce
<1>8. Interned
  <2>1. \A v \in AdminKeys : MakeToken("local", v) \in S
    OBVIOUS
  <2> QED
    BY <1>1, <1>3, <2>1 DEF TokensInit, Interned
<1> QED
  BY <1>4, <1>5, <1>6, <1>7, <1>8 DEF TokensInv

LEMMA RestartInv == TokensInv /\ Restart => TokensInv'
<1> SUFFICES ASSUME TokensInv, Restart PROVE TokensInv'
  OBVIOUS
<1> DEFINE S == {MakeToken("local", v) : v \in AdminKeys}
<1>1. /\ DOMAIN store' = S
      /\ \A h \in S : store'[h] = AdminEntry(h)
  BY DEF Restart, AdminEntry
<1>2. \A h \in S : AdminEntryOK(h)
  BY AdminEntryFacts
<1>3. \A t \in Turn : DOMAIN man'[t] = {}
  BY DEF Restart
<1>4. AdminKeys \subseteq Val /\ Manifests'
  BY DEF AdminKeys, Restart, Manifests
<1>5. TokensTypeOK'
  <2>1. DOMAIN store' \subseteq Handle /\ \A h \in DOMAIN store' : store'[h] \in Entry
    BY <1>1, <1>2 DEF AdminEntryOK
  <2>2. op' \in [Val -> {"token", "keep"}] /\ brokerPolicy' \in Policies
    BY DEF Restart, TokensInv, TokensTypeOK
  <2> QED
    BY <1>3, <1>4, <2>1, <2>2 DEF Restart, TokensTypeOK
<1>6. EntriesHold'
  <2>1. installed' = AdminKeys
    BY DEF Restart
  <2>2. \A h \in DOMAIN store' : EntryHolds(h, store[h])'
    BY <1>1, <1>2, <2>1 DEF AdminEntryOK, EntryHolds, EntryIn
  <2> QED
    BY <1>3, <2>2 DEF EntriesHold
<1>7. InForce'
  BY DEF Restart, InForce
<1>8. Interned'
  <2>1. \A v \in AdminKeys : MakeToken("local", v) \in S
    OBVIOUS
  <2> QED
    BY <1>1, <1>3, <2>1 DEF Restart, Interned
<1> QED
  BY <1>4, <1>5, <1>6, <1>7, <1>8 DEF TokensInv

-----------------------------------------------------------------------------
(* Every step keeps it.                                                    *)

\* An entry that held still does while no secret is withdrawn and the same are named.
LEMMA EntryStays ==
    ASSUME NEW h, NEW e, EntryHolds(h, e),
           installed \subseteq installed', rules' = rules, early \subseteq early'
    PROVE  EntryHolds(h, e)'
  BY DEF EntryHolds, EntryIn

\* The admin key's token leads to the admin key.
LEMMA AdminStored ==
    ASSUME NEW v \in AdminKeys, NEW e, EntryHolds(MakeToken("local", v), e)
    PROVE  e.val = v /\ e.kind = "local"
<1>1. v \in Val /\ "local" \in KindsOf(v)
  BY KindsFacts DEF AdminKeys
<1>2. /\ e.val \in Val /\ e.kind \in KindsOf(e.val)
      /\ MakeToken("local", v) = MakeToken(e.kind, e.val)
  BY DEF EntryHolds, EntryIn, Entry
<1> QED
  BY <1>1, <1>2, TokensAssumption

LEMMA ResolveInv == TokensInv /\ ResolveAndInstall => TokensInv'
<1> SUFFICES ASSUME TokensInv, ResolveAndInstall PROVE TokensInv'
  OBVIOUS
<1>1. PICK got \in SUBSET rules :
         \/ Install(AdminKeys \cup got) /\ ready' = (ready \/ Required \cap rules \subseteq got)
         \/ UNCHANGED <<installed, store, ready>>
  BY DEF ResolveAndInstall
<1>2. /\ resolving /\ resolving' = FALSE /\ seed' = LocalPairs
      /\ UNCHANGED <<tombs, promoted, rules, op, brokerPolicy, man, early>>
  BY DEF ResolveAndInstall
<1>3. installed = AdminKeys
  BY <1>2 DEF TokensInv, InForce
<1>4. \/ installed' = AdminKeys \cup got /\ ready' = (ready \/ Required \cap rules \subseteq got)
      \/ installed' = installed /\ ready' = ready
  BY <1>1 DEF Install
\* The admin key's tokens are there already, or deleted.
<1>5. DOMAIN store' = DOMAIN store /\ \A h \in DOMAIN store : store'[h] = store[h]
  <2>1. CASE UNCHANGED store
    BY <2>1
  <2>2. CASE Install(AdminKeys \cup got)
    <3> DEFINE S == {MakeToken("local", v) : v \in (AdminKeys \cup got) \cap AdminKeys}
    <3>1. \A v \in AdminKeys : MakeToken("local", v) \in DOMAIN store \cup tombs
      BY DEF TokensInv, Interned
    <3>2. S \ tombs \subseteq DOMAIN store
      BY <3>1
    <3>3. store' = [h \in DOMAIN store \cup (S \ tombs) |->
                      IF h \in DOMAIN store THEN store[h] ELSE AdminEntry(h)]
      BY <2>2 DEF Install, AdminEntry
    <3> HIDE DEF S
    <3>4. DOMAIN store \cup (S \ tombs) = DOMAIN store
      BY <3>2
    <3> QED
      BY <3>3, <3>4
  <2> QED
    BY <1>1, <2>1, <2>2
<1>6. AdminKeys \subseteq Val
  BY DEF AdminKeys
<1>7. seed' \subseteq Val
  <2>1. \A h \in DOMAIN store' : store'[h].val \in Val
    BY <1>5 DEF TokensInv, TokensTypeOK, Entry
  <2> QED
    BY <1>2, <2>1 DEF LocalPairs
<1>8. TokensTypeOK'
  <2>1. ready' \in BOOLEAN
    BY <1>4 DEF TokensInv, TokensTypeOK
  <2>2. installed' \subseteq AdminKeys \cup rules'
    BY <1>2, <1>3, <1>4
  <2>3. DOMAIN store' \subseteq Handle /\ \A h \in DOMAIN store' : store'[h] \in Entry
    BY <1>5 DEF TokensInv, TokensTypeOK
  <2> QED
    BY <1>2, <1>7, <2>1, <2>2, <2>3 DEF TokensInv, TokensTypeOK
<1>9. EntriesHold'
  <2>1. installed \subseteq installed'
    BY <1>3, <1>4
  <2>2. \A h \in DOMAIN store : EntryHolds(h, store[h])'
    <3> SUFFICES ASSUME NEW h \in DOMAIN store PROVE EntryHolds(h, store[h])'
      OBVIOUS
    <3>1. EntryHolds(h, store[h]) /\ store'[h] = store[h]
      BY <1>5 DEF TokensInv, EntriesHold
    <3> QED
      BY <1>2, <2>1, <3>1, EntryStays DEF EntryHolds, EntryIn
  <2>3. \A t \in Turn : \A h \in DOMAIN man[t] : EntryHolds(h, man[t][h])'
    BY <1>2, <2>1 DEF TokensInv, EntriesHold, EntryHolds, EntryIn
  <2> QED
    BY <1>2, <1>5, <2>2, <2>3 DEF EntriesHold
<1>10. InForce'
  <2>1. AdminKeys \subseteq installed' /\ ~resolving' /\ (early \cap Required = {})'
    BY <1>2, <1>3, <1>4 DEF TokensInv, InForce
  <2>2. ready => Required \cap rules \subseteq installed
    BY DEF TokensInv, InForce
  <2>3. ASSUME ready' PROVE (Required \cap rules \subseteq installed)'
    <3>1. CASE ready' = ready /\ installed' = installed
      BY <1>2, <2>2, <2>3, <3>1
    <3>2. CASE installed' = AdminKeys \cup got /\ ready' = (ready \/ Required \cap rules \subseteq got)
      <4>1. ready \/ Required \cap rules \subseteq got
        BY <2>3, <3>2
      <4> QED
        BY <1>2, <1>3, <2>2, <3>2, <4>1
    <3> QED
      BY <1>4, <3>1, <3>2
  <2> QED
    BY <2>1, <2>3 DEF InForce
<1>11. Interned'
  <2>1. ASSUME NEW v \in AdminKeys PROVE MakeToken("local", v) \in tombs' \/ v \in seed'
    <3> DEFINE h == MakeToken("local", v)
    <3>1. CASE h \in tombs
      BY <1>2, <3>1
    <3>2. CASE h \in DOMAIN store
      <4>1. EntryHolds(h, store[h])
        BY <3>2 DEF TokensInv, EntriesHold
      <4>2. store[h].val = v /\ store[h].kind = "local"
        BY <4>1, AdminStored
      <4>3. h \in DOMAIN store' /\ store'[h].val = v /\ store'[h].kind = "local"
        BY <1>5, <3>2, <4>2
      <4> HIDE DEF h
      <4> QED
        BY <1>2, <4>3 DEF LocalPairs
    <3> QED
      BY <3>1, <3>2 DEF TokensInv, Interned
  <2> QED
    BY <1>2, <1>5, <2>1 DEF TokensInv, Interned
<1> QED
  BY <1>2, <1>8, <1>9, <1>10, <1>11 DEF TokensInv, Manifests

LEMMA SetPolicyInv == TokensInv /\ SetPolicy => TokensInv'
<1> SUFFICES ASSUME TokensInv, SetPolicy PROVE TokensInv'
  OBVIOUS
<1>1. UNCHANGED <<store, tombs, promoted, rules, installed, ready, resolving, seed, man, early>>
  BY DEF SetPolicy
<1>2. op' \in [Val -> {"token", "keep"}] /\ brokerPolicy' \in Policies
  BY DEF SetPolicy, TokensInv, TokensTypeOK
<1>3. TokensTypeOK'
  BY <1>1, <1>2 DEF TokensInv, TokensTypeOK
<1>4. Manifests' /\ EntriesHold' /\ InForce' /\ Interned'
  BY <1>1 DEF TokensInv, Manifests, EntriesHold, EntryHolds, EntryIn, InForce, Interned
<1> QED
  BY <1>3, <1>4 DEF TokensInv

LEMMA EndTurnInv == TokensInv /\ (\E t \in Turn : EndTurn(t)) => TokensInv'
<1> SUFFICES ASSUME TokensInv, NEW t \in Turn, EndTurn(t) PROVE TokensInv'
  OBVIOUS
<1>1. UNCHANGED <<store, tombs, promoted, rules, installed, ready, resolving, seed, op, brokerPolicy, early>>
  BY DEF EndTurn
<1>2. man' = [man EXCEPT ![t] = <<>>]
  BY DEF EndTurn
<1>3. Manifests' /\ \A u \in Turn : man'[u] = (IF u = t THEN <<>> ELSE man[u])
  BY <1>2 DEF TokensInv, Manifests
<1>4. \A u \in Turn : \A h \in DOMAIN man'[u] : h \in DOMAIN man[u] /\ man'[u][h] = man[u][h]
  BY <1>3
<1>5. TokensTypeOK'
  BY <1>1, <1>4 DEF TokensInv, TokensTypeOK
<1>6. EntriesHold'
  BY <1>1, <1>4 DEF TokensInv, EntriesHold, EntryHolds, EntryIn
<1>7. InForce' /\ Interned'
  BY <1>1, <1>4 DEF TokensInv, InForce, Interned
<1> QED
  BY <1>3, <1>5, <1>6, <1>7 DEF TokensInv

LEMMA PromoteInv == TokensInv /\ (\E h \in DOMAIN store : Promote(h)) => TokensInv'
<1> SUFFICES ASSUME TokensInv, NEW h \in DOMAIN store, Promote(h) PROVE TokensInv'
  OBVIOUS
<1>1. UNCHANGED <<store, tombs, rules, installed, ready, resolving, seed, op, brokerPolicy, man, early>>
  BY DEF Promote
<1>2. promoted' \subseteq Handle
  BY DEF Promote, TokensInv, TokensTypeOK
<1>3. TokensTypeOK'
  BY <1>1, <1>2 DEF TokensInv, TokensTypeOK
<1>4. Manifests' /\ EntriesHold' /\ InForce' /\ Interned'
  BY <1>1 DEF TokensInv, Manifests, EntriesHold, EntryHolds, EntryIn, InForce, Interned
<1> QED
  BY <1>3, <1>4 DEF TokensInv

LEMMA DeleteInv == TokensInv /\ (\E h \in DOMAIN store : Delete(h)) => TokensInv'
<1> SUFFICES ASSUME TokensInv, NEW h \in DOMAIN store, Delete(h) PROVE TokensInv'
  OBVIOUS
<1>1. UNCHANGED <<promoted, rules, installed, ready, resolving, seed, op, brokerPolicy, man, early>>
  BY DEF Delete
<1>2. /\ DOMAIN store' = DOMAIN store \ {h} /\ tombs' = tombs \cup {h}
      /\ \A g \in DOMAIN store' : store'[g] = store[g]
  BY DEF Delete
<1>3. TokensTypeOK'
  <2>1. tombs' \subseteq Handle
    BY <1>2 DEF TokensInv, TokensTypeOK
  <2>2. DOMAIN store' \subseteq Handle /\ \A g \in DOMAIN store' : store'[g] \in Entry
    BY <1>2 DEF TokensInv, TokensTypeOK
  <2> QED
    BY <1>1, <2>1, <2>2 DEF TokensInv, TokensTypeOK
<1>4. EntriesHold'
  BY <1>1, <1>2 DEF TokensInv, EntriesHold, EntryHolds, EntryIn
<1>5. Manifests' /\ InForce'
  BY <1>1 DEF TokensInv, Manifests, InForce
<1>6. Interned'
  <2>1. DOMAIN store \cup tombs = DOMAIN store' \cup tombs' /\ tombs' \cap DOMAIN store' = {}
    BY <1>2 DEF TokensInv, Interned
  <2> QED
    BY <1>1, <1>2, <2>1 DEF TokensInv, Interned
<1> QED
  BY <1>3, <1>4, <1>5, <1>6 DEF TokensInv

LEMMA MaskLeafInv == TokensInv /\ (\E t \in Turn, v \in Val : MaskLeaf(t, v)) => TokensInv'
<1> SUFFICES ASSUME TokensInv, NEW t \in Turn, NEW v \in Val, MaskLeaf(t, v) PROVE TokensInv'
  OBVIOUS
<1> PICK k : k = KindOf(v)
  OBVIOUS
<1> PICK h : h = MakeToken(k, v)
  OBVIOUS
<1> PICK e : e = [val |-> v, kind |-> k]
  OBVIOUS
<1>1. /\ ready /\ k # None
      /\ store' = (IF h \in tombs THEN store ELSE FirstWins(store, h, e))
      /\ man' = [man EXCEPT ![t] = FirstWins(@, h, e)]
      /\ early' = IF v \in rules \ installed THEN early \cup {v} ELSE early
      /\ UNCHANGED <<tombs, promoted, rules, installed, ready, resolving, seed, op, brokerPolicy>>
  BY DEF MaskLeaf, InsertIfAbsent
<1>2. /\ k \in KindsOf(v) /\ (k = "broker" => v \in installed)
      /\ (k \in {"pii", "fixed"} => v \notin installed)
  BY <1>1, KindOfFacts DEF TokensInv
<1>3. h \in Handle /\ k \in {"pii", "broker", "local", "fixed"}
  BY <1>2, KindsFacts, TokensAssumption
<1>4. e \in Entry /\ e.val = v /\ e.kind = k
  BY <1>3 DEF Entry
\* The gate keeps the required ones among the values sent early out.
<1>5. early' \cap Required = {} /\ early' \subseteq Val /\ early \subseteq early'
  BY <1>1 DEF TokensInv, InForce, TokensTypeOK
<1>6. EntryIn(h, e, installed', rules', early')
  <2>1. k \in {"pii", "fixed"} /\ v \in rules => v \in early'
    BY <1>1, <1>2
  <2> QED
    BY <1>1, <1>2, <1>4, <2>1 DEF EntryIn
<1>7. \A g, x : EntryHolds(g, x) => EntryIn(g, x, installed', rules', early')
  BY <1>1, <1>5 DEF EntryHolds, EntryIn
<1>8. /\ Manifests' /\ man'[t] = FirstWins(man[t], h, e)
      /\ \A u \in Turn : u # t => man'[u] = man[u]
  BY <1>1 DEF TokensInv, Manifests
\* What is in the maps now was there before, or is the entry minted.
<1>9. /\ DOMAIN store \subseteq DOMAIN store' /\ DOMAIN store' \subseteq DOMAIN store \cup {h}
      /\ h \in DOMAIN store' \cup tombs
      /\ h \in tombs => DOMAIN store' = DOMAIN store
      /\ \A g \in DOMAIN store' : \/ g \in DOMAIN store /\ store'[g] = store[g]
                                  \/ g = h /\ store'[g] = e
  <2>1. CASE h \in tombs
    BY <1>1, <2>1
  <2>2. CASE h \notin tombs
    <3>1. Interns(store, h, e, store')
      BY <1>1, <2>2, FirstWinsInterns
    <3> QED
      BY <2>2, <3>1 DEF Interns
  <2> QED
    BY <2>1, <2>2
<1>10. \A u \in Turn :
          /\ DOMAIN man'[u] \subseteq DOMAIN man[u] \cup {h}
          /\ \A g \in DOMAIN man'[u] : \/ g \in DOMAIN man[u] /\ man'[u][g] = man[u][g]
                                       \/ g = h /\ man'[u][g] = e
  <2>1. Interns(man[t], h, e, man'[t])
    BY <1>8, FirstWinsInterns
  <2>2. ASSUME NEW u \in Turn
        PROVE  /\ DOMAIN man'[u] \subseteq DOMAIN man[u] \cup {h}
               /\ \A g \in DOMAIN man'[u] : \/ g \in DOMAIN man[u] /\ man'[u][g] = man[u][g]
                                            \/ g = h /\ man'[u][g] = e
    <3>1. CASE u = t
      BY <2>1, <3>1 DEF Interns
    <3>2. CASE u # t
      BY <1>8, <3>2
    <3> QED
      BY <3>1, <3>2
  <2> QED
    BY <2>2
<1>11. EntriesHold'
  <2>1. \A g \in DOMAIN store' : EntryIn(g, store'[g], installed', rules', early')
    <3> SUFFICES ASSUME NEW g \in DOMAIN store'
                 PROVE  EntryIn(g, store'[g], installed', rules', early')
      OBVIOUS
    <3>1. CASE g \in DOMAIN store /\ store'[g] = store[g]
      BY <1>7, <3>1 DEF TokensInv, EntriesHold
    <3>2. CASE g = h /\ store'[g] = e
      BY <1>6, <3>2
    <3> QED
      BY <1>9, <3>1, <3>2
  <2>2. \A u \in Turn : \A g \in DOMAIN man'[u] :
           EntryIn(g, man'[u][g], installed', rules', early')
    <3> SUFFICES ASSUME NEW u \in Turn, NEW g \in DOMAIN man'[u]
                 PROVE  EntryIn(g, man'[u][g], installed', rules', early')
      OBVIOUS
    <3>1. CASE g \in DOMAIN man[u] /\ man'[u][g] = man[u][g]
      BY <1>7, <3>1 DEF TokensInv, EntriesHold
    <3>2. CASE g = h /\ man'[u][g] = e
      BY <1>6, <3>2
    <3> QED
      BY <1>10, <3>1, <3>2
  <2> QED
    BY <2>1, <2>2 DEF EntriesHold, EntryHolds
<1>12. TokensTypeOK'
  <2>1. DOMAIN store' \subseteq Handle /\ \A g \in DOMAIN store' : store'[g] \in Entry
    BY <1>3, <1>4, <1>9 DEF TokensInv, TokensTypeOK
  <2>2. \A u \in Turn : DOMAIN man'[u] \subseteq Handle /\ \A g \in DOMAIN man'[u] : man'[u][g] \in Entry
    BY <1>3, <1>4, <1>10 DEF TokensInv, TokensTypeOK
  <2> QED
    BY <1>1, <1>5, <2>1, <2>2 DEF TokensInv, TokensTypeOK
<1>13. InForce'
  BY <1>1, <1>5 DEF TokensInv, InForce
<1>14. Interned'
  <2>1. (tombs \cap DOMAIN store = {})'
    BY <1>1, <1>9 DEF TokensInv, Interned
  <2>2. \A u \in Turn : DOMAIN man'[u] \subseteq DOMAIN store' \cup tombs
    BY <1>9, <1>10 DEF TokensInv, Interned
  <2> QED
    BY <1>1, <1>9, <2>1, <2>2 DEF TokensInv, Interned
<1> QED
  BY <1>8, <1>11, <1>12, <1>13, <1>14 DEF TokensInv

LEMMA TokensSpecInv == TokensSpec => []TokensInv
<1>1. TokensInit => TokensInv
  BY TokensInitInv
<1>2. TokensInv /\ [TokensNext]_tvars => TokensInv'
  <2> SUFFICES ASSUME TokensInv, [TokensNext]_tvars PROVE TokensInv'
    OBVIOUS
  <2>1. CASE TokensNext
    BY <2>1, ResolveInv, SetPolicyInv, RestartInv, EndTurnInv, MaskLeafInv, PromoteInv, DeleteInv
       DEF TokensNext
  <2>2. CASE UNCHANGED tvars
    BY <2>2 DEF tvars, TokensInv, TokensTypeOK, Manifests, EntriesHold, EntryHolds, InForce, Interned
  <2> QED
    BY <2>1, <2>2
<1> QED
  BY <1>1, <1>2, PTL DEF TokensSpec

-----------------------------------------------------------------------------
(* What a read returns.                                                    *)

\* The values in a text.
ValuesIn(s) == {s[j].val : j \in {k \in DOMAIN s : s[k] \notin Char}}

LEMMA TokenShowsNothing == \A h \in Handle : ValuesIn(Token(h)) = {}
<1> SUFFICES ASSUME NEW h \in Handle PROVE ValuesIn(Token(h)) = {}
  OBVIOUS
<1>1. {LB, RB, LitEnd, h} \subseteq Char
  BY DEF Char
<1> HIDE DEF Char
<1>2. CASE h \in Literal
  <2>1. Token(h) = <<h, LitEnd>>
    BY <1>2 DEF Token
  <2>2. \A k \in DOMAIN <<h, LitEnd>> : <<h, LitEnd>>[k] \in {h, LitEnd}
    OBVIOUS
  <2> QED
    BY <1>1, <2>1, <2>2 DEF ValuesIn
<1>3. CASE h \notin Literal
  <2>1. Token(h) = <<LB, h, RB>>
    BY <1>3 DEF Token
  <2>2. \A k \in DOMAIN <<LB, h, RB>> : <<LB, h, RB>>[k] \in {LB, h, RB}
    OBVIOUS
  <2> QED
    BY <1>1, <2>1, <2>2 DEF ValuesIn
<1> QED
  BY <1>2, <1>3

LEMMA ShownShowsValue ==
    ASSUME NEW h \in Handle, NEW v \in Val, NEW esc \in BOOLEAN, NEW mark \in BOOLEAN
    PROVE  ValuesIn(<<Shown(h, v, esc, mark)>>) = {v}
<1> PICK c : c = Shown(h, v, esc, mark)
  OBVIOUS
<1>1. c \notin Char /\ c.val = v
  BY UnmaskAssumption DEF Shown
<1>2. DOMAIN <<c>> = {1} /\ <<c>>[1] = c
  OBVIOUS
<1>3. ValuesIn(<<c>>) = {c.val}
  BY <1>1, <1>2 DEF ValuesIn
<1> QED
  BY <1>1, <1>3

\* The reply to a token of the grammar: the token, or its plaintext where that may go.
LEMMA TokenReply ==
    ASSUME NEW t \in Turn, NEW h \in Handle \ Literal, NEW ctx \in Context,
           LookOf(t).plain[h] \in Val \cup {None}
    PROVE  /\ Reply(h, ctx, LookOf(t)) \subseteq
                 IF \/ h \in BrokerHandle \/ LookOf(t).plain[h] = None
                    \/ h \in LookOf(t).local /\ ctx # "display" /\ h \notin promoted
                 THEN {} ELSE {LookOf(t).plain[h]}
           /\ h \notin BrokerHandle /\ LookOf(t).plain[h] # None
                 => Reply(h, "display", LookOf(t)) = {LookOf(t).plain[h]}
<1> PICK look : look = LookOf(t)
  OBVIOUS
<1>1. look.promoted = promoted
  BY DEF LookOf
<1> PICK s : s = Token(h)
  OBVIOUS
<1>2. s[2] = h
  BY DEF Token
<1>3. Reply(h, ctx, look) = ValuesIn(UnmaskToken(s, 1, ctx, "leaf", FALSE, look))
  BY DEF Reply, ValuesIn
<1>4. Reply(h, "display", look) = ValuesIn(UnmaskToken(s, 1, "display", "leaf", FALSE, look))
  BY DEF Reply, ValuesIn
<1>5. ValuesIn(s) = {}
  BY TokenShowsNothing
<1>6. look.plain[h] # None => ValuesIn(<<Shown(h, look.plain[h], FALSE, FALSE)>>) = {look.plain[h]}
  BY ShownShowsValue
<1>7. ASSUME look.plain[h] # None
      PROVE  ValuesIn(GateTool(s, 1, "leaf", look)) \subseteq {look.plain[h]}
  <2> DEFINE mode == WholeValueMode(s, 1, "leaf")
             esc == CASE Restore[h] = "whole" -> mode = "quoted" [] OTHER -> "leaf" = "raw"
  <2>1. esc \in BOOLEAN
    BY Zenon
  <2>2. \/ GateTool(s, 1, "leaf", look) = s
        \/ GateTool(s, 1, "leaf", look) = <<Shown(h, look.plain[h], esc, FALSE)>>
    <3>1. s[1 + 1] = h
      BY <1>2
    <3>2. GateTool(s, 1, "leaf", look) =
             IF \/ Gated(s[1 + 1]) \/ look.plain[s[1 + 1]] = None
                \/ Restore[s[1 + 1]] = "whole" /\ mode = "none"
             THEN Token(s[1 + 1])
             ELSE <<Shown(s[1 + 1], look.plain[s[1 + 1]],
                          CASE Restore[s[1 + 1]] = "whole" -> mode = "quoted" [] OTHER -> "leaf" = "raw",
                          FALSE)>>
      BY Zenon DEF GateTool
    <3> HIDE DEF mode
    <3> QED
      BY <3>1, <3>2, Zenon
  <2> HIDE DEF esc
  <2>3. ValuesIn(<<Shown(h, look.plain[h], esc, FALSE)>>) = {look.plain[h]}
    BY <1>7, <2>1, ShownShowsValue, ZenonT(60)
  <2> QED
    BY <1>5, <2>2, <2>3
<1>8. s[1 + 1] = h
  BY <1>2
<1>9. look.plain[h] = None => GateTool(s, 1, "leaf", look) = s
  BY <1>8, Zenon DEF GateTool
<1>10. \A c \in Context : UnmaskToken(s, 1, c, "leaf", FALSE, look) =
         IF h \in BrokerHandle \/ (h \in look.local /\ c # "display" /\ h \notin look.promoted) THEN s
         ELSE IF c = "tool" /\ h \notin look.local THEN GateTool(s, 1, "leaf", look)
         ELSE IF look.plain[h] = None THEN s
         ELSE <<Shown(h, look.plain[h], FALSE, FALSE)>>
  BY <1>8, Zenon DEF UnmaskToken
<1>11. Reply(h, ctx, look) \subseteq
          IF \/ h \in BrokerHandle \/ look.plain[h] = None
             \/ h \in look.local /\ ctx # "display" /\ h \notin promoted
          THEN {} ELSE {look.plain[h]}
  <2>1. CASE h \in BrokerHandle \/ (h \in look.local /\ ctx # "display" /\ h \notin promoted)
    <3>1. UnmaskToken(s, 1, ctx, "leaf", FALSE, look) = s
      BY <1>1, <1>10, <2>1
    <3> QED
      BY <1>3, <1>5, <3>1
  <2>2. CASE look.plain[h] = None
    <3>1. UnmaskToken(s, 1, ctx, "leaf", FALSE, look) = s
      BY <1>9, <1>10, <2>2
    <3> QED
      BY <1>3, <1>5, <3>1
  <2>3. CASE /\ look.plain[h] # None
             /\ ~(h \in BrokerHandle \/ (h \in look.local /\ ctx # "display" /\ h \notin promoted))
    <3>1. UnmaskToken(s, 1, ctx, "leaf", FALSE, look)
             \in {GateTool(s, 1, "leaf", look), <<Shown(h, look.plain[h], FALSE, FALSE)>>}
      BY <1>1, <1>10, <2>3
    <3>2. Reply(h, ctx, look) \subseteq {look.plain[h]}
      BY <1>3, <1>6, <1>7, <2>3, <3>1
    <3> QED
      BY <2>3, <3>2
  <2> QED
    BY <2>1, <2>2, <2>3
<1>12. ASSUME h \notin BrokerHandle, look.plain[h] # None
       PROVE  Reply(h, "display", look) = {look.plain[h]}
  <2>1. UnmaskToken(s, 1, "display", "leaf", FALSE, look) = <<Shown(h, look.plain[h], FALSE, FALSE)>>
    BY <1>10, <1>12 DEF Context
  <2> QED
    BY <1>4, <1>6, <1>12, <2>1
<1> QED
  BY <1>11, <1>12

\* The reply to a literal token: its value in the turn that minted it, never in a tool call.
LEMMA LiteralReply ==
    ASSUME TokensInv, NEW t \in Turn, NEW h \in Literal, NEW ctx \in Context
    PROVE  /\ Reply(h, ctx, LookOf(t)) \subseteq
                 IF ctx # "tool" /\ h \in DOMAIN man[t] THEN {man[t][h].val} ELSE {}
           /\ h \in DOMAIN man[t] => Reply(h, "display", LookOf(t)) = {man[t][h].val}
<1> PICK look : look = LookOf(t)
  OBVIOUS
<1>1. h \in Handle
  BY UnmaskAssumption
<1>2. look.literal[h] = IF h \in DOMAIN man[t] THEN man[t][h].val ELSE None
  BY <1>1 DEF LookOf
<1>3. \A c \in Context : Reply(h, c, look) = ValuesIn(UnmaskLiteral(h, c, FALSE, look))
  BY DEF Reply, ValuesIn
<1>4. \A c \in Context : UnmaskLiteral(h, c, FALSE, look) =
         IF c = "tool" \/ look.literal[h] = None THEN Token(h)
         ELSE <<Shown(h, look.literal[h], FALSE, FALSE)>>
  BY Zenon DEF UnmaskLiteral
<1>5. ValuesIn(Token(h)) = {}
  BY <1>1, TokenShowsNothing
<1>6. CASE h \in DOMAIN man[t]
  <2>1. man[t][h].val \in Val /\ man[t][h].val # None
    BY <1>6, TokensAssumption DEF TokensInv, TokensTypeOK, Entry
  <2>2. look.literal[h] = man[t][h].val /\ look.literal[h] # None
    BY <1>2, <1>6, <2>1
  <2>3. ValuesIn(<<Shown(h, look.literal[h], FALSE, FALSE)>>) = {man[t][h].val}
    BY <1>1, <2>1, <2>2, ShownShowsValue
  <2>4. \A c \in Context : Reply(h, c, look) = IF c = "tool" THEN {} ELSE {man[t][h].val}
    BY <1>3, <1>4, <1>5, <2>2, <2>3
  <2> QED
    BY <1>6, <2>4 DEF Context
<1>7. CASE h \notin DOMAIN man[t]
  BY <1>2, <1>3, <1>4, <1>5, <1>7
<1> QED
  BY <1>6, <1>7

\* An entry's prefix and kind tell the same.
LEMMA EntryKind ==
    ASSUME NEW h, NEW e, EntryHolds(h, e)
    PROVE  /\ e.val \in Val /\ e.val # None /\ e.kind \in KindsOf(e.val)
           /\ h = MakeToken(e.kind, e.val)
           /\ h \in Handle
           /\ (h \in BrokerHandle) <=> (e.kind = "broker")
           /\ (h \in Literal) <=> (e.kind = "fixed")
           /\ e.kind \in {"pii", "broker", "local", "fixed"}
<1>1. e.val \in Val /\ e.kind \in KindsOf(e.val) /\ h = MakeToken(e.kind, e.val)
  BY DEF EntryHolds, EntryIn, Entry
<1>2. e.kind \in {"pii", "broker", "local", "fixed"}
  BY <1>1, KindsFacts
<1> QED
  BY <1>1, <1>2, TokensAssumption

\* Two entries of one handle outside the literals are one.
LEMMA OneEntry ==
    ASSUME NEW h, h \notin Literal, NEW e, EntryHolds(h, e), NEW f, EntryHolds(h, f)
    PROVE  e.val = f.val /\ e.kind = f.kind
<1>1. PICK v \in Val : \E k \in KindsOf(v) :
         e.val = v /\ e.kind = k /\ h = MakeToken(k, v) /\ k # "fixed"
  BY EntryKind
<1>2. PICK w \in Val : \E l \in KindsOf(w) : f.val = w /\ f.kind = l /\ h = MakeToken(l, w)
  BY EntryKind
<1>3. \A k \in KindsOf(v), l \in KindsOf(w) :
         MakeToken(k, v) = MakeToken(l, w) /\ k # "fixed" => v = w /\ k = l
  BY TokensAssumption
<1> QED
  BY <1>1, <1>2, <1>3

\* What a turn looks up is an entry, the manifest's first.
LEMMA LookFacts ==
    ASSUME TokensInv, NEW t \in Turn, NEW h \in Handle
    PROVE  /\ LookOf(t).plain[h] \in Val \cup {None}
           /\ LookOf(t).plain[h] # None =>
                 \E e : /\ EntryHolds(h, e) /\ e.val = LookOf(t).plain[h]
                        /\ e.kind = "local" <=> h \in LookOf(t).local
<1>1. CASE h \in DOMAIN man[t]
  <2>1. EntryHolds(h, man[t][h])
    BY <1>1 DEF TokensInv, EntriesHold
  <2>2. man[t][h].val \in Val
    BY <2>1, EntryKind
  <2>3. LookOf(t).plain[h] = man[t][h].val
    BY <1>1 DEF LookOf
  <2>4. h \in LookOf(t).local <=> man[t][h].kind = "local"
    BY <1>1 DEF LookOf
  <2> QED
    BY <2>1, <2>2, <2>3, <2>4
<1>2. CASE h \notin DOMAIN man[t] /\ h \in DOMAIN store
  <2>1. EntryHolds(h, store[h])
    BY <1>2 DEF TokensInv, EntriesHold
  <2>2. store[h].val \in Val
    BY <2>1, EntryKind
  <2>3. LookOf(t).plain[h] = IF store[h].kind # "broker" THEN store[h].val ELSE None
    BY <1>2 DEF LookOf
  <2>4. h \in LookOf(t).local <=> store[h].kind = "local"
    BY <1>2 DEF LookOf
  <2> QED
    BY <2>1, <2>2, <2>3, <2>4
<1>3. CASE h \notin DOMAIN man[t] /\ h \notin DOMAIN store
  BY <1>3 DEF LookOf
<1> QED
  BY <1>1, <1>2, <1>3

\* A value in a reply to the token of h is that of an entry of h that is not brokered;
\* outside the display an owner-revealed one was promoted.
MeantFor(h, ctx, v) ==
    \E e : /\ EntryHolds(h, e) /\ e.val = v /\ e.kind # "broker"
           /\ e.kind = "local" /\ ctx # "display" => h \in promoted

LEMMA ReplyFacts ==
    ASSUME TokensInv, NEW t \in Turn, NEW h \in Handle, NEW ctx \in Context,
           NEW v \in Reply(h, ctx, LookOf(t))
    PROVE  MeantFor(h, ctx, v)
<1>1. CASE h \in Literal
  <2>1. h \in DOMAIN man[t] /\ v = man[t][h].val
    BY <1>1, LiteralReply
  <2>2. EntryHolds(h, man[t][h])
    BY <2>1 DEF TokensInv, EntriesHold
  <2>3. man[t][h].kind = "fixed"
    BY <1>1, <2>2, EntryKind
  <2> QED
    BY <2>1, <2>2, <2>3 DEF MeantFor
<1>2. CASE h \notin Literal
  <2> PICK p : p = LookOf(t).plain[h]
    OBVIOUS
  <2>1. p \in Val \cup {None}
    BY LookFacts
  <2>2. Reply(h, ctx, LookOf(t)) \subseteq
           IF \/ h \in BrokerHandle \/ p = None
              \/ h \in LookOf(t).local /\ ctx # "display" /\ h \notin promoted
           THEN {} ELSE {p}
    BY <1>2, <2>1, TokenReply
  <2>3. /\ v = p /\ p # None /\ h \notin BrokerHandle
        /\ h \in LookOf(t).local /\ ctx # "display" => h \in promoted
    BY <2>2
  <2>4. PICK e : EntryHolds(h, e) /\ e.val = p /\ (e.kind = "local" <=> h \in LookOf(t).local)
    BY <2>3, LookFacts
  <2>5. e.kind # "broker"
    BY <2>3, <2>4, EntryKind
  <2> QED
    BY <2>3, <2>4, <2>5 DEF MeantFor
<1> QED
  BY <1>1, <1>2

-----------------------------------------------------------------------------
(* Tokens mean one thing.                                                  *)

LEMMA InvRoundTrip == TokensInv => RoundTrip
<1> SUFFICES ASSUME TokensInv, NEW u \in Turn
             PROVE  /\ \A t \in Turn : \A h \in DOMAIN man[t] \ BrokerHandle :
                          t = u \/ h \notin Literal \cup tombs =>
                             Reply(h, "display", LookOf(u)) = {man[t][h].val}
                    /\ \A h \in Handle \ Literal : \A v \in Reply(h, "display", LookOf(u)) :
                          \E k \in {"pii", "local"} : MakeToken(k, v) = h
  BY DEF RoundTrip
<1>1. ASSUME NEW t \in Turn, NEW h \in DOMAIN man[t] \ BrokerHandle,
             t = u \/ h \notin Literal \cup tombs
      PROVE  Reply(h, "display", LookOf(u)) = {man[t][h].val}
  <2>1. EntryHolds(h, man[t][h])
    BY DEF TokensInv, EntriesHold
  <2>2. h \in Handle /\ man[t][h].val # None
    BY <2>1, EntryKind
  <2>3. "display" \in Context
    BY DEF Context
  <2>4. CASE h \in Literal
    BY <1>1, <2>3, <2>4, LiteralReply
  <2>5. CASE h \notin Literal
    <3> PICK p : p = LookOf(u).plain[h]
      OBVIOUS
    <3>1. p = man[t][h].val
      <4>1. CASE h \in DOMAIN man[u]
        <5>1. EntryHolds(h, man[u][h])
          BY <4>1 DEF TokensInv, EntriesHold
        <5>2. p = man[u][h].val
          BY <2>2, <4>1 DEF LookOf
        <5> QED
          BY <2>1, <2>5, <5>1, <5>2, OneEntry
      <4>2. CASE h \notin DOMAIN man[u]
        <5>1. h \in DOMAIN store
          BY <1>1, <4>2 DEF TokensInv, Interned
        <5>2. EntryHolds(h, store[h])
          BY <5>1 DEF TokensInv, EntriesHold
        <5>3. store[h].kind # "broker"
          BY <5>2, EntryKind
        <5>4. p = store[h].val
          BY <2>2, <4>2, <5>1, <5>3 DEF LookOf
        <5> QED
          BY <2>1, <2>5, <5>2, <5>4, OneEntry
      <4> QED
        BY <4>1, <4>2
    <3>2. p # None /\ p \in Val \cup {None}
      BY <2>2, <3>1, LookFacts
    <3> QED
      BY <2>2, <2>3, <2>5, <3>1, <3>2, TokenReply
  <2> QED
    BY <2>4, <2>5
<1>2. ASSUME NEW h \in Handle \ Literal, NEW v \in Reply(h, "display", LookOf(u))
      PROVE  \E k \in {"pii", "local"} : MakeToken(k, v) = h
  <2>1. MeantFor(h, "display", v)
    BY ReplyFacts DEF Context
  <2>2. PICK e : EntryHolds(h, e) /\ e.val = v /\ e.kind # "broker"
    BY <2>1 DEF MeantFor
  <2>3. e.kind \in {"pii", "local"} /\ h = MakeToken(e.kind, v)
    BY <2>2, EntryKind
  <2> QED
    BY <2>3
<1> QED
  BY <1>1, <1>2

\* A value of the admin key's comes from the admin key's token.
LEMMA AdminFromItsToken ==
    ASSUME NEW h, NEW e, EntryHolds(h, e), e.val \in AdminKeys
    PROVE  e.kind = "local" /\ h = MakeToken("local", e.val) /\ h \notin Literal
  BY EntryKind, KindsFacts

LEMMA InvSeedCoversLocal == TokensInv => SeedCoversLocal
<1> SUFFICES ASSUME TokensInv, NEW t \in Turn, NEW h \in Handle \ tombs,
                    NEW v \in Reply(h, "display", LookOf(t)) \cap AdminKeys
             PROVE  v \in seed
  BY DEF SeedCoversLocal
<1>1. MeantFor(h, "display", v)
  BY ReplyFacts DEF Context
<1>2. PICK e : EntryHolds(h, e) /\ e.val = v
  BY <1>1 DEF MeantFor
<1>3. h = MakeToken("local", v)
  BY <1>2, AdminFromItsToken
<1> QED
  BY <1>3 DEF TokensInv, Interned

LEMMA InvNoReintern == TokensInv => NoReintern
  BY DEF TokensInv, Interned, NoReintern, RevealAudit, BrokerResolve

\* Tokens mean one thing for ever: a turn restores what it masked and the others agree with it,
\* no later masking, install or resolve brings a deleted token back, and the capture seed
\* names every owner-revealed value a reply can show (mask, resolve_and_install, delete,
\* unmask_inner over any number of turns and restarts).
THEOREM TokensAreSound == TokensSpec => []TokensSound
<1>1. TokensInv => TokensSound
  BY InvRoundTrip, InvSeedCoversLocal, InvNoReintern DEF TokensInv, TokensSound
<1> QED
  BY <1>1, TokensSpecInv, PTL

-----------------------------------------------------------------------------
(* Tokens reach only who they are meant for.                               *)

LEMMA InvBrokerSealed == TokensInv => BrokerSealed
<1> SUFFICES ASSUME TokensInv, NEW t \in Turn, NEW h \in Handle, NEW ctx \in Context,
                    NEW v \in Reply(h, ctx, LookOf(t)) \cup RevealAudit(h),
                    v \in rules, SecretOp[v] = "broker"
             PROVE  v \in early /\ v \notin Required
  BY DEF BrokerSealed
<1>1. PICK e : EntryHolds(h, e) /\ e.val = v /\ e.kind # "broker"
  <2>1. CASE v \in Reply(h, ctx, LookOf(t))
    BY <2>1, ReplyFacts DEF MeantFor
  <2>2. CASE v \in RevealAudit(h)
    <3>1. h \in DOMAIN store /\ store[h].kind # "broker" /\ v = store[h].val
      BY <2>2 DEF RevealAudit
    <3>2. EntryHolds(h, store[h])
      BY <3>1 DEF TokensInv, EntriesHold
    <3> QED
      BY <3>1, <3>2
  <2> QED
    BY <2>1, <2>2
<1>2. e.kind \in {"pii", "fixed"}
  BY <1>1, EntryKind, KindsFacts
<1>3. v \in early
  BY <1>1, <1>2 DEF EntryHolds, EntryIn
<1> QED
  BY <1>3 DEF TokensInv, InForce

LEMMA InvLocalStaysHome == TokensInv => LocalStaysHome
<1> SUFFICES ASSUME TokensInv, NEW t \in Turn, NEW h \in Handle
             PROVE  /\ \A v \in Reply(h, "other", LookOf(t)) \cup Reply(h, "tool", LookOf(t)) :
                          v \in AdminKeys => h \in promoted /\ h = MakeToken("local", v)
                    /\ \A c \in Calls : BrokerResolve(h, c) \cap AdminKeys = {}
  BY DEF LocalStaysHome
<1>1. ASSUME NEW ctx \in {"other", "tool"}, NEW v \in Reply(h, ctx, LookOf(t)), v \in AdminKeys
      PROVE  h \in promoted /\ h = MakeToken("local", v)
  <2>1. MeantFor(h, ctx, v)
    BY <1>1, ReplyFacts DEF Context
  <2>2. PICK e : /\ EntryHolds(h, e) /\ e.val = v
                 /\ e.kind = "local" /\ ctx # "display" => h \in promoted
    BY <2>1 DEF MeantFor
  <2>3. e.kind = "local" /\ h = MakeToken("local", v)
    BY <1>1, <2>2, AdminFromItsToken
  <2> QED
    BY <2>2, <2>3
<1>2. ASSUME NEW c \in Calls, NEW v \in BrokerResolve(h, c), v \in AdminKeys
      PROVE  FALSE
  <2>1. h \in DOMAIN store /\ store[h].kind = "broker" /\ v = store[h].val
    BY DEF BrokerResolve
  <2>2. EntryHolds(h, store[h])
    BY <2>1 DEF TokensInv, EntriesHold
  <2> QED
    BY <1>2, <2>1, <2>2, AdminFromItsToken
<1> QED
  BY <1>1, <1>2

LEMMA InvBrokerBounded == TokensInv => BrokerBounded
<1> SUFFICES ASSUME TokensInv, NEW h \in Handle, NEW c \in Calls, NEW v \in BrokerResolve(h, c)
             PROVE  /\ c.tool \notin Egress \cup Opaque
                    /\ v \in installed /\ SecretOp[v] = "broker"
                    /\ \E i \in DOMAIN brokerPolicy :
                          brokerPolicy[i].secret \in {v, None} /\ brokerPolicy[i].tool = c.tool
  BY DEF BrokerBounded
<1>1. h \in DOMAIN store /\ store[h].kind = "broker" /\ v = store[h].val /\ Decide(v, c)
  BY DEF BrokerResolve
<1>2. EntryHolds(h, store[h])
  BY <1>1 DEF TokensInv, EntriesHold
<1>3. v \in installed
  BY <1>1, <1>2 DEF EntryHolds, EntryIn
<1>4. SecretOp[v] = "broker"
  BY <1>1, <1>2, EntryKind, KindsFacts
<1>5. /\ c.tool \notin Egress \cup Opaque
      /\ {i \in DOMAIN brokerPolicy : Matches(brokerPolicy[i], v, c)} # {}
  BY <1>1 DEF Decide
<1> QED
  BY <1>3, <1>4, <1>5 DEF Matches

\* No reader gets a value that was not meant for it: a required brokered secret reaches no text,
\* the admin key leaves the display only once promoted, and the tool boundary gives a brokered
\* value only to the tool a rule names (unmask_inner, reveal_audit, broker_resolve_leaf).
THEOREM NothingReachesAnother == TokensSpec => []NothingEscapes
<1>1. TokensInv => NothingEscapes
  BY InvBrokerSealed, InvLocalStaysHome, InvBrokerBounded DEF NothingEscapes
<1> QED
  BY <1>1, TokensSpecInv, PTL

=============================================================================
