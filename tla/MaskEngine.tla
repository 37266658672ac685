----------------------------- MODULE MaskEngine -----------------------------
(***************************************************************************)
(* The masking engine of crates/sordino-engine/src/lib.rs with its         *)
(* detection cache (cache.rs), its hot-loaded ML slot and the control      *)
(* plane's writers of both (proxy admin.rs, ml.rs).                        *)
(*                                                                         *)
(* Request threads run mask, mask_when_disabled and prewarm_batch.  Each   *)
(* takes its snapshots of the policy, of the registered secrets and of the *)
(* ML slot under separate short locks and then works without any of them,  *)
(* so the control plane may change everything between two of its steps.    *)
(*                                                                         *)
(* A text is the set of sensitive atoms it contains; a detection list is   *)
(* the set of atoms detected; what leaves the machine is the set of atoms  *)
(* left in plaintext.                                                      *)
(***************************************************************************)
EXTENDS Integers, FiniteSets

CONSTANTS
  Threads,       \* the blocking-pool threads that mask requests
  Leaves,        \* the text leaves requests carry
  Outer,         \* Outer[l]: the atoms of l outside its >>...<< span
  Bypassed,      \* Bypassed[l]: the atoms inside it
  Marked,        \* the leaves that are user messages with such a span
  Surface,       \* Surface[l]: the surface label of l
  Secrets,       \* the atoms that may be registered as secrets
  RegexPii,      \* the atoms the regex analyzer finds
  DateOf,        \* the atoms that are calendar dates, with their day
  Models,        \* the ML model parameters a config may name
  Finds,         \* Finds[m]: the atoms model m finds
  Configs,       \* the policies the control plane may write
  Boot,          \* the policy at boot
  BootMl,        \* the [engine.ml] sections the proxy may boot with
  Admin,         \* the secrets installed at boot (the admin key)
  NoModel,       \* no recognizer
  Free,          \* nobody holds the gate
  MaxDets,       \* MAX_CACHED_DETECTIONS
  MaxWrites,     \* bound: control-plane writes
  MaxCalls,      \* bound: calls started
  MaxDay         \* bound: midnights

VARIABLES
  policy,        \* engine.policy
  secrets,       \* engine.secrets
  cache,         \* engine.cache: a set of [key, dets]
  cap,           \* engine.cache.cap
  gate,          \* the holder of engine.ml_gate
  ml,            \* engine.ml
  intent,        \* the [engine.ml] section of the config last written
  adm,           \* the control-plane writer inside config_control/ml_control
  loads,         \* the background load tasks in flight
  today,         \* the wall clock, in days
  call,          \* the call each thread is running
  writes, calls  \* counters for the bounds

engineVars == <<policy, secrets, cache, cap, gate>>
mlVars == <<ml, intent, adm, loads>>
counters == <<writes, calls>>
maskVars == <<policy, secrets, cache, cap, gate, ml, intent, adm, loads,
              today, call, writes, calls>>

Atoms == Secrets \cup RegexPii \cup UNION {Finds[m] : m \in Models}
PolicyType == [enabled : BOOLEAN, off : SUBSET {Surface[l] : l \in Leaves},
               rules : SUBSET Atoms, preserve : BOOLEAN,
               keep : BOOLEAN, cap : Nat]

\* An [engine.ml] section: off, or a model and its effective required flag.
NoWant == [on |-> FALSE, model |-> NoModel, req |-> FALSE]

Wants == [on : {TRUE}, model : Models, req : BOOLEAN]

ASSUME EngineAssumption ==
  /\ Outer \in [Leaves -> SUBSET Atoms]
  /\ Bypassed \in [Leaves -> SUBSET Atoms]
  /\ Marked \subseteq Leaves
  /\ Finds \in [Models -> SUBSET Atoms]
  /\ NoModel \notin Models
  /\ Free \notin Threads
  /\ \A l \in Leaves \ Marked : Bypassed[l] = {}
  /\ Configs \subseteq PolicyType
  /\ Boot \in PolicyType
  /\ BootMl \subseteq Wants \cup {NoWant}
  /\ Admin \subseteq Secrets
  /\ MaxDets \in Nat /\ MaxDay \in Nat
  /\ \A a \in DOMAIN DateOf : DateOf[a] \in Int

-----------------------------------------------------------------------------
(* Detection: run_detection with its four passes.                          *)

\* is_near_now_date: within NEAR_NOW_WINDOW_DAYS of today.
NearNow(a, day) ==
  /\ a \in DOMAIN DateOf
  /\ DateOf[a] - day \in -1..1

\* The policy part of detection: a category gate, and a near-now date that
\* is_suppressed lets through.  Registered secrets are exempt from both.
Detect(text, rules, preserve, sec, model, day) ==
  {a \in text :
     \/ a \in sec
     \/ /\ a \in rules
        /\ a \in RegexPii \/ (model # NoModel /\ a \in Finds[model])
        /\ ~(preserve /\ NearNow(a, day))}

\* apply: a registered secret carries its own operator and is always replaced;
\* for any other detection the operator of the policy snapshot decides, and
\* Keep leaves the plaintext.
LeftPlain(text, dets, keep, sec) ==
  {a \in text : a \notin dets \/ (keep /\ a \notin sec)}

-----------------------------------------------------------------------------
(* The detection cache.                                                    *)

\* Deviation: the registered-secret set is not part of the key.
KeyWithoutSecrets(c, l) ==
  [text |-> Outer[l], surface |-> Surface[l],
   rules |-> c.pol.rules, preserve |-> c.pol.preserve,
   ml |-> c.rec, secrets |-> {},
   bucket |-> IF c.pol.preserve THEN c.day ELSE 0]

\* CacheKey as mask and prewarm_batch derive it from a call's snapshots.
Key(c, l) ==
  [text |-> Outer[l], surface |-> Surface[l],
   rules |-> c.pol.rules, preserve |-> c.pol.preserve,     \* policy_fp
   ml |-> c.rec,                                           \* ml_fp
   secrets |-> c.sec,                                      \* secrets_fp
   bucket |-> IF c.pol.preserve THEN c.day ELSE 0]         \* today_bucket

Cached(k) == {e \in cache : e.key = k}

\* DetectionCache::get
Hits(k) == IF cap = 0 THEN {} ELSE Cached(k)

\* lru::LruCache keeps `keep` of the entries `from` when it holds at most n;
\* which ones it evicts is left open.
Evict(from, n, keep) ==
  /\ keep \subseteq from
  /\ IF Cardinality(from) <= n THEN keep = from ELSE Cardinality(keep) = n

\* DetectionCache::insert, with cap read inside the lock.
CacheInsert(k, dets) ==
  IF cap = 0 \/ Cardinality(dets) > MaxDets
    THEN cache' = cache
    ELSE \E keep \in SUBSET (cache \ Cached(k)) :
           /\ Evict(cache \ Cached(k), cap - 1, keep)
           /\ cache' = keep \cup {[key |-> k, dets |-> dets]}

-----------------------------------------------------------------------------
(* A call.  pc names the step it takes next; the other fields are the      *)
(* locals of mask.  strict and start are history variables: strict says    *)
(* that a required ML section was fully applied when the call began and no *)
(* write has begun since, start is the secret set installed at that time.  *)

NoPolicy == [enabled |-> FALSE, off |-> {}, rules |-> {}, preserve |-> FALSE,
             keep |-> FALSE, cap |-> 0]

Idle == [pc |-> "idle", kind |-> "mask", leaves |-> {}, bypass |-> {},
         pol |-> NoPolicy, sec |-> {}, rec |-> NoModel, gen |-> 0, day |-> 0,
         dets |-> {}, seen |-> 0, out |-> {}, ok |-> TRUE, scanned |-> FALSE,
         strict |-> FALSE, start |-> {}]

TheLeaf(c) == CHOOSE l \in c.leaves : TRUE

Running(c) == c.pc \notin {"idle", "done"}

\* The call returns; the locals no property reads go out of scope.
Return(c) == [c EXCEPT !.pc = "done", !.gen = 0, !.seen = 0, !.dets = {}]

\* The call ends with an error: the proxy refuses the request.
Refuse(t) ==
  call' = [call EXCEPT ![t] = [Return(call[t]) EXCEPT !.ok = FALSE]]

\* The `>>...<<` span of a marked leaf: registered secrets in it are still
\* masked, by the set mask_user_bypass read before it masked the rest.
BypassPlain(c) ==
  IF TheLeaf(c) \in Marked THEN Bypassed[TheLeaf(c)] \ c.bypass ELSE {}

\* mask, mask_when_disabled and prewarm_batch are entered.  prewarm_batch is
\* handed every leaf of the request.
Start(t, kind, ls) ==
  /\ ~Running(call[t])
  /\ calls < MaxCalls
  /\ IF kind = "prewarm" THEN ls = Leaves ELSE \E l \in Leaves : ls = {l}
  /\ calls' = calls + 1
  /\ call' = [call EXCEPT ![t] =
       [Idle EXCEPT !.pc = IF kind = "mask" /\ ls \subseteq Marked
                             THEN "bypass" ELSE "policy",
                    !.kind = kind, !.leaves = ls, !.start = secrets,
                    !.strict = adm.pc = "idle" /\ intent.on /\ intent.req]]
  /\ UNCHANGED <<engineVars, mlVars, today, writes>>

\* mask_user_bypass: the snapshot for the bypassed span.
SnapBypass(t) ==
  /\ call[t].pc = "bypass"
  /\ call' = [call EXCEPT ![t].bypass = secrets, ![t].pc = "policy"]
  /\ UNCHANGED <<engineVars, mlVars, today, counters>>

SnapPolicy(t) ==
  /\ call[t].pc = "policy"
  /\ call' = [call EXCEPT
       ![t].pol = policy,
       ![t].pc = IF call[t].kind = "prewarm" /\ ~policy.enabled
                   THEN "done" ELSE "secrets"]
  /\ UNCHANGED <<engineVars, mlVars, today, counters>>

\* Masking is off for this leaf: by the master switch, by its surface, or for
\* the whole conversation (mask_when_disabled).
Disabled(c) ==
  \/ c.kind = "off"
  \/ c.kind = "mask" /\ (~c.pol.enabled \/ Surface[TheLeaf(c)] \in c.pol.off)

\* Deviation: the disabled path forwards the text as it is.
DisabledPlainAll(c) ==
  Outer[TheLeaf(c)] \cup Bypassed[TheLeaf(c)]

\* mask_disabled_path: everything but the registered secrets goes through.
\* mask_when_disabled strips the markers and scans the whole text;
\* mask has scanned the bypassed span separately.
DisabledPlain(c) ==
  IF c.kind = "off"
    THEN (Outer[TheLeaf(c)] \cup Bypassed[TheLeaf(c)]) \ c.sec
    ELSE (Outer[TheLeaf(c)] \ c.sec) \cup BypassPlain(c)

SnapSecrets(t) ==
  LET c == [call[t] EXCEPT !.sec = secrets] IN
  /\ call[t].pc = "secrets"
  /\ call' = [call EXCEPT ![t] =
       IF Disabled(c)
         THEN [Return(c) EXCEPT !.out = DisabledPlain(c)]
         ELSE [c EXCEPT !.pc = "ml"]]
  /\ UNCHANGED <<engineVars, mlVars, today, counters>>

\* Deviation: only a failed load refuses.
MlRefusesFailed ==
  ml.desired.on /\ ml.desired.req /\ ml.status = "failed"

\* ml_for_mask's refusal: required, enabled, and not Ready.
MlRefuses ==
  ml.desired.on /\ ml.desired.req /\ ml.status # "ready"

\* The ML snapshot (one read lock) and the day that goes into the key.
SnapMl(t) ==
  LET c == call[t] IN
  /\ c.pc = "ml"
  /\ IF MlRefuses \/ (c.kind = "prewarm" /\ ml.status # "ready")
       THEN IF c.kind = "prewarm"
              THEN call' = [call EXCEPT ![t].pc = "done"]
              ELSE Refuse(t)
       ELSE call' = [call EXCEPT
              ![t].rec = IF ml.status = "ready" THEN ml.model ELSE NoModel,
              ![t].gen = ml.gen, ![t].day = today, ![t].scanned = TRUE,
              ![t].pc = "lookup"]
  /\ UNCHANGED <<engineVars, mlVars, today, counters>>

-----------------------------------------------------------------------------
(* mask: lookup, the gate, detection, insertion, apply.                    *)

\* The end of mask: apply over the leaf, then the bypassed span.
Finished(c, dets) ==
  [Return(c) EXCEPT
     !.out = LeftPlain(Outer[TheLeaf(c)], dets, c.pol.keep, c.sec)
               \cup BypassPlain(c)]

\* cache.get before the gate.  A miss runs detection at once when there is no
\* recognizer, and queues at the gate when there is one.
CacheLookup(t) ==
  LET c == call[t]
      hits == Hits(Key(c, TheLeaf(c)))
  IN
  /\ c.pc = "lookup" /\ c.kind = "mask"
  /\ IF hits # {}
       THEN \E e \in hits : call' = [call EXCEPT ![t] = Finished(c, e.dets)]
       ELSE call' = [call EXCEPT
              ![t].pc = IF c.rec = NoModel THEN "detect" ELSE "gate"]
  /\ UNCHANGED <<engineVars, mlVars, today, counters>>

TakeGate(t) ==
  /\ call[t].pc = "gate"
  /\ gate = Free
  /\ gate' = t
  /\ call' = [call EXCEPT ![t].pc = "recheck"]
  /\ UNCHANGED <<policy, secrets, cache, cap, mlVars, today, counters>>

\* The gate's guard goes out of scope.
Release(t) == gate' = IF gate = t THEN Free ELSE gate

\* The second cache.get, under the gate.
Recheck(t) ==
  LET c == call[t]
      hits == Hits(Key(c, TheLeaf(c)))
  IN
  /\ c.pc = "recheck" /\ c.kind = "mask"
  /\ IF hits # {}
       THEN /\ \E e \in hits : call' = [call EXCEPT ![t] = Finished(c, e.dets)]
            /\ Release(t)
       ELSE /\ call' = [call EXCEPT ![t].pc = "detect"]
            /\ UNCHANGED gate
  /\ UNCHANGED <<policy, secrets, cache, cap, mlVars, today, counters>>

DetectLeaf(c, l) ==
  Detect(Outer[l], c.pol.rules, c.pol.preserve, c.sec, c.rec, today)

\* run_detection succeeds; it reads the clock again.
DetectOk(t) ==
  LET c == call[t] IN
  /\ c.pc = "detect"
  /\ call' = [call EXCEPT
       ![t].dets = DetectLeaf(c, TheLeaf(c)),
       ![t].pc = IF c.rec = NoModel THEN "insert" ELSE "clear"]
  /\ UNCHANGED <<engineVars, mlVars, today, counters>>

\* Deviation: the note lands on whatever recognizer is in the slot.
DetectFailAnyGen(t) ==
  LET c == call[t] IN
  /\ c.pc = "detect" /\ c.rec # NoModel
  /\ ml' = [ml EXCEPT !.note = c.gen]
  /\ Refuse(t) /\ Release(t)
  /\ UNCHANGED <<policy, secrets, cache, cap, intent, adm, loads, today,
                 counters>>

\* The recognizer fails or panics: the failure is noted on the slot it came
\* from, nothing is cached, and the call is refused.
DetectFail(t) ==
  LET c == call[t] IN
  /\ c.pc = "detect" /\ c.rec # NoModel
  /\ ml' = IF ml.gen = c.gen THEN [ml EXCEPT !.note = c.gen] ELSE ml
  /\ Refuse(t) /\ Release(t)
  /\ UNCHANGED <<policy, secrets, cache, cap, intent, adm, loads, today,
                 counters>>

\* ml_clear_runtime_failure
ClearNote(t) ==
  LET c == call[t] IN
  /\ c.pc = "clear"
  /\ ml' = IF ml.gen = c.gen THEN [ml EXCEPT !.note = -1] ELSE ml
  /\ call' = [call EXCEPT ![t].pc = "insert"]
  /\ UNCHANGED <<engineVars, intent, adm, loads, today, counters>>

Insert(t) ==
  LET c == call[t] IN
  /\ c.pc = "insert"
  /\ CacheInsert(Key(c, TheLeaf(c)), c.dets)
  /\ call' = [call EXCEPT ![t] = Finished(c, c.dets)]
  /\ Release(t)
  /\ UNCHANGED <<policy, secrets, cap, mlVars, today, counters>>

-----------------------------------------------------------------------------
(* prewarm_batch: plan, the gate once for the batch, one batched forward,  *)
(* one insertion per leaf.  leaves shrinks to the leaves still pending.    *)

\* The leaves a batch covers: surface enabled, no bypassed span, not cached.
Plannable(c) ==
  {l \in c.leaves : /\ Surface[l] \notin c.pol.off
                    /\ l \notin Marked
                    /\ Hits(Key(c, l)) = {}}

PrewarmPlan(t) ==
  LET c == call[t] IN
  /\ c.pc = "lookup" /\ c.kind = "prewarm"
  /\ call' = [call EXCEPT ![t] =
       IF Plannable(c) = {}
         THEN Return(c)
         ELSE [c EXCEPT !.leaves = Plannable(c), !.pc = "gate"]]
  /\ UNCHANGED <<engineVars, mlVars, today, counters>>

\* The filter under the gate, then analyze_batch: all leaves or none.
PrewarmDetect(t, ok) ==
  LET c == call[t]
      pending == Plannable(c)
  IN
  /\ c.pc = "recheck" /\ c.kind = "prewarm"
  /\ IF ok /\ pending # {}
       THEN /\ call' = [call EXCEPT ![t].leaves = pending, ![t].seen = today,
                                    ![t].pc = "batch"]
            /\ UNCHANGED gate
       ELSE /\ call' = [call EXCEPT ![t] = Return(c)]
            /\ Release(t)
  /\ UNCHANGED <<policy, secrets, cache, cap, mlVars, today, counters>>

BatchDets(c, l) ==
  Detect(Outer[l], c.pol.rules, c.pol.preserve, c.sec, c.rec, c.seen)

PrewarmInsert(t, l) ==
  LET c == call[t] IN
  /\ c.pc = "batch" /\ l \in c.leaves
  /\ CacheInsert(Key(c, l), BatchDets(c, l))
  /\ IF c.leaves = {l}
       THEN call' = [call EXCEPT ![t] = Return(c)] /\ Release(t)
       ELSE call' = [call EXCEPT ![t].leaves = c.leaves \ {l}] /\ UNCHANGED gate
  /\ UNCHANGED <<policy, secrets, cap, mlVars, today, counters>>
-----------------------------------------------------------------------------
(* The ML slot.  A load task carries the generation ml_begin_load gave it. *)

\* ml_begin_load, called by spawn_ml_load, which then starts the task.
MlBeginLoad(w) ==
  /\ ml' = [status |-> "loading", model |-> NoModel, desired |-> w,
            gen |-> ml.gen + 1, note |-> -1]
  /\ loads' = loads \cup {[gen |-> ml.gen + 1, model |-> w.model]}

MlDisable ==
  /\ ml' = [status |-> "disabled", model |-> NoModel, desired |-> NoWant,
            gen |-> ml.gen + 1, note |-> -1]
  /\ UNCHANGED loads

MlUpdateRequired(req) ==
  /\ ml' = IF ml.desired.on THEN [ml EXCEPT !.desired.req = req] ELSE ml
  /\ UNCHANGED loads

\* Deviation: a finished load is installed whatever its generation.
LoadEndsAnyGen(ld, ok) ==
  /\ ld \in loads
  /\ loads' = loads \ {ld}
  /\ ml' = IF ok THEN [ml EXCEPT !.status = "ready", !.model = ld.model,
                                 !.note = -1]
                 ELSE [ml EXCEPT !.status = "failed", !.model = NoModel]
  /\ UNCHANGED <<engineVars, intent, adm, today, call, counters>>

\* A load task ends: ml_set_ready or ml_set_failed, for the current
\* generation only.
LoadEnds(ld, ok) ==
  /\ ld \in loads
  /\ loads' = loads \ {ld}
  /\ ml' = IF ld.gen # ml.gen THEN ml
           ELSE IF ok THEN [ml EXCEPT !.status = "ready", !.model = ld.model,
                                      !.note = -1]
           ELSE [ml EXCEPT !.status = "failed", !.model = NoModel]
  /\ UNCHANGED <<engineVars, intent, adm, today, call, counters>>

-----------------------------------------------------------------------------
(* The control plane.  A writer of the config holds config_control and     *)
(* ml_control from its first step to its last; load tasks and masking      *)
(* threads take neither.                                                   *)

Settled == [pc |-> "idle", how |-> "put", snap |-> [status |-> "disabled",
                                                    desired |-> NoWant]]

\* set_config, its policy swap.  `put` stands for PUT /config, a profile and
\* a reload: these keep ml.enabled as the slot's status has it.
ConfigWrite(how, pol, w) ==
  /\ adm.pc = "idle"
  /\ writes < MaxWrites
  /\ how # "put" => pol = policy
  /\ policy' = pol
  /\ intent' = IF how = "enable" \/ (how = "put" /\ ml.status # "disabled")
                 THEN w ELSE NoWant
  /\ adm' = [Settled EXCEPT !.pc = "cap", !.how = how]
  /\ writes' = writes + 1
  /\ call' = [t \in Threads |-> [call[t] EXCEPT !.strict = FALSE]]
  /\ UNCHANGED <<secrets, cache, cap, gate, ml, loads, today, calls>>

\* Deviation: the cap is stored one too low.
SetCapOffByOne ==
  /\ adm.pc = "cap"
  /\ cap' = policy.cap - 1
  /\ cache' = {}
  /\ adm' = [adm EXCEPT !.pc = "read"]
  /\ UNCHANGED <<policy, secrets, gate, ml, intent, loads, today, call,
                 counters>>

\* set_config's second half: cache.set_cap.
SetCap ==
  /\ adm.pc = "cap"
  /\ cap' = policy.cap
  /\ \E keep \in SUBSET cache :
       /\ Evict(cache, policy.cap, keep)
       /\ cache' = keep
  /\ adm' = [adm EXCEPT !.pc = "read"]
  /\ UNCHANGED <<policy, secrets, gate, ml, intent, loads, today, call,
                 counters>>

\* reconcile_ml's ml_snapshot.
ReconcileRead ==
  /\ adm.pc = "read"
  /\ adm' = [adm EXCEPT !.pc = "act",
                        !.snap = [status |-> ml.status, desired |-> ml.desired]]
  /\ UNCHANGED <<engineVars, ml, intent, loads, today, call, counters>>

\* Whether an enabled config needs the recognizer rebuilt.
NeedsLoad(retry) ==
  LET changed == ~adm.snap.desired.on \/ adm.snap.desired.model # intent.model
  IN CASE adm.snap.status = "disabled" -> TRUE
       [] adm.snap.status = "failed" -> retry \/ changed
       [] OTHER -> changed

\* The rest of reconcile_ml (ml_disable's own handler disables at once).
ReconcileAct ==
  /\ adm.pc = "act"
  /\ IF adm.how = "disable" \/ ~intent.on
       THEN IF adm.how = "disable" \/ adm.snap.status # "disabled"
              THEN MlDisable
              ELSE UNCHANGED <<ml, loads>>
       ELSE IF NeedsLoad(adm.how = "enable")
              THEN MlBeginLoad(intent)
              ELSE MlUpdateRequired(intent.req)
  /\ adm' = Settled
  /\ UNCHANGED <<engineVars, intent, today, call, counters>>

\* set_enabled, under config_control.
SetEnabled(on) ==
  /\ adm.pc = "idle"
  /\ writes < MaxWrites
  /\ policy.enabled # on
  /\ policy' = [policy EXCEPT !.enabled = on]
  /\ writes' = writes + 1
  /\ UNCHANGED <<secrets, cache, cap, gate, mlVars, today, call, calls>>

\* set_secret_rules: the background resolution re-installs the admin key
\* together with every secret that resolved.
SetSecretRules(set) ==
  /\ secrets = Admin
  /\ secrets \subseteq set /\ secrets # set
  /\ secrets' = set
  /\ UNCHANGED <<policy, cache, cap, gate, mlVars, today, call, counters>>

\* Midnight, UTC.
Midnight ==
  /\ today < MaxDay
  /\ today' = today + 1
  /\ UNCHANGED <<engineVars, mlVars, call, counters>>

-----------------------------------------------------------------------------

MaskInit ==
  /\ policy = Boot /\ secrets = Admin
  /\ cache = {} /\ cap = Boot.cap /\ gate = Free
  /\ intent \in BootMl
  /\ ml = [status |-> IF intent.on THEN "loading" ELSE "disabled",
           model |-> NoModel, desired |-> intent,
           gen |-> IF intent.on THEN 1 ELSE 0, note |-> -1]
  /\ loads = IF intent.on THEN {[gen |-> 1, model |-> intent.model]} ELSE {}
  /\ adm = Settled
  /\ today = 0
  /\ call = [t \in Threads |-> Idle]
  /\ writes = 0 /\ calls = 0

\* The steps of a call once it has begun.
CallStep(t) ==
  \/ SnapBypass(t) \/ SnapPolicy(t) \/ SnapSecrets(t) \/ SnapMl(t)
  \/ CacheLookup(t) \/ TakeGate(t) \/ Recheck(t)
  \/ DetectOk(t) \/ DetectFail(t) \/ ClearNote(t) \/ Insert(t)
  \/ PrewarmPlan(t)
  \/ \E ok \in BOOLEAN : PrewarmDetect(t, ok)
  \/ \E l \in Leaves : PrewarmInsert(t, l)

Control ==
  \/ \E how \in {"put", "enable", "disable"}, pol \in Configs \cup {policy},
        w \in Wants : ConfigWrite(how, pol, w)
  \/ SetCap \/ ReconcileRead \/ ReconcileAct
  \/ \E on \in BOOLEAN : SetEnabled(on)
  \/ \E set \in SUBSET Secrets : SetSecretRules(set)

MaskNext ==
  \/ \E t \in Threads, kind \in {"mask", "off", "prewarm"},
        ls \in SUBSET Leaves : Start(t, kind, ls)
  \/ \E t \in Threads : CallStep(t)
  \/ Control
  \/ \E ld \in loads, ok \in BOOLEAN : LoadEnds(ld, ok)
  \/ Midnight

\* Threads, the control plane and the load tasks are scheduled; nobody is
\* obliged to start a call or to write a config.
MaskFairness ==
  /\ \A t \in Threads : WF_maskVars(CallStep(t))
  /\ WF_maskVars(SetCap \/ ReconcileRead \/ ReconcileAct)

MaskSpec == MaskInit /\ [][MaskNext]_maskVars /\ MaskFairness

-----------------------------------------------------------------------------
(* Properties.                                                             *)

KeyType == [text : SUBSET Atoms, surface : {Surface[l] : l \in Leaves},
            rules : SUBSET Atoms, preserve : BOOLEAN,
            ml : Models \cup {NoModel}, secrets : SUBSET Secrets,
            bucket : Nat]
CallType == [pc : {"idle", "bypass", "policy", "secrets", "ml", "lookup",
                   "gate", "recheck", "detect", "clear", "insert", "batch",
                   "done"},
             kind : {"mask", "off", "prewarm"}, leaves : SUBSET Leaves,
             bypass : SUBSET Secrets, pol : PolicyType,
             sec : SUBSET Secrets, rec : Models \cup {NoModel}, gen : Nat,
             day : Nat, dets : SUBSET Atoms, seen : Nat,
             out : SUBSET Atoms, ok : BOOLEAN, scanned : BOOLEAN,
             strict : BOOLEAN, start : SUBSET Secrets]
WantType == Wants \cup {NoWant}
StatusType == {"disabled", "loading", "ready", "failed"}

\* Types of the engine's state, of the ML slot and of the calls in flight.
MaskTypeOK ==
  /\ policy \in PolicyType
  /\ secrets \in SUBSET Secrets
  /\ cache \in SUBSET [key : KeyType, dets : SUBSET Atoms]
  /\ cap \in Nat
  /\ gate \in Threads \cup {Free}
  /\ ml \in [status : StatusType, model : Models \cup {NoModel},
             desired : WantType, gen : Nat, note : Nat \cup {-1}]
  /\ intent \in WantType
  /\ adm \in [pc : {"idle", "cap", "read", "act"},
              how : {"put", "enable", "disable"},
              snap : [status : StatusType, desired : WantType]]
  /\ loads \in SUBSET [gen : Nat, model : Models]
  /\ today \in Nat
  /\ call \in [Threads -> CallType]

\* What the cache holds is what detection says for its key: the policy, the
\* secrets and the recognizer are those of the key, and the day is the key's
\* or a later one.  No swap, load, or midnight between a call's snapshots, its
\* detection and its insert makes an entry lie about its key.
CacheHonest ==
  \A e \in cache :
    \E d \in e.key.bucket..today :
      e.dets = Detect(e.key.text, e.key.rules, e.key.preserve, e.key.secrets,
                      e.key.ml, d)

\* A call that went through detection answers as if there were no cache: the
\* plaintext left is that of a fresh detection under the call's own snapshots,
\* on a day no earlier than the one the call began on.
MaskIsUncached ==
  \A t \in Threads :
    LET c == call[t] IN
    c.pc = "done" /\ c.kind = "mask" /\ c.ok /\ c.scanned =>
      \E d \in c.day..today :
        c.out = LeftPlain(Outer[TheLeaf(c)],
                          Detect(Outer[TheLeaf(c)], c.pol.rules,
                                 c.pol.preserve, c.sec, c.rec, d),
                          c.pol.keep, c.sec)
                  \cup BypassPlain(c)

\* A secret registered before a call began is not in what the call lets out:
\* not through the master switch, a disabled surface, a disabled conversation,
\* a bypassed span, a Keep operator or a cached detection.
SecretsStayMasked ==
  \A t \in Threads : call[t].pc = "done" => call[t].out \cap call[t].start = {}

\* While a required ML section is in force, no call that began under it is
\* answered by regex detection alone.
RequiredMeansMl ==
  \A t \in Threads :
    LET c == call[t] IN
    c.pc = "done" /\ c.kind = "mask" /\ c.ok /\ c.scanned /\ c.strict
      => c.rec # NoModel

\* Once a config write has returned the slot follows it, whatever loads were
\* in flight: off when it says off, else wanting exactly that model and that
\* required flag; and a ready recognizer is always of the model wanted.
SlotFollowsConfig ==
  /\ adm.pc = "idle" =>
       /\ intent.on <=> ml.status # "disabled"
       /\ intent.on => ml.desired = intent
  /\ ml.status = "ready" => ml.model = ml.desired.model

\* A runtime-failure note on the slot was left by the recognizer in the slot.
NoteIsCurrent == ml.note # -1 => ml.note = ml.gen

\* Inference runs under the gate, for one call at a time, and only for a key
\* that is not cached: concurrent misses of one leaf run the model once.
SingleFlight ==
  \A t \in Threads :
    LET c == call[t] IN
    c.pc = "detect" /\ c.rec # NoModel =>
      gate = t /\ Hits(Key(c, TheLeaf(c))) = {}

\* The slot's bookkeeping under loads and failures that end late: a note is about
\* the recognizer in the slot, and one call at a time runs an inference that is
\* still needed.
SlotIsSound ==
    /\ NoteIsCurrent
    /\ SingleFlight

\* The cache never holds more than its cap, so a cap of zero leaves it empty
\* and no late insert brings an entry back.
CacheWithinCap == Cardinality(cache) <= cap

\* The cache is invisible: an entry is what detection would find for its key, an
\* answer is that of an engine without a cache, and the cap holds whatever inserts
\* end late.
CacheSound ==
    /\ CacheHonest
    /\ MaskIsUncached
    /\ CacheWithinCap

\* Every call ends, also when inference fails under the gate.
CallsEnd == \A t \in Threads : Running(call[t]) ~> ~Running(call[t])
=============================================================================
