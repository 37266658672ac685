------------------------------- MODULE Detect -------------------------------
(***************************************************************************)
(* One leaf of a request on its way through detection: the four passes     *)
(* (registered secrets, the user's rules, the regex analyzer with its      *)
(* context boost, the ML recognizer), the gates every result meets, the    *)
(* allow-list, overlap resolution, and the splice that masks the text.     *)
(*   crates/sordino-engine/src/detect.rs   run_detection and its passes    *)
(*   crates/sordino-engine/src/config.rs   categories, operators, profiles *)
(*   crates/sordino-engine/src/lib.rs      apply                           *)
(*                                                                         *)
(* What a regular expression or a model finds is an input: a set of        *)
(* reports, each a span of the text with an entity, a score and the look   *)
(* of its slice (what the precision gates tell apart).  Scores are in      *)
(* hundredths.                                                             *)
(***************************************************************************)
EXTENDS Spans

CONSTANTS TextLength,    \* the bytes of the leaf
          SecretHits,    \* spans where a registered secret's value may stand
          RuleHits,      \* spans a rule of the user may match
          Reports,       \* what the regex analyzer's recognizers may find
          MlReports,     \* what the ML recognizer may find
          Allowed,       \* spans whose text may be on the allow-list
          Dated,         \* spans whose text may be a calendar date near now
          EngineConfigs,      \* the engine configurations
          MostFound,     \* bound: findings of each pass in one leaf
          MaxFindings    \* bound: findings in one leaf, all passes together

(* A span of the leaf; a registered secret is never empty, while a rule of  *)
(* the user may match the empty text.                                      *)
IsIn(from, to) == from \in 0..TextLength /\ to \in from..TextLength
Operators == {"token", "redact", "mask", "keep"}

ASSUME DetectAssumption ==
  /\ TextLength \in Nat
  /\ \A h \in SecretHits : IsIn(h[1], h[2]) /\ h[1] < h[2]
  /\ \A h \in RuleHits : IsIn(h[1], h[2])
  /\ \A r \in Reports \cup MlReports :
       /\ DOMAIN r = {"entity", "from", "to", "base", "context", "look"}
       /\ IsIn(r.from, r.to) /\ r.base \in Int /\ r.context \in BOOLEAN
  /\ \A p \in EngineConfigs :
       /\ p.floor \in Int /\ p.default \in Operators
       /\ \A e \in DOMAIN p.ops : p.ops[e] \in Operators
  /\ MostFound.secrets \in Nat /\ MostFound.rules \in Nat
  /\ MostFound.regex \in Nat /\ MostFound.ml \in Nat

VARIABLES engine,   \* the engine's configuration
          allow,    \* the spans whose text the allow-list allows
          dated,    \* the spans whose text is a date near now
          seen,     \* what each pass was given
          acc,      \* the detections and the allow-listed spans so far
          plan,     \* the resolved detections
          out,      \* the text as it is sent
          phase
detectVars == <<engine, allow, dated, seen, acc, plan, out, phase>>

PhoneBase == 40       \* PHONE_BASE_SCORE
ContextBoost == 35    \* CONTEXT_BOOST
Leaf == [i \in 1..TextLength |-> i]

(* The entities of the Secrets category, here.                             *)
SecretsCategory == {"API_KEY", "URL_CREDENTIAL"}

EntityEnabled(p, e) == e \in DOMAIN p.ops \/ e \in p.entities

(* An operator of the configuration, then what two types are masked with   *)
(* out of the box, then the default operator.                              *)
OperatorFor(p, e) ==
  CASE e \in DOMAIN p.ops -> p.ops[e]
    [] e \notin DOMAIN p.ops /\ e = "CVV" -> "redact"
    [] e \notin DOMAIN p.ops /\ e = "CREDIT_CARD" -> "mask"
    [] OTHER -> p.default

(* The operator is resolved when a detection is applied, from the policy   *)
(* of that moment: a cached detection has none, but for a secret's.        *)
ResolveOperator(p, d) == IF d.source = "secret" THEN "token" ELSE OperatorFor(p, d.entity)

(* What the cache key keeps of the policy.                                 *)
Fingerprint(p) == <<p.floor, p.entities, DOMAIN p.ops, p.preserve>>

NearNowSpan(p, from, to) == p.preserve /\ <<from, to>> \in dated
Suppressed(p, from, to) == <<from, to>> \in allow \/ NearNowSpan(p, from, to)

Detection(from, to, entity, score, source) ==
  [from |-> from, to |-> to, entity |-> entity, score |-> score, source |-> source]

Nothing == [dets |-> <<>>, allowed |-> {}]

(* Pass 0.                                                                 *)
SecretPass(hits) ==
  [Nothing EXCEPT !.dets =
     [i \in 1..Len(hits) |-> Detection(hits[i][1], hits[i][2], "NAME", 100, "secret")]]

(* Pass 1: a match whose text is suppressed allows its span.               *)
RulePass(p, a, hits) ==
  LET gone == {h \in Range(hits) : Suppressed(p, h[1], h[2])}
      met == Those(hits, Range(hits) \ gone)
  IN [dets |-> a.dets \o
               [i \in DOMAIN met |-> Detection(met[i][1], met[i][2], "RULE", 100, "custom")],
      allowed |-> a.allowed \cup gone]

(* The analyzer drops what is below its floor before it looks for context  *)
(* words, so it is given a floor that a boost can still lift over.         *)
PreFloor(p) == p.floor - ContextBoost

Boosted(r) == IF r.context THEN r.base + ContextBoost ELSE r.base

Analyzed(p, rs) == Those(rs, {r \in Range(rs) : r.base >= PreFloor(p)})

(* The precision gates: each drops the result where it is.                 *)
ImplausibleKey(r) == r.entity = "API_KEY" /\ r.look = "implausible"
ReservedNetId(r) == r.entity = "IP_ADDRESS" /\ r.look = "reserved"
NamespaceUrl(r) == r.entity = "URL" /\ r.look = "namespaced"
FilenameDomain(r) == r.entity = "DOMAIN" /\ r.look = "filename"
Imprecise(r) ==
  ImplausibleKey(r) \/ ReservedNetId(r) \/ NamespaceUrl(r) \/ FilenameDomain(r)

Dropped(p, r) ==
  \/ Boosted(r) < p.floor
  \/ r.entity = "PHONE_NUMBER" /\ Boosted(r) <= PhoneBase
  \/ ~EntityEnabled(p, r.entity)
  \/ r.from = r.to
  \/ Imprecise(r)

(* A quoted URL or domain is recorded without its quotes.                  *)
Trimmed(r) ==
  IF r.entity \in {"URL", "DOMAIN"} /\ r.look = "quoted" /\ r.to - r.from >= 3
  THEN [r EXCEPT !.from = @ + 1, !.to = @ - 1] ELSE r

Recorded(r, source) ==
  Detection(Trimmed(r).from, Trimmed(r).to, r.entity, Boosted(r), source)

Ingest(p, a, rs, source) ==
  LET live == {r \in Range(rs) : ~Dropped(p, r)}
      gone == {r \in live : Suppressed(p, r.from, r.to)}
      met == Those(rs, live \ gone)
  IN [dets |-> a.dets \o [i \in DOMAIN met |-> Recorded(met[i], source)],
      allowed |-> a.allowed \cup {<<r.from, r.to>> : r \in gone}]

(* Deviation: registered secrets are not exempt, only their category.      *)
NeverAllowedAwayButSecrets(d) == d.entity \in SecretsCategory

(* Registered secrets and the Secrets category stay inside an allow-listed *)
(* span.                                                                   *)
Exempt(d) == d.source = "secret" \/ d.entity \in SecretsCategory

Inside(d, s) == s[1] <= d.from /\ d.to <= s[2]

FinishDets(a) ==
  Resolve(Those(a.dets,
    {d \in Range(a.dets) : Exempt(d) \/ \A s \in a.allowed : ~Inside(d, s)}))

(* The whole of run_detection on what the passes were given.               *)
PlanOf(p, s, rs) ==
  FinishDets(Ingest(p, Ingest(p, RulePass(p, SecretPass(s.secrets), s.rules), rs, "regex"),
                    s.ml, "ml"))

(***************************************************************************)
(* The passes, one after the other.                                        *)
(***************************************************************************)
UpTo(n, S) == UNION {{f \in [1..k -> S] : \A i, j \in 1..k : i # j => f[i] # f[j]} : k \in 0..n}

Findings(s) == Len(s.secrets) + Len(s.rules) + Len(s.regex) + Len(s.ml)
NoneSeen == [secrets |-> <<>>, rules |-> <<>>, regex |-> <<>>, ml |-> <<>>]

DetectInit ==
  /\ engine \in EngineConfigs
  /\ \/ allow = {} /\ dated = {}
     \/ \E s \in Allowed : allow = {s} /\ dated = {}
     \/ \E s \in Dated : allow = {} /\ dated = {s}
  /\ seen = NoneSeen
  /\ acc = Nothing /\ plan = <<>> /\ out = Leaf
  /\ phase = "secrets"

Step(from, to) == phase = from /\ phase' = to

PassSecrets ==
  /\ Step("secrets", "rules")
  /\ \E hits \in UpTo(MostFound.secrets, SecretHits) :
       /\ seen' = [seen EXCEPT !.secrets = hits]
       /\ acc' = SecretPass(hits)
  /\ UNCHANGED <<engine, allow, dated, plan, out>>

PassRules ==
  /\ Step("rules", "regex")
  /\ \E hits \in UpTo(MostFound.rules, RuleHits) :
       /\ seen' = [seen EXCEPT !.rules = hits]
       /\ acc' = RulePass(engine, acc, hits)
  /\ UNCHANGED <<engine, allow, dated, plan, out>>

(* Two recognizers do not read one slice in two ways.                      *)
PassRegex ==
  /\ Step("regex", "ml")
  /\ \E rs \in UpTo(MostFound.regex, Reports) :
       /\ \A i, j \in 1..Len(rs) :
            i # j => <<rs[i].from, rs[i].to>> # <<rs[j].from, rs[j].to>>
       /\ seen' = [seen EXCEPT !.regex = rs]
       /\ Findings(seen') <= MaxFindings
       /\ acc' = Ingest(engine, acc, Analyzed(engine, rs), "regex")
  /\ UNCHANGED <<engine, allow, dated, plan, out>>

(* No recognizer is loaded, or it finds what it finds.                     *)
PassMl ==
  /\ Step("ml", "finish")
  /\ \E rs \in UpTo(MostFound.ml, MlReports) :
       /\ seen' = [seen EXCEPT !.ml = rs]
       /\ Findings(seen') <= MaxFindings
       /\ acc' = Ingest(engine, acc, rs, "ml")
  /\ UNCHANGED <<engine, allow, dated, plan, out>>

(* Its error is the leaf's: the request is refused.                        *)
MlFails ==
  /\ Step("ml", "refused")
  /\ acc' = Nothing
  /\ UNCHANGED <<engine, allow, dated, seen, plan, out>>

Finish ==
  /\ Step("finish", "apply")
  /\ plan' = FinishDets(acc)
  /\ acc' = Nothing
  /\ UNCHANGED <<engine, allow, dated, seen, out>>

WithOps(p, ds) ==
  [i \in 1..Len(ds) |->
     [from |-> ds[i].from, to |-> ds[i].to, source |-> ds[i].source, score |-> ds[i].score,
      entity |-> ds[i].entity, op |-> ResolveOperator(p, ds[i])]]

ApplyPlan ==
  /\ Step("apply", "sent")
  /\ out' = Apply(Leaf, WithOps(engine, plan))
  /\ UNCHANGED <<engine, allow, dated, seen, acc, plan>>

DetectNext ==
  \/ PassSecrets \/ PassRules \/ PassRegex \/ PassMl \/ MlFails
  \/ Finish \/ ApplyPlan

DetectSpec == DetectInit /\ [][DetectNext]_detectVars

(***************************************************************************)
(* Properties                                                              *)
(***************************************************************************)
Planned == phase \in {"apply", "sent"}

(* The shape of the state.                                                 *)
DetectTypeOK ==
  /\ engine \in EngineConfigs
  /\ phase \in {"secrets", "rules", "regex", "ml", "finish", "apply", "sent", "refused"}
  /\ \A i \in 1..Len(plan) :
       /\ plan[i].from \in 0..TextLength /\ plan[i].to \in plan[i].from..TextLength
       /\ plan[i].source \in {"secret", "custom", "regex", "ml"}
       /\ plan[i].score >= engine.floor \/ plan[i].source \in {"secret", "custom"}

(* The plan is what the splice relies on: in the order of the text, no two *)
(* findings overlapping (detect.rs:1-2, "sorted, non-overlapping").        *)
PlanIsSpliceable ==
  Planned => \A i, j \in 1..Len(plan) :
    i < j => plan[i].from <= plan[j].from /\ Bytes(plan[i]) \cap Bytes(plan[j]) = {}

(* What is sent holds, in their order, exactly the bytes that no planned   *)
(* finding hides (lib.rs:1156, "back-to-front so byte offsets stay         *)
(* valid").                                                                *)
HiddenBy(d) ==
  CASE d.op = "keep" -> {}
    [] d.op = "mask" -> Bytes(d) \ {d.to}
    [] OTHER -> Bytes(d)
Hidden(ds) == UNION {HiddenBy(ds[i]) : i \in 1..Len(ds)}
SpliceIsExact ==
  phase = "sent" =>
    Those(out, Nat) = Those(Leaf, Nat \ Hidden(WithOps(engine, plan)))

(* A registered secret is masked from end to end whatever else was found   *)
(* and whatever is allow-listed, another secret over it aside              *)
(* (detect.rs:300-302, "never silently passed through").                   *)
Alone(h) == \A i \in 1..Len(seen.secrets) :
  seen.secrets[i] = h \/ seen.secrets[i][2] <= h[1] \/ h[2] <= seen.secrets[i][1]
SecretsAreMasked ==
  phase = "sent" => \A i \in 1..Len(seen.secrets) :
    LET h == seen.secrets[i] IN
    Alone(h) => \A b \in (h[1] + 1)..h[2] : b \notin Range(out)

(* A rule of the user masks what the precision gates let a recognizer      *)
(* ignore (detect.rs, F5, F8 and F12): only the allow-list, a near-now     *)
(* date, an allow-listed text around it, a rule that matched no less or a  *)
(* registered secret stands against it.                                    *)
AllowedAround(h) ==
  \/ \E i \in 1..Len(seen.rules) : LET g == seen.rules[i] IN
       Suppressed(engine, g[1], g[2]) /\ g[1] <= h[1] /\ h[2] <= g[2]
  \/ \E i \in 1..Len(seen.regex) : LET r == seen.regex[i] IN
       /\ r.from <= h[1] /\ h[2] <= r.to
       /\ Suppressed(engine, r.from, r.to) /\ ~Imprecise(r)
  \/ \E i \in 1..Len(seen.ml) : LET r == seen.ml[i] IN
       r.from <= h[1] /\ h[2] <= r.to /\ Suppressed(engine, r.from, r.to)
RuleStands ==
  Planned => \A i \in 1..Len(seen.rules) :
    LET h == seen.rules[i] IN
    \/ AllowedAround(h)
    \/ \E n \in 1..Len(plan) :
         /\ plan[n].from < h[2] /\ h[1] < plan[n].to
         /\ \/ plan[n].source = "secret"
            \/ plan[n].source = "custom" /\ Length(plan[n]) >= h[2] - h[1]

(* A credential found inside an allow-listed address is masked all the     *)
(* same, unless a better finding took its place (config.rs, "the always-on *)
(* Secrets category").                                                     *)
CredentialStands ==
  Planned => \A i \in 1..Len(seen.regex) :
    LET r == seen.regex[i] IN
    r.entity \in SecretsCategory /\ ~Dropped(engine, r) /\ ~Suppressed(engine, r.from, r.to) =>
      \E n \in 1..Len(plan) :
        /\ Overlap(plan[n], r)
        /\ ~Outranks(Detection(r.from, r.to, r.entity, Boosted(r), "regex"), plan[n])

(* The floor the analyzer filters at before the boost costs no finding:    *)
(* the plan is the one of every report (detect.rs, CONTEXT_BOOST).         *)
PrefilterIsHarmless ==
  Planned => plan = PlanOf(engine, seen, seen.regex)

(* Two policies with one fingerprint detect the same, so that a cached     *)
(* plan may be applied under another's operators (config.rs,               *)
(* detection_fingerprint).                                                 *)
FingerprintDecides ==
  Planned => \A p \in EngineConfigs :
    Fingerprint(p) = Fingerprint(engine) => PlanOf(p, seen, Analyzed(p, seen.regex)) = plan

(* A detection, from the passes to the spliced text: the plan can be       *)
(* spliced, no gate, floor, allow-list or overlap frees what it is not     *)
(* meant to free, and neither the floor before the boost nor the           *)
(* fingerprint changes a plan.                                             *)
DetectSound ==
  /\ DetectTypeOK
  /\ PlanIsSpliceable
  /\ SpliceIsExact
  /\ SecretsAreMasked
  /\ RuleStands
  /\ CredentialStands
  /\ PrefilterIsHarmless
  /\ FingerprintDecides
=============================================================================
