---------------------------- MODULE ConfigPlane ----------------------------
(***************************************************************************)
(* The masking policy of one project: three TOML files (user < project <   *)
(* local), the configuration the running proxy holds, the proxy's control  *)
(* endpoints that change it, and the command line that edits the files and *)
(* then asks the proxy to follow.  An endpoint holds config_control from   *)
(* its first read to its last write, so it is one step; the command line   *)
(* takes no lock, so each of its reads, writes and calls is a step.        *)
(*                                                                         *)
(* A file is [broken, val]: val gives a value to the keys the file sets,   *)
(* with the tables flattened (an operator override of entity type k is the *)
(* key k).  "threshold" stands for every scalar a profile seeds.           *)
(***************************************************************************)
EXTENDS Naturals, Sequences, SequencesExt

CONSTANTS
    Rules,        \* custom replacements
    Uncompilable, \* the rules whose regex does not compile
    Words,        \* values an allow list may hold
    Defaults,     \* the words every allow list is seeded with
    Keys,         \* entity types with an operator override somewhere (strings)
    Canonical,    \* the keys that are canonical entity types
    TypeOf,       \* the entity type of a rule
    Profiles, Threshold, Categories,   \* profile -> its threshold, categories
    Drafts,       \* what the operator may type into a file by hand
    Patches,      \* what the monitor page PUTs
    Commands,     \* what the command line is asked for
    InitFiles, Budget

ASSUME ConfigConstants ==
    /\ Uncompilable \subseteq Rules /\ Defaults \subseteq Words
    /\ Canonical \subseteq Keys /\ Budget \in Nat
    /\ "balanced" \in Profiles

VARIABLES
    files,    \* scope -> file
    live,     \* the engine's configuration while the proxy runs
    policy,   \* the broker policy: "rules" or "deny"
    up,       \* the proxy answers
    cli,      \* the command line's one process
    promise,  \* what was promised to the operator (history)
    acts      \* operations so far

configVars == <<files, live, policy, up, cli, promise, acts>>

Scopes == {"user", "project", "local"}
NoCli == [pc |-> "idle"]
NotSaved == {"none saved"}

\* What the keys hold that the properties speak of, where a file sets them.
WellTyped(val) ==
    /\ val = [k \in DOMAIN val |-> val[k]]
    /\ "rules" \in DOMAIN val => val["rules"] \in Seq(Rules)
    /\ "allow" \in DOMAIN val => val["allow"] \in SUBSET Words
    /\ "profile" \in DOMAIN val => val["profile"] \in Profiles
    /\ \A k \in {"enabled", "ml"} \cap DOMAIN val : val[k] \in BOOLEAN

FileTyped(f) == /\ f = [broken |-> f.broken, val |-> f.val]
                /\ f.broken \in BOOLEAN /\ WellTyped(f.val)

\* No command of the command line edits a rule or an allow list.
CommandTyped(c) ==
    /\ c.scope \in Scopes \cup {"session"} /\ c.key \notin {"rules", "allow"}
    /\ c.key = "profile" => c.value \in Profiles
    /\ c.key \in {"enabled", "ml"} => c.value \in BOOLEAN

ASSUME ConfigInputs ==
    /\ \A fs \in InitFiles : /\ fs = [s \in Scopes |-> fs[s]]
                             /\ \A s \in Scopes : FileTyped(fs[s])
    /\ \A draft \in Drafts : FileTyped(draft)
    /\ \A patch \in Patches : WellTyped(patch)
    /\ \A c \in Commands : CommandTyped(c)

-----------------------------------------------------------------------------
(* Reading the files.                                                      *)

Only(key, value) == [k \in {key} |-> value]

Merge(base, over) ==
    [k \in DOMAIN base \cup DOMAIN over |->
        IF k \in DOMAIN over THEN over[k] ELSE base[k]]

MergedValue(fs) ==
    Merge(Merge(fs["user"].val, fs["project"].val), fs["local"].val)

Field(val, key, default) == IF key \in DOMAIN val THEN val[key] ELSE default

\* No layer is unparsable and the merged text holds no secret value.
FilesParse(fs) ==
    /\ \A s \in Scopes : ~fs[s].broken
    /\ Field(MergedValue(fs), "secrets", "refs") # "inline"

BuildAllowList(exact) == Defaults \cup exact

OpsOf(val) == [k \in DOMAIN val \cap Keys |-> val[k]]

\* Deserialising fills what is absent; a profile seeds its own fields.
Deserialize(val) ==
    LET profile == Field(val, "profile", "balanced") IN
    Merge(OpsOf(val),
          [profile   |-> profile,
           threshold |-> Field(val, "threshold", Threshold[profile]),
           cats      |-> Field(val, "cats", Categories[profile]),
           rules     |-> Field(val, "rules", <<>>),
           allow     |-> BuildAllowList(Field(val, "allow", {})),
           enabled   |-> Field(val, "enabled", TRUE),
           ml        |-> Field(val, "ml", FALSE)])

Compiles(cfg) == ToSet(cfg.rules) \cap Uncompilable = {}

BrokerPolicy(val) ==
    IF Field(val, "broker", "none") = "rules" THEN "rules" ELSE "deny"

\* The command line's own reading of the files, when no proxy answers: the
\* last layer it can parse that sets a key.
Setting(fs, key) == {s \in Scopes : ~fs[s].broken /\ key \in DOMAIN fs[s].val}

LastSet(fs, key) ==
    LET S == Setting(fs, key)
    IN fs[IF "local" \in S THEN "local"
          ELSE IF "project" \in S THEN "project" ELSE "user"].val[key]

CategoriesFromFiles(fs) ==
    IF Setting(fs, "cats") # {} THEN LastSet(fs, "cats")
    ELSE IF Setting(fs, "profile") # {} THEN Categories[LastSet(fs, "profile")]
    ELSE Categories["balanced"]

-----------------------------------------------------------------------------
(* Writing the files.                                                      *)

SetKey(val, key, value) == Merge(val, Only(key, value))
Unset(val, key) == [k \in DOMAIN val \ {key} |-> val[k]]

\* toml_edit refuses a document it cannot parse; the disk may refuse too.
Persisted(fs, scope, val, ok) ==
    IF ok /\ ~fs[scope].broken
    THEN [fs EXCEPT ![scope].val = val] ELSE fs

Wrote(fs, scope, ok) == ok /\ ~fs[scope].broken

PersistCustomReplacement(fs, r, ok) ==
    Persisted(fs, "local",
              SetKey(fs["local"].val, "rules",
                  Append(Field(fs["local"].val, "rules", <<>>), r)), ok)

RemoveCustomReplacement(fs, r) ==
    IF "rules" \in DOMAIN fs["local"].val
    THEN Persisted(fs, "local",
                   SetKey(fs["local"].val, "rules",
                       RemoveFirst(fs["local"].val["rules"], r)), TRUE)
    ELSE fs

\* The whole effective set, not the word alone: the merge replaces arrays.
PersistLocalAllowLists(fs, allow, ok) ==
    Persisted(fs, "local", SetKey(fs["local"].val, "allow", allow \ Defaults), ok)

ProfileFields(p) ==
    [profile |-> p, threshold |-> Threshold[p], cats |-> Categories[p]]

PersistProfile(fs, scope, p, ok) ==
    Persisted(fs, scope, Merge(fs[scope].val, ProfileFields(p)), ok)

-----------------------------------------------------------------------------
(* What the operator was told, for the properties.                         *)

Promise(event) == [promise EXCEPT !.event = event]

Count == acts' = acts + 1
Room == acts < Budget

ConfigInit ==
    /\ files \in InitFiles
    /\ live = Deserialize(MergedValue(files))
    /\ policy = BrokerPolicy(MergedValue(files))
    /\ up = TRUE
    /\ cli = NoCli
    /\ promise = [event |-> "load", rules |-> <<>>, allow |-> NotSaved,
                  on |-> live.enabled, ml |-> live.ml,
                  broker |-> policy]
    /\ acts = 0

-----------------------------------------------------------------------------
(* The proxy's endpoints.                                                  *)

Unknown(cfg, k) == k \notin Canonical /\ ~\E r \in ToSet(cfg.rules) : TypeOf[r] = k

NewUnknownEntityKeys(cur, cfg) ==
    {k \in DOMAIN cfg \cap Keys :
        Unknown(cfg, k) /\ (k \notin DOMAIN cur \/ cur[k] # cfg[k])}

WireRoundTrip(cfg) == [cfg EXCEPT !.allow = BuildAllowList(@)]

PutAccepted(over) ==
    LET cfg == WireRoundTrip(Merge(live, over))
    IN NewUnknownEntityKeys(live, cfg) = {} /\ Compiles(cfg)

PutResult(over) ==
    [WireRoundTrip(Merge(live, over)) EXCEPT !.ml = live.ml]

PutConfig(over) ==
    /\ live' = IF PutAccepted(over) THEN PutResult(over) ELSE live
    /\ promise' = [Promise("put") EXCEPT
                      !.allow = IF "allow" \in DOMAIN over /\ PutAccepted(over)
                                THEN NotSaved ELSE @]
    /\ UNCHANGED <<files, policy>>

PutPatch ==
    /\ up /\ Room
    /\ \E patch \in Patches : PutConfig(patch)
    /\ Count /\ UNCHANGED <<up, cli>>

ProfileAt(p, scope, ok) ==
    /\ live' = Merge(live, ProfileFields(p))
    /\ files' = IF scope = "session" THEN files
                ELSE PersistProfile(files, scope, p, ok)
    /\ promise' = Promise("profile")
    /\ UNCHANGED policy

ApplyProfile ==
    /\ up /\ Room
    /\ \E p \in Profiles, scope \in Scopes \cup {"session"}, ok \in BOOLEAN :
          ProfileAt(p, scope, ok)
    /\ Count /\ UNCHANGED <<up, cli>>

SetEnabled(on) ==
    /\ live' = [live EXCEPT !.enabled = on]
    /\ promise' = [Promise("switch") EXCEPT !.on = on]
    /\ UNCHANGED <<files, policy>>

SetMl(on) ==
    /\ live' = [live EXCEPT !.ml = on]
    /\ promise' = [Promise("switch") EXCEPT !.ml = on]
    /\ UNCHANGED <<files, policy>>

Switch ==
    /\ up /\ Room
    /\ \E on \in BOOLEAN : SetEnabled(on) \/ SetMl(on)
    /\ Count /\ UNCHANGED <<up, cli>>

\* What a reload makes of the files it reads, and of the broker policy.
ReloadedConfig == [Deserialize(MergedValue(files)) EXCEPT
                      !.enabled = live.enabled, !.ml = live.ml]
ReloadTakes == FilesParse(files) /\ Compiles(ReloadedConfig)

\* Deviation: a reload that fails leaves the old broker policy live.
ReloadKeepsPolicy ==
    IF ReloadTakes THEN BrokerPolicy(MergedValue(files)) ELSE policy

ReloadedPolicy ==
    IF ReloadTakes THEN BrokerPolicy(MergedValue(files)) ELSE "deny"

Reload ==
    /\ live' = IF ReloadTakes THEN ReloadedConfig ELSE live
    /\ policy' = ReloadedPolicy
    /\ promise' = [Promise(IF ReloadTakes THEN "load" ELSE "failed") EXCEPT
                      !.broker = IF FilesParse(files)
                                 THEN BrokerPolicy(MergedValue(files))
                                 ELSE "deny"]
    /\ UNCHANGED files

ReloadCall ==
    /\ up /\ Room /\ Reload
    /\ Count /\ UNCHANGED <<up, cli>>

CustomMask ==
    /\ up /\ Room
    /\ \E r \in Rules \ Uncompilable, ok \in BOOLEAN :
          /\ live' = [live EXCEPT !.rules = Append(@, r)]
          /\ files' = PersistCustomReplacement(files, r, ok)
          /\ promise' = [Promise("mask") EXCEPT
                            !.rules = IF Wrote(files, "local", ok)
                                      THEN Append(@, r) ELSE @]
    /\ Count /\ UNCHANGED <<policy, up, cli>>

CustomMasksRemove ==
    /\ up /\ Room
    /\ \E r \in Rules :
          /\ live' = [live EXCEPT !.rules = RemoveFirst(@, r)]
          /\ files' = RemoveCustomReplacement(files, r)
          /\ promise' = [Promise("remove") EXCEPT !.rules = RemoveFirst(@, r)]
    /\ Count /\ UNCHANGED <<policy, up, cli>>

AfterAllowChange(fs, allow, ok, event, rules) ==
    /\ files' = PersistLocalAllowLists(fs, allow, ok)
    /\ promise' = [Promise(event) EXCEPT
                      !.rules = rules,
                      !.allow = IF Wrote(fs, "local", ok) THEN allow
                                ELSE NotSaved]

\* Revealing a value drops the rule that masked it, in memory and then on disk.
RevealKeyphrase ==
    /\ up /\ Room
    /\ \E w \in Words, backing \in {{}} \cup {{r} : r \in Rules}, ok \in BOOLEAN :
          LET gone == {r \in backing : Contains(live.rules, r)}
              Drop(s) == IF gone = {} THEN s
                         ELSE RemoveFirst(s, CHOOSE r \in gone : TRUE)
              fs == IF gone = {} THEN files
                    ELSE RemoveCustomReplacement(files, CHOOSE r \in gone : TRUE)
          IN /\ live' = [live EXCEPT !.rules = Drop(@), !.allow = @ \cup {w}]
             /\ AfterAllowChange(fs, live'.allow, ok, "reveal", Drop(promise.rules))
    /\ Count /\ UNCHANGED <<policy, up, cli>>

RemaskKeyphrase ==
    /\ up /\ Room
    /\ \E w \in Words, ok \in BOOLEAN :
          /\ live' = [live EXCEPT !.allow = @ \ {w}]
          /\ AfterAllowChange(files, live'.allow, ok, "remask", promise.rules)
    /\ Count /\ UNCHANGED <<policy, up, cli>>

-----------------------------------------------------------------------------
(* Stopping and starting the proxy: only a start reads the two switches.   *)

ProxyStop ==
    /\ up /\ Room
    /\ up' = FALSE
    /\ promise' = Promise("stop")
    /\ Count /\ UNCHANGED <<files, live, policy, cli>>

ProxyStart ==
    /\ ~up /\ FilesParse(files)
    /\ Compiles(Deserialize(MergedValue(files)))
    /\ up' = TRUE
    /\ live' = Deserialize(MergedValue(files))
    /\ policy' = BrokerPolicy(MergedValue(files))
    /\ promise' = [Promise("load") EXCEPT
                      !.on = live'.enabled, !.ml = live'.ml, !.broker = policy']
    /\ UNCHANGED <<files, cli, acts>>

\* The operator's editor, which may also be what repairs a file.
HandEdit ==
    /\ Room
    /\ \E s \in Scopes, draft \in Drafts :
          /\ files' = [files EXCEPT ![s] = draft]
          /\ promise' = IF s = "local"
                        THEN [Promise("edit") EXCEPT !.rules = <<>>, !.allow = NotSaved]
                        ELSE Promise("edit")
    /\ Count /\ UNCHANGED <<live, policy, up, cli>>

-----------------------------------------------------------------------------
(* The command line.  It finds out once whether a proxy answers.           *)

Toggle(cats, c) == IF c \in cats THEN cats \ {c} ELSE cats \cup {c}

EffectiveCategories == IF up THEN live.cats ELSE CategoriesFromFiles(files)

\* The edit a command makes: a key and its value.
CommandValue(c) ==
    IF c.key = "cats" THEN Toggle(EffectiveCategories, c.value) ELSE c.value

CliPc(c) ==
    IF c.scope # "session" THEN "read"
    ELSE IF c.key \in {"threshold", "cats"} THEN "get" ELSE "call"

\* clear needs a file; a session command needs a proxy; a profile goes to the
\* endpoint whenever there is one.
CliStart ==
    /\ cli = NoCli /\ Room
    /\ \E c \in Commands :
          /\ c.scope = "session" => up /\ c.what # "clear"
          /\ cli' = [ pc |-> IF c.key = "profile" /\ up THEN "call" ELSE CliPc(c),
                      cmd |-> c, ident |-> up, value |-> CommandValue(c) ]
    /\ promise' = Promise("cli")
    /\ Count /\ UNCHANGED <<files, live, policy, up>>

\* A session command on one key: one call, refused when the proxy has gone.
CliCall ==
    /\ cli.pc = "call"
    /\ cli' = NoCli
    /\ IF ~up THEN promise' = Promise("cli") /\ UNCHANGED <<files, live, policy>>
       ELSE CASE cli.cmd.key = "enabled" -> SetEnabled(cli.value)
              [] cli.cmd.key = "ml"      -> SetMl(cli.value)
              [] cli.cmd.key = "profile" ->
                    \E ok \in BOOLEAN : ProfileAt(cli.value, cli.cmd.scope, ok)
              [] OTHER -> PutConfig(Only(cli.cmd.key, cli.value))
    /\ UNCHANGED <<up, acts>>

\* A session command on a threshold or a category fetches the configuration,
CliGet ==
    /\ cli.pc = "get"
    /\ cli' = IF up THEN [pc |-> "put", cmd |-> cli.cmd, ident |-> cli.ident,
                          value |-> cli.value, got |-> live]
              ELSE NoCli
    /\ promise' = Promise("cli")
    /\ UNCHANGED <<files, live, policy, up, acts>>

\* ... and PUTs all of it back with the one value changed.
CliPut ==
    /\ cli.pc = "put"
    /\ cli' = NoCli
    /\ IF up THEN PutConfig(SetKey(cli.got, cli.cmd.key, cli.value))
       ELSE promise' = Promise("cli") /\ UNCHANGED <<files, live, policy>>
    /\ UNCHANGED <<up, acts>>

\* A file command reads the scope's file; an unparsable one reads as empty.
CliRead ==
    /\ cli.pc = "read"
    /\ LET f == files[cli.cmd.scope]
       IN cli' = [pc |-> "write", cmd |-> cli.cmd, ident |-> cli.ident, value |-> cli.value,
                  doc |-> IF f.broken THEN [k \in {} |-> {}] ELSE f.val, seen |-> f]
    /\ promise' = Promise("cli")
    /\ UNCHANGED <<files, live, policy, up, acts>>

Edited(doc, c, value) ==
    IF c.what = "clear" THEN Unset(doc, c.key)
    ELSE IF c.key = "profile" THEN Merge(doc, ProfileFields(value))
    ELSE SetKey(doc, c.key, value)

\* The call after the write: reload preserves the switches, so they have their
\* own (turning masking on also ends the conversation's masking-off window).
FollowUp(c, value) ==
    IF c.key = "enabled" \/ (c.key = "ml" /\ ~value) THEN "switch" ELSE "reload"

\* The write replaces whatever the file holds by now.
CliWrite ==
    /\ cli.pc = "write"
    /\ files' = [files EXCEPT ![cli.cmd.scope] =
                    [broken |-> FALSE, val |-> Edited(cli.doc, cli.cmd, cli.value)]]
    /\ cli' = IF ~cli.ident \/ cli.cmd.key = "profile" THEN NoCli
              ELSE [pc |-> FollowUp(cli.cmd, cli.value),
                    cmd |-> cli.cmd, ident |-> TRUE, value |-> cli.value]
    /\ promise' = IF cli.cmd.scope = "local"
                     /\ (cli.seen # files["local"] \/ cli.seen.broken)
                  THEN [Promise("cli") EXCEPT !.rules = <<>>, !.allow = NotSaved]
                  ELSE Promise("cli")
    /\ UNCHANGED <<live, policy, up, acts>>

\* Then the proxy is asked to follow: a reload, or the switch's own endpoint;
\* turning the model on is both, in that order.
CliReload ==
    /\ cli.pc = "reload"
    /\ cli' = IF cli.cmd.key = "ml" THEN [cli EXCEPT !.pc = "switch"] ELSE NoCli
    /\ IF up THEN Reload
       ELSE promise' = Promise("cli") /\ UNCHANGED <<files, live, policy>>
    /\ UNCHANGED <<up, acts>>

CliSwitch ==
    /\ cli.pc = "switch"
    /\ cli' = NoCli
    /\ IF ~up THEN promise' = Promise("cli") /\ UNCHANGED <<files, live, policy>>
       ELSE IF cli.cmd.key = "ml" THEN SetMl(cli.value) ELSE SetEnabled(cli.value)
    /\ UNCHANGED <<up, acts>>

ConfigNext ==
    \/ PutPatch \/ ApplyProfile \/ Switch \/ ReloadCall
    \/ CustomMask \/ CustomMasksRemove \/ RevealKeyphrase \/ RemaskKeyphrase
    \/ ProxyStop \/ ProxyStart \/ HandEdit
    \/ CliStart \/ CliCall \/ CliGet \/ CliPut
    \/ CliRead \/ CliWrite \/ CliReload \/ CliSwitch

ConfigSpec == ConfigInit /\ [][ConfigNext]_configVars

-----------------------------------------------------------------------------
(* Properties.                                                             *)

\* Files, the live configuration and the broker policy have their shapes.
ConfigTypeOK ==
    /\ \A s \in Scopes : files[s].broken \in BOOLEAN
    /\ live.profile \in Profiles /\ live.allow \subseteq Words
    /\ live.rules \in Seq(Rules) /\ live.enabled \in BOOLEAN /\ live.ml \in BOOLEAN
    /\ policy \in {"rules", "deny"} /\ up \in BOOLEAN
    /\ cli.pc \in {"idle", "call", "get", "put", "read", "write", "reload", "switch"}

\* The broker resolves nothing the files last looked at do not grant: an
\* unparsable file, an inline secret, an uncompilable rule or a bad [broker]
\* table leaves the policy at default-deny, whatever was live before (reload).
BrokerFollowsFiles == up /\ policy = "rules" => promise.broker = "rules"

\* Only ml/enable, ml/disable and a start decide whether the model is on: a
\* reload, or a PUT that carries an old copy of the whole configuration
\* (the session commands of the command line), never flips it.
MlIsLiveOwned == up => live.ml = promise.ml

\* A custom mask the endpoint reported as persisted, and nobody removed or
\* overwrote, is in force again after any reload or restart
\* (persist_custom_replacement).
AdditionsSurvive ==
    up /\ promise.event = "load" => ToSet(promise.rules) \subseteq ToSet(live.rules)

\* After a persisted reveal or re-mask the allow list survives every reload and
\* restart exactly, the words of the lower layers included, plus the built-in
\* words (persist_local_allow_lists writes the whole set).
AllowListSurvives ==
    up /\ promise.event = "load" /\ promise.allow # NotSaved
        => live.allow = promise.allow \cup Defaults

\* Without a proxy the command line bases a category edit on the categories the
\* proxy would load from the same files (categories_from_files).
OfflineBaseAgrees ==
    FilesParse(files) =>
        CategoriesFromFiles(files) = Deserialize(MergedValue(files)).cats

\* Whatever endpoints and commands run between two reloads: the broker and the ML
\* section follow the files, and what was persisted survives the next reload
\* (reload_layers, persist_*).
ConfigSound ==
    /\ ConfigTypeOK
    /\ BrokerFollowsFiles
    /\ MlIsLiveOwned
    /\ AdditionsSurvive
    /\ AllowListSurvives
    /\ OfflineBaseAgrees

\* set_enabled holds config_control so that nobody "can read the pre-toggle
\* value and write it back AFTER this toggle": masking is on or off as the last
\* explicit switch, or the last start, left it.
SwitchStays == up => live.enabled = promise.on
=============================================================================
