# Sordino in TLA+

Models, model-checking runs and proofs for Sordino, the local masking proxy of this
repository. Paths below are relative to `src/crates/` unless they start with `src/`.

`PROJECT.json` is the index: components, runs, the mapping of every definition to the
lines it models, findings, hazards and theorems.

## 1. The system

Sordino is one proxy process per project, started and observed by short-lived hook
processes of the coding assistant. The proxy masks what goes out to the model provider
and unmasks what comes back.

| Component | State it keeps | Operations | Talks to | Modules |
|---|---|---|---|---|
| Launch lock (`sordino-state`) | one lock file per project | acquire, reclaim, drop | other hooks, through the file system | `LaunchLock` |
| Rendezvous and start-up (`sordino-hooks`, `sordino-proxy` main, bind) | record file: port, pid, nonce, salt, build | `ensure_up`, `stop_proxy`, `launch_proxy`, `wait_for_live`; bind, publish, shut down | hooks and proxies, through the record, signals and `/healthz` | `Launch` |
| ZDR trust routing (state, routes, admin) and its narration (hooks) | in-memory map, selections file, reports, sentinel | engage, disengage, reload at boot, route a request, narrate | requests; the prompt hook, through report files | `ZdrSessions` |
| Masking engine (engine lib, cache) | policy, secret set, ML slot, detection cache, inference gate | `mask`, `mask_when_disabled`, `prewarm_batch`, setters, hot load | request threads; control plane; background loads | `MaskEngine` |
| Detection (engine detect, recognizers, secrets) | none: one call over one leaf | passes, gates, exemption, overlap resolution, splice | engine | `Detect`, `Spans`, `UrlCredential` |
| Token store and unmasking (engine store, token, manifest, lib) | handles, kinds, tombstones; per-turn manifests | intern, promote, delete, restore by surface | masking, replies, tool calls | `Tokens`, `Unmask` |
| Secret resolution and broker (proxy secrets, engine broker) | status, readiness, broker policy | resolve and install, decide | engine, tool calls | `Tokens` |
| Request routes and masking-off window (routes, state, tripwire) | window per conversation, ledger of its ends | gate, pin, mask, record, approve, send; arm, expire, sweep | engine, monitor, upstream | `Request` |
| Body walkers (walk, openai_chat, openai_responses) | none: one walk | prewarm, mask, scan, refuse, unmask | engine | `Walk` |
| Streaming unmasker (sse and the OpenAI relays) | a carry buffer per block | take a frame, hold, release, flush | upstream, client | `Stream`, `Relay` |
| Monitor: approval gate | records, waiters | hold, decide, time out, stamp | requests, operator | `Approvals` |
| Monitor: index | ring, maps by conversation, session ledger | resolve the conversation, delta, lanes, evict | requests, reviewer | `MonitorIndex` |
| Control plane (admin, config, persist; the CLI) | three config files, live configuration | merge, reload, PUT, toggles, write-through, edits | engine, files | `ConfigPlane` |
| Claude Code hooks (`sordino-hooks`) | session-status records, plumb registry entry | SessionStart, intake gate, delta, status line | proxy, settings, user | `Gate` |
| Settings plumbing | two settings files, a sidecar | enable, disable | user's editor | `Settings` |
| Codex integration | `config.toml`, hooks in it | enable, disable, start verdict, intake, override warning | Codex, user's editor | `Codex` |
| Doctor and verify | none: short processes | probes in order, report | everything above | `Doctor` |

What is hard in it: independent processes that meet only in the file system, with
check-then-act pairs between them; processes that die or are recycled between any two
steps; writes that fail half way through an operation; request threads that take several
snapshots under separate locks and act on them later; background tasks that end late;
text that arrives cut anywhere; files that the user edits too. `hazards` in `PROJECT.json`
lists each at its line, with the properties that would catch it.

What makes each component correct:

- launch lock: one holder (of a lock nobody finds reclaimable); a dead holder never blocks;
- start-up: a hook returns only a port that this project's proxy answers; one proxy on
  its way up at a time; hooks end; windows get served;
- ZDR: a durably pinned conversation is never sent to the default endpoint; map and file
  agree; a lost pin is told to the user, but for three ways to lose the word (section 3);
- masking: caching never changes an answer; a registered secret never leaves; a required
  model is never skipped; the ML slot follows the last config written;
- detection: the kept spans can be spliced; no gate, floor, allow-list or overlap frees a
  registered secret, a user's rule or a credential they are not meant to free;
- tokens: what a turn masked can be restored by it and by nobody it was not meant for; a
  deleted token stays deleted; the broker refuses what it refuses unconditionally;
- requests: a pin is honoured or the request fails; a registered secret is refused where it
  is not masked; masking is off only inside its window, which ends, and once;
- walkers and streams: every wire protects what its walk reads; the relayed text is the
  unmasked whole text, nothing lost, nothing held for ever;
- approvals: only an approved request leaves; every held handler ends; one decision wins;
- index: a delta hides only what was shown; the ledger keeps the values in use;
- control plane: broker policy and files agree; additions survive reloads; the ML section
  is owned by the files;
- hooks: no prompt goes to a stranger; the model is not left believing it is masked;
- settings and Codex: uninstall gives the user's files back, except a base URL of the user's
  that an enable wrote over; a route is confirmed only when the session was launched with it;
- doctor: a line is green or red only if a world that stood still was so.

## 2. Modules

| Module | Models | Extends |
|---|---|---|
| `LaunchLock` | `try_launch_lock`, `try_create_lock`, `read_lock`, the guard's `Drop` | |
| `Launch` | `ensure_up`, `stop_proxy`, `launch_proxy`, `wait_for_live`, the proxy's bind, publish, serve, record removal | `LaunchLock` |
| `ZdrSessions` | `set_zdr_selection`, `clear_zdr_selection`, `reload_zdr_sessions`, `resolve_pinned_mode`, `consume_zdr_transitions` | |
| `MaskEngine` | `mask`, `mask_when_disabled`, `mask_user_bypass`, `prewarm_batch`, the detection cache, the ML slot, the setters and `reconcile_ml` | |
| `Spans` | `resolve_overlaps`, `apply` | |
| `Detect` | `detect_base`, `ingest_results`, `finish`, `run_detection`, the fingerprint | `Spans` |
| `UrlCredential` | `UrlCredentialRecognizer` | `Spans` |
| `Unmask` | `unmask_inner`, the tool-input policy, the literals | |
| `Tokens` | `SessionStore`, `TurnManifest`, `mask`'s interning, `resolve_and_install`, the broker | `Unmask` |
| `Relay` | the abstract promise of a relay | |
| `Stream` | `SseUnmasker`, `OpenAISseUnmasker`, the Responses relay | `Unmask`, instance of `Relay` |
| `Walk` | the walkers of three wires and the unmasking of whole replies | `Unmask` |
| `Request` | the handlers of `routes.rs`, the tripwire, the masking-off window | |
| `Approvals` | `record_llm_request`, `await_decision`, `decide`, the life cycle of records | |
| `MonitorIndex` | conversation resolution, `compute_delta`, `ingest_tokens_into`, the evictions | |
| `ConfigPlane` | `resolve_layers`, `merge`, the admin handlers, `persist_*`, `config_cmd` and its siblings | |
| `Gate` | `session_start`, `user_prompt_submit`, `mask_delta_line`, `render_segment` and the commands | |
| `Settings` | `settings_enable`, `settings_disable_at`, the list merges | |
| `Codex` | `codex_enable_merge`, `codex_disable_merge`, the hook merges, the verdicts | |
| `Doctor` | `doctor`, `verify` and their probes | |
| `MC…` | instances for TLC: model values, symmetry, small configurations, compositions | the modules |
| `…Proofs` | theorems | the module, `TLAPS` |

Operators whose comment says "Deviation" are wrong variants of the operator
that follows them, kept to show that each property can fail (section 6). No specification
uses them.

### LaunchLock
One action per file-system call. A launcher is one hook process; pid and nonce are unique
to it, so a lock file is its owner plus whether it is past `LAUNCH_LOCK_TTL_SECS`.
`LinkLock` is the `hard_link` that fails on an existing file, `RenameAside` the rename that
takes whatever is at the path at that time, `DropRead` and `DropUnlink` the two halves of
the drop. `Die`, `ReusePid` and `Age` are the environment.

### Launch
Every hook runs `ensure_up` once; `hpc` is its position, `seen` the record it read last.
A proxy is named after the launcher that spawned it and goes through the stages *spawned,
bound, serving, signalled, draining, removing, gone*. A signalled proxy still answers; a
draining one has closed its listener. The identity probe compares the nonce; the `Healthy`
check of `stop_proxy` does not. `GiveUp` is the end of the bounded poll loop: unless
`"slow"` is allowed it is taken only when no launch is under way and the record does not
end the wait, which is what the poll budget (five seconds against a start-up of well under
one) amounts to. What a finished hook read and what an ended proxy was are forgotten
(`HookReturns`, `Gone`): nothing looks at them again. A session starts in a world earlier ones
left (`Past`): no record, the record of a proxy that still serves, or that of one that crashed,
its port perhaps taken by an unrelated server.

### ZdrSessions
A selections file is a function from conversations to targets, absent, or corrupt; writes
replace it whole (`atomic_write_0600` renames). An engage is two or three steps (insert and
snapshot; write; roll back), a disengage three (snapshot; write; remove), and
`SELECTIONS_WRITE_LOCK` allows one of them at a time. Requests look at the map between any
two steps. A boot loads, re-validates entry by entry, reports and rewrites; the process may
stop anywhere. Entries of a file are distinct: `dedupe_persisted_last_wins` is the identity
on files the proxy wrote. `pinned` is a history variable: what the user believes, set by an
engage that succeeded and cleared by a disengage or by a narrated revert; so is `unheard`, the
conversations whose last word of a revert was destroyed. The hook of a
conversation reads a report, claims it by removing the file, then looks at the sentinel.
`"slowhook"` lets a boot overtake a hook between its read and its claim; without it
`Revalidate` waits for the hook, an assumption about the environment and not a guard of the
code.

### MaskEngine
A text is the set of sensitive atoms in it, a detection list the set of atoms found, and the
result of a call the set of atoms left in plaintext. `Outer` and `Bypassed` split a leaf at
the `>>…<<` markers of a user message. Each call takes its snapshots in the order of the
code (bypass secrets, policy, secrets, ML slot with the day), each a step of its own, so
every setter may run in between. `Key` is the tuple of what the fingerprints hash;
collisions of the hashes are not modelled. `Detect` reads the clock again, as
`detect_base` does. `TakeGate` is the inference mutex, released on every way out. The ML
slot has a generation, and each load task carries the one it was started with. A config
writer holds `config_control` and `ml_control` from `ConfigWrite` to `ReconcileAct`, but
load tasks and calls take neither lock. `SetSecretRules` happens once after boot, as in
`resolve_and_install`; `Admin` is the key that is installed before serving. The LRU's
choice of victim is left open. `start` and `strict` are history variables of a call.

### Spans, Detect, UrlCredential
A text of *n* bytes is `<<1, …, n>>` and a finding is a span of it. What patterns and models
report is an input: every set of a few spans with an entity, a score and the look of the
slice that the precision gates tell apart. `Step` runs the passes in the order of
`run_detection`; the floor before the context boost, the floor and gates after it, the quote
trim, the exemption of registered secrets and containment in the allow-list are operators
named for the code. `Resolve` sorts and picks greedily; `Apply` splices from the right, with
the shift a misplaced splice causes. Fingerprints are compared with the detections they
stand for. In `UrlCredential` a text is a sequence of atoms `<<class, depth>>`: how many
rounds of percent-decoding show the character; `Levels` are the copies that are scanned.
The pattern of `user:pass@` (`recognizers.rs:878`) is not modelled.

### Unmask, Tokens
`Unmask` is pure: sequences of characters of which only the brackets, quotes, backslash,
colon and blank matter. `Tokens` keeps the store, one manifest per turn, the resolved and the
registered secrets, the broker policy and the capture seed. A handle is a function of value
and kind under the salt, so a restart mints the same handles into an empty store. Restoring
changes nothing; the properties say of every state what every read would return
(`LookOf`), which covers every time of reading.

### Stream and Relay
A script says what each content block will hold; a frame delivers any number of its
characters. `Classify` decides what is safe to send and what may still become a token,
`Flush` what is sent when a block stops; the three relays differ in when that is.
`Relay` is the abstract specification: what has been sent of a block is a beginning of the
transformed text received so far, and all of it once the block has ended. The refinement
mapping transforms the received text at once (`Whole`) and compares with what the relay
has sent; `RelaysWholeText` is `Relay`'s specification under that mapping. It covers prose
blocks of all three wires; for tool input, where quotes around a token matter, `NothingLost`
and `StreamRestores` say what must hold. `"chat_early"` is a chat stream that names `usage`
before its end; its terminal chunk flushes every choice, a held token's beginning too, so the
refinement leaves that wire out.

### Walk
A leaf is named by the keys on its path; roles and kinds of block are keys of their own. A
walk of a wire is an operator from the path to *mask as this surface*, *scan* or *skip*, one
clause per arm of the code's match. `Receive`, `Prewarm`, `WalkLeaf`, `Forward`, `Answered`,
`Respond` are the passes; `Register` installs a rule between any two leaves. The typed walk of
the Anthropic wire reads of a block what `walk.rs:261` to `:319` reads: the text of a text block
and of a compaction, the input of a tool call, the address (`source.url`) of an image or a
document, and these in a tool result. The other fields of a block (a document's title, context,
citations and inline source, thinking) and the blocks of a kind without an arm are neither masked
nor scanned by it, with masking on or off (`src/docs/THREAT-MODEL.md:171` names only the binary data among them, and section 3 has the
sentence it contradicts); `Unread` names them and `RegisteredStaysHome`
excludes them. The fallback walk, for a body that does not fit the types, does read them. Of the
OpenAI content parts the shapes have the text, the refusal and the address of the part; its other
fields (`detail`, annotations, parts of an unknown kind) are no paths of the model and nothing is
claimed of them.

### Request
One request with a nondeterministic shape (endpoint, conversation in URL and header, what
body and headers carry) goes through its handler: every read of shared state is a step. The
writers are the operator's and the resolver's. The window is a deadline per conversation and
a clock: arming reads the clock before it takes the lock, expiry is lazy at a request or a
status query, and the sweep collects. `balance` and `lastDeadline` are history.

### Approvals
The monitor's mutex is taken separately for each access, so `decide` is take, send, stamp and
a timeout is give up, unpark, stamp. Requests arrive once; operators' calls overlap.

### MonitorIndex
Recording happens under one lock and is one step. A text stands for its hash. `vetted` is
history: what the reviewer of a conversation was shown. Ties within a millisecond are
resolved in every way, as the code's sort leaves them. The model's clock never runs back; the
code reads it before it takes the lock (`monitor/store.rs:266`, `:306`), so two recordings may
enter a few milliseconds out of order, which the model leaves out. A millisecond has at most
`PerTick` recordings, because a conversation must outlive its requests in the ring (section 5).

### ConfigPlane
Endpoints hold `config_control` and are one step; the command line holds nothing and each of
its reads, writes and calls is one. A file gives values to keys or is broken. `promise` is
history: what the user was told is on or allowed.

### Gate, Settings, Codex, Doctor
Hooks are short processes and every one is cut at the points where another process can run.
`Gate` has the session's route in its environment, the baked route in the settings, the
proxy and the ports; `told` is what the model was last told, `moved` marks a hook that acted
on reads older than the last event; a run starts in a fresh project, or after an opt-out that
another window's hook undid. `Settings` is the two files as the parts the code reads
or writes; `mine` is the user's own content, with the files in which the user keeps a base URL
(`urls`) and whether an enable wrote over the one in the local file (`over`); `Interrupted` is a
cut between two writes. The user edits between commands, not during one. `Codex`
has a clock of half seconds, because the transcript's name cuts the start to seconds and the
file's mtime does not. `Doctor` has
`shaken`, set when the world moved under a command: the properties speak of runs that were
not shaken.

## 3. Runs

| Run | Question | Bounds |
|---|---|---|
| `launch_faults` | every surviving hook returns without a lock; a dead holder's lock goes away | 2 hooks of 2 builds, pinned port, all faults: slow probes, crashes, signals, failed spawns and publishing, strangers, dying hooks, aged locks |
| `conversations` | *routing*: no downgrade, map and file agree, what becomes of a lost pin; *index*: deltas, ledger, evictions | 2 conversations, 2 targets, 3 boots, every fault; 4 requests of 7 shapes, ring 2, 3 conversations, ledger 2, 2 requests per millisecond |
| `hooks` | *zdr*: the cap; *gate*; *settings*; *codex*; *doctor*; *config* | 2 conversations, cap 1, 2 boots; 1 session, 2 ports, 3 events; 3 edits; 4 ticks, 2 faults, the clock never put back; 2 moves; 3 operations |
| `engine` | *cache*: cache, secrets and cap; *ml*: the slot and the required model | 2 threads, 2 calls; *cache*: 2 leaves, late secrets, the model loading from boot, 1 policy write or 1 midnight (`CacheWrites`); *ml*: 2 models, 2 writes, 1 leaf (`MlWrites`) |
| `masking` | *tokens*; *detect* | 2 turns, 5 values, 6 handles, 1 control event; texts of 3 bytes, 3 findings |
| `request` | *request*: pins, secrets, window; *launch*: one holder, one start at a time | 1 request of 12 shapes, clock 3, ttl 2, 1 flip of each switch; 3 hooks and 1 earlier session, 4 ports, no faults |
| `waits` | *approvals*: the gate; *calls*: calls end; *launch*: all are served | 2 requests, 2 operators, limits 1 and 2, ring 1; 2 threads, 3 calls, failing inference; 2 hooks and 1 earlier session, 3 ports, no faults |
| `reply` | *stream*: the relay; *walk*: the walkers; *url*: encoded credentials | texts of 2 pieces, 2 blocks, 4 wires; bodies of 2 leaves, the paths `MCPaths` of 3 wires; 5 atoms, 3 levels, addresses that name a credential |

**Properties.** What one component promises is one property where a run checks it whole: a
conjunction of named parts, each stated and commented in the module. TLC evaluates every part
in every state.

| Property | Parts |
|---|---|
| `LaunchEnds` | `HookEnds`, `DeadLockYields` |
| `ZdrSound` | `ZdrTypeOK`, `OpIsRecoverable`, `BootIsFaithful`, `WithinCap` |
| `CacheSound`, `SlotIsSound` | `CacheHonest`, `MaskIsUncached`, `CacheWithinCap`; `NoteIsCurrent`, `SingleFlight` |
| `DetectSound` | `DetectTypeOK`, `PlanIsSpliceable`, `SpliceIsExact`, `SecretsAreMasked`, `RuleStands`, `CredentialStands`, `PrefilterIsHarmless`, `FingerprintDecides` |
| `UrlMasked` | `UrlTypeOK`, `OnlyCrossedNarrowed`, `WholeValueMasked` |
| `TokensSound`, `NothingEscapes` | `TokensTypeOK`, `RoundTrip`, `NoReintern`, `SeedCoversLocal`; `BrokerSealed`, `LocalStaysHome`, `BrokerBounded` |
| `WindowSound` | `RequestTypeOK`, `ClearOnlyInWindow`, `WindowBounded`, `WindowEndsOnce` |
| `StreamSound` | `StreamTypeOK`, `NothingLost`, `HeldBounded`, `StreamRestores` |
| `WalkProtects` | `WalkTypeOK`, `GivenUpIsRefused`, `RegisteredStaysHome`, `FallbackCovers`, `OnlyUsersBypass`, `ToolsStayGated`, `RawAgreesWithLeaf` |
| `ApprovalsSound`, `WaitsEnd` | `ApprovalsTypeOK`, `HeldGoesOnlyIfApproved`, `PendingIsAnswerable`, `OneDecision`; `HoldEnds`, `CallsEnd` |
| `IndexSound`, `LedgerKeeps` | `MapsAgree`, `AnchorsIdentify`, `TurnsNameRecords`; `CurrentIsKept`, `LaneNeverDrops` |
| `ConfigSound` | `ConfigTypeOK`, `BrokerFollowsFiles`, `MlIsLiveOwned`, `AdditionsSurvive`, `AllowListSurvives`, `OfflineBaseAgrees` |
| `GateTells` | `GateTypeOK`, `BeliefIsCurrent`, `SurfacesAgree` |
| `SettingsKept` | `LineKept`, `EntriesKept`, `DefaultsKept`, `UrlKept`, `DisableIsInverse`, `EnableIsComplete` |
| `CodexSound` | `CodexTypeOK`, `UsersConfigKept`, `EnableInstalls`, `DisableRestores`, `ConfirmedIsLaunched`, `OnboardedIsLaunched`, `OverrideIsWarned` |
| `DoctorHonest` | `DoctorTypeOK`, `NoFalseGreen`, `NoFalseRed`, `SingleIsSingle`, `NoFalseAllClear`, `ParsersAgree` |

**Composed runs.** Several modules share no state, and one TLC run checks them side by side:
the MC module has a variable `part`, chosen in `Init`; the part that moves runs its own
`Init` and `Next`, the others rest in one of their initial states; of `Launch`, whose steps
are fair, it is a state in which no step is due (`LaunchRests`). The reachable states
are the sum of the parts' states and every invariant is checked in each, so nothing is
hidden by the composition and nothing is gained but time.

Why these bounds suffice. Every defect we can think of in the lock needs a holder and two
contenders; in start-up two hooks of two builds; in ZDR one conversation that is changed
and one that is not, and a boot, an operation and a later boot; in the cache one call that
fills an entry, one that uses it, and one change in between. A second write in the *cache* part of
`engine`
multiplies the states by twenty and adds no new pair of conflicting steps; its *ml* part has
two, since for the slot two writes and a late load do matter. A stream needs one token that is
cut and one neighbour (a broken token, a quote, another block) to be mistaken for part of it.
Overlap resolution needs the span kept, the span dropped and one that touches both. A ring
of two with four requests has a baseline that survived, one that was evicted and a
conversation that returns. A ledger of two with bodies of up to two tokens is always at its
limit. A window needs to be armed, renewed once past its ceiling, and looked at on both sides
of its end. The gate needs a hook, an event under it and an event after it. `MaxWrites`,
`MaxCalls`, `MaxDay`, `MaxBoots`, `MaxEvents`, `MaxEdits`, `MaxTicks`, `MaxFaults`,
`MaxMoves`, `MaxFlips`, `MaxClock`, `MaxRequests` and `PerTick` are the bounds in guards.
Permutations of threads, turns, and of conversations and targets are used as symmetry in
runs without temporal properties. Deadlock is not checked: the systems modelled stop when
every hook has returned, or when the bounds are used up.

### Where code and documentation disagree
Four runs expect a violation; `findings` in `PROJECT.json` quotes the sentences.

| Run | Sentence | What happens |
|---|---|---|
| `launch_double` | "a sibling can never double-launch" | no second look at the record once the lock is held |
| `lock_reclaim` | the lock goes "to exactly one caller" (`sordino-state/src/lib.rs:522`) | two launchers judge a dead holder's lock stale and the second's rename takes the first's fresh lock |
| `zdr_cleared` | a revert is "eventually-visible" (`sordino-proxy/src/state.rs:838`), the sentinel is not deleted while "other conversations still need to see it" (`sordino-hooks/src/main.rs:6342`) | a clean boot deletes the sentinel of a damaged file before a conversation that lost its pin took a turn |
| `detect_empty` | a registered secret is "never silently passed through" | a custom rule that matches the empty string at the start of a secret survives overlap resolution; its splice shifts the text and the secret's splice misses |

More counterexamples that TLC finds, most in seconds. The configuration is one of the
project's; where it is a run's, its properties are replaced by the one named here, and what else
changes is said:

| Configuration | Module | Property | Sentence, and what happens |
|---|---|---|---|
| `LaunchLock_drop.cfg` | `LaunchLock` | `DropOnlyOwn` | the drop never deletes "the *successor's* lock" (`sordino-state/src/lib.rs:473`); it reads the lock file and then unlinks the path, and a takeover of an aged lock between the two puts the successor's lock there |
| `Launch_faults.cfg` | `Launch` | `RecycleKeepsSalt` | a recycle "reuses the same salt" (`sordino-hooks/src/main.rs:11524`); SIGINT makes the old proxy remove the record that holds it |
| `Zdr_cleared.cfg`, faults `verify` and `reportfail` | `MCZdrSessions` | `RevertIsTold` | as `zdr_cleared`; a revert whose report could not be written is kept in the file for the next boot, and a later engage rewrites the file without it |
| `Zdr_cleared.cfg`, faults `verify` and `slowhook` | `MCZdrSessions` | `RevertIsTold` | as `zdr_cleared`; a hook reads a report, a boot replaces it, and the hook removes the one it has not read |
| `Settings_url.cfg` | `MCSettings` | `UrlIsRestored` | "disable is a true inverse no matter where the routing landed" (`sordino-hooks/src/main.rs:4330`); an enable writes the route over a base URL of the user's in `settings.local.json` and saves it nowhere |
| `Url_crossing.cfg` | `MCReply` | `NeverNarrowed` | "Overlapping spans across levels are merged downstream (the larger span wins), so masking is never narrowed" (`sordino-engine/src/recognizers.rs:909`); `resolve_overlaps` merges nothing: of two values that cross, as in `token%3Dxyz?token=aa%26bbbb`, the shorter is dropped whole and its part outside the longer is not masked |
| `Reply.cfg` | `MCReply` | `EmbeddedStaysToken` | an embedded token is kept verbatim (`sordino-engine/src/lib.rs:477`); a frame that holds exactly the token from inside a longer string is taken for the whole value (`sse.rs:274` looks at the fragment only) |
| `Reply.cfg` | `MCReply` | `DocumentsStayHome` | "the request path masks every outbound text field" (`sordino-proxy/src/walk.rs:4`); of a document the typed walk reads the address only (`walk.rs:265`, `:310`), and a registered secret in its title, context or inline text is neither masked nor refused |
| `Hooks.cfg` | `MCHooks` | `SwitchStays` | an explicit enable is not lost (`admin.rs:493`); `apply_threshold` PUTs back a whole configuration it fetched before (`sordino-hooks/src/main.rs:7945`) |
| `Hooks.cfg` | `MCHooks` | `IntendedRouteKept` | "we NEVER strip a route a project still intends" (`sordino-hooks/src/main.rs:5774`); an enable that migrates the committed file and then fails to write the local one has stripped the only route |
| `Hooks.cfg` | `MCHooks` | `WarnIsTrue` | "no traffic from this session has reached it" (`sordino-hooks/src/main.rs:1842`); the proxy forgets routed sessions after a pause |

Further observations, which no configuration records:

- *Launch and ZDR.* `wait_for_live` ignores the build of
  the proxy it finds (`sordino-hooks/src/main.rs:6826`), and a record is read, probed and
  returned with nothing that holds the proxy in place: a hook may return a port whose proxy
  stops in the next moment. The model takes the probe and the return as one step;
  `EveryoneServed` speaks of the proxy after the hooks have returned.
- *Engine.* Key and detection read the clock separately (`lib.rs:1085`, `detect.rs:298`):
  across midnight an entry may hold the detections of the day after its bucket; `MaskIsUncached`
  in `CacheSound` says that an answer is still that of a day of the call. `secrets_fingerprint` leaves out
  `case_sensitive`; no state of the program tells the difference. Of two registered secrets
  that overlap only one is kept. An entity set to Keep that wins an overlap leaves the
  credential it overlaps in plaintext. The comment of the credential recognizer speaks of a
  single decoded copy (`recognizers.rs:786`), the code scans four levels.
- *Tokens.* Optional secrets resolve after intake opens: an earlier token of the same value
  stays revealable. A custom literal token cut by a frame is not restored. Deleting and
  promoting tokens have no caller in the proxy today.
- *Streams.* The terminal chunk of a chat stream flushes every choice's held tail, also of
  choices that have not ended; a stream error drops held tails without a word.
- *Window.* An operator's clear ends the window; the time up to which the last arming had
  promised it (`lastDeadline`) is not lowered by it, so `WindowBounded` bounds a window by what
  was promised.
- *Monitor.* A terminal verdict is said to be final (`monitor/model.rs:53`), but `decide` stamps
  Approved over TimedOut (`monitor/store.rs:664`) when an approval races the timeout; the
  request was answered 403 all the same. A client that disconnects while its request is held leaves the waiter parked
  and the record Pending; a disconnect before the response headers leaves it InFlight. A
  pending record can be pushed out of the ring. A record's `masked_effective` is read after
  the body was masked. A content match that finds nothing may reuse an id that exists
  (`store.rs:1086`).
- *Config.* `persist_custom_replacement` appends only the new rule although merging replaces
  arrays (`persist.rs:3`, `:131`), so a rule that a lower layer gave is dropped by the next
  reload: `AdditionsSurvive` promises the rules that were added and no others; un-masking a built-in default word is undone by a reload;
  `masking_disabled_active` lists expired windows; `edit_scope_file`
  (`sordino-hooks/src/main.rs:9911`) starts from an empty document when the file does not
  parse.
- *Walk.* The fallback scans, and does not mask, below contract keys, although `walk.rs:28`
  speaks of every string leaf; it masks `metadata.user_id`, which the typed walk leaves
  alone; it hands tool results to the engine as user messages. Object keys are scanned where
  a subtree is scanned and masked nowhere.
- *Gate.* A status record is pruned after two idle weeks, or a hook is killed between its
  write and its line: the next un-masking is not narrated (`BeliefIsCurrent` excludes both
  through `lost` and `killed`). The registry is written before the route
  (`sordino-hooks/src/main.rs:3199`), and the self-heal of a stale route is only reached by
  a session that is not routed.
- *Settings and Codex.* An enable that fails after its migration leaves the user's status
  line only in the sidecar. A stale sidecar can bring back an old line. A re-enable keeps
  the provider saved first. When the clock goes back an hour, a session launched before the
  block was written passes for one launched after it. Any touch of `config.toml` blocks the
  running sessions. All these files are read, changed and written without a lock.
- *Doctor.* `configured_upstream` says it matches the running proxy but reads the files and
  the shell; verify prints its headline on a warning too; with the Contact category off the
  failure line says that masking is off; a `localhost` route is reported as unmasked.

## 4. Fairness

- Hooks, proxies and request threads that have not died are scheduled (weak fairness of
  their steps). Deaths, faults, prompts, config writes and the clock are never forced.
- `GiveUp` is strongly fair: `wait_for_live` is a `for` loop of a hundred polls, so a hook
  that finds nothing again and again does leave it, although each poll disables `GiveUp`
  while its probe is out.
- The inference gate needs only weak fairness of the calls: a call waits at it at most once
  per run of its bounded number of calls; the mutex of the code is not strongly fair, and
  nothing here assumes it.
- A writer that entered `ConfigWrite` finishes it: the code does not await while holding
  its locks.
- A request handler's steps and its timeout (`Expire`) are weakly fair: the timer fires.
  Operators are not forced to decide; a decision that has begun ends.
- `GateIsBounded` and `RelaysWholeText` are safety properties and need no fairness.

## 5. Proofs

Theorems hold for every value of the constants that meets the named assumptions; TLC
evaluates these assumptions in every run.

- **ConversationsProofs.** Two components that share no state, both keyed by conversation.
  Trust: `ZdrInvariant` proves the conjunction of the type invariant,
  `OpIsRecoverable`, `BootIsFaithful` and agreement under *all* faults; `ZdrNoDowngrade` and
  `ZdrAgree` follow. Agreement alone is not inductive: the rollback needs `op.prior`, the
  boot needs what `survivors` holds. `ZdrIsSound` adds the cap: the map is no larger than it
  because a rollback only gives back an entry that was there and a boot only keeps
  entries of a file that was written within the cap. `ZdrNoSilentRevert` assumes nothing of the
  faults: a pin that is gone is told, or kept for the next boot, or its last word was destroyed in
  one of the three ways `unheard` records. Its invariant (`NewsInv`) is that the epoch of a
  sentinel is newer than every marker a hook left, and that once a boot has looked at an entry
  and not kept it, the user will hear of it. `ZdrRevertIsTold`, without the three ways, assumes
  that reports can be written, files are not damaged and hooks are not overtaken
  (`OnlyBenignFaults`), and rests on `PinOnDisk`. Each premise is needed: section 3 has a
  counterexample for each of the three faults.
  The monitor: `IndexIsSound`, `DeltaIsHonest` and `LedgerIsKept`. The maps are
  trimmed by different limits with ties within a millisecond, so the invariant counts:
  the conversations seen in this millisecond are no more than its recordings
  (`TickCounted`), and those seen no earlier than a record's are bounded by its position
  in the ring (`RingRecent`). Two assumptions carry it. `MonitorAssumption`: the ring and one
  millisecond's recordings together are at most one more than the conversations kept (1024
  conversations against a ring of 500, so fewer than 526 recordings in a millisecond); the TLC
  run has it with equality. `BodiesAssumption`: the surfaces of a body are sequences and
  its tokens finite; both hold of every body by construction.
- **EngineProofs.** Detection, the credentials of an address, and the engine that runs them.
  *Detection*, `DetectionIsSound`. `Kept` and `InOrder` are CHOOSEs, and a CHOOSE of what does
  not exist is anything: first it is proved that they exist. `Before` orders the places of a
  list strictly (`Ranks`: tier, score, length, then the place); on a finite strict order the
  greedy choice exists (`GreedyExists`) and any set of places can be listed in it
  (`ListExists`), both by a least counterexample. Hence what `Resolve` gives: it loses no
  finding but to one that outranks and overlaps it (`ResolveIs`), in the order of the text and
  without overlaps. The splice: after the last *k* findings the text before them is still the
  leaf's, and behind it stand exactly the bytes that none of the *k* hides (`SplicedTo`). The
  passes: what is gathered is what the passes make of what they were given (`GatheredIs`), and
  the inductive invariant says so of every phase (`DetectInv`). `DetectAssumption` types the
  inputs (spans inside the leaf, integer scores) and says that a registered secret is not
  empty, which `secrets.rs:114` ensures. The premise `RulesMatchText`, that no rule of the user
  matches the empty text, is not one the code ensures: the run `detect_empty` shows what
  happens without it.
  *Addresses*, `UrlCredentialMasked`, for any length, depth of encoding and number of levels.
  Two values of one scan do not overlap; of two values that overlap, one loses only to a longer
  one or to an equal one, and a value that loses to one around it is masked by it. So a value
  that is not masked crosses another; `Url_crossing.cfg` shows that this exception is needed.
  *The engine*. `MaskTypeCorrect`; `MaskSlotFollows` from an invariant on
  generations (a load in flight is no newer than the slot, and the load of the slot's
  generation is of the model wanted); `MaskRequired` from what a strict call can have
  seen; `MaskSecretsStay` from two facts, that a cache entry detects all the secrets of its
  key in its text, and that a call's snapshots contain the secrets installed when it
  began. `MaskCacheSound` rests on days: an entry's day lies between
  that of its key and today, and a call's detections are those of a day since its snapshot. The
  theorem has config writes and midnights together, which the run keeps apart.
  `MaskSlotIsSound` rests on who holds the inference gate.
- **ControlProofs.** How a proxy comes to run and what the operator controls: three components
  that share no state.
  *The lock*: `LockTypeCorrect` for all faults. With `Faults = {}`:
  `LockNamesHolder` (the file names the one holder, so nobody ever finds it reclaimable) is
  inductive, and implies `ExclusiveLock` (`LockExclusive`).
  The premise is needed: the run `lock_reclaim` gives the counterexample without it.
  *The start-up*: `LaunchTypeCorrect` proves types together with `HookPhases`, which ties
  a hook's position to the record it holds and to its position in the lock. `LaunchOneStart` assumes `Patient` (no deaths,
  no takeover, no wait that runs out) and adds `StartIsGuarded` to the lock's
  invariant: the lock alone says nothing about proxies.
  *The configuration*, `ConfigIsSound`: the invariant is what
  makes the next load come out right, not what the last one gave. Whatever the operator was
  promised is in the local file (`Saved`: every rule at least as often as it was promised, the
  allow list exactly), and each write of an endpoint or of the command line either leaves the
  two lists alone or changes promise and file alike; the command line's write over a file
  that changed since it was read ends the promise. Counting occurrences is needed, since the
  same rule may be added twice and removed once. `ConfigInputs` says that files, patches and
  commands hold values of the right types and that no command edits a rule or an allow
  list: serde refuses a PUT with other types, and a file with such a value is not covered.
  *The gate*: `ApprovalsAreSound` and `ApprovalsGateIsBounded` hold for any number of
  requests and overlapping operators. The invariant follows one answer from the operator
  that took the waiter to the handler that reads it: a parked waiter has a pending record, a
  waiter taken belongs to one call of `decide`, a record is stamped by whoever took it.
- **RequestProofs.** `RequestPinHonoured`, `RequestSecretStays` and `RequestWindowSound` for
  any conversations, targets and clock. The invariant says, of every position of the
  handler, what its earlier reads still imply after other tasks' writes: the target is
  the one read at entry, a mask done covers every secret known when the request arrived.
- **HooksProofs.** Four components that share no state. `GateFailsClosed` and
  `GateTellsTheTruth`: the invariant ties what a probe read to what cannot have changed under
  it unless `moved` or `killed` was set. `DoctorIsHonest`: what each probe found (`CanaryHolds`,
  `DiagnosisHolds`) is true at every later step of the run unless it was `shaken`.
  `SettingsAreKept`: where the user's line is at any moment (`LineHeld`: in force, or in the
  sidecar while ours is in force or a write was cut), that the notes are never ours alone
  (else a strip would change what they mean), and what a command knows between two writes
  (`EnableKnows`, `DisableKnows`). A base URL of the user's has its own step (`UrlKeptStep`): a
  strip removes the URL only where it is the loopback address of the port beside it
  (`UrlStripFacts`), and the one write that can hit it is recorded in `mine.over`. `CodexIsSound`: a command writes over the very file it
  read, `Underneath` (the provider a disable would select) is what the user chose last, and a
  route read from the file is the session's own until the file is written. The premise
  `Back = 0` is needed: once the local clock is put back, a file written after the launch
  passes for an older one, and TLC refutes the property with `BackAt = 3` and `Back = 2`.
  `SettingsAssumption` and `CodexDocsAssumption` say what the files may hold at first: nothing
  of ours in the local settings, no provider block of ours, and of an older install at most
  one hook group per event, in an inline list. They do not cover a file in which an older
  version's hooks were already rewritten as tables before the first command; the runs start
  from such files only after the user's edit (`CodexReform`).
- **TextProofs.** Lemmas for the two modules whose models flatten pieces of a text with a fold
  (`UnmaskInner` writes one piece per position, `Those` one per item it keeps). What a fold does for sequences of every length is an
  induction, and the library's induction theorems take an operator; here it is argued by a
  least counterexample instead: a set of naturals that is not empty has a least element
  (`SmallestOf`), the partial flattenings exist and are unique (`PartialExists`,
  `PartialUnique`), and the fold ends in the last of them (`FlattenIsPartial`). From there
  `FlattenConcat` and `Cover` (pieces that are the parts of a text, in order and without a
  gap, flatten to the text) follow.
- **ReplyProofs.** `StreamIsSound`, `RelayIsWhole` and `WalkIsProtected`, all about texts.
  *Restoring.* `UnmaskBack`: putting the handles back into a restored text gives the text that
  was restored. Its piece at each position accounts for the characters a token spans
  (`PieceBack`), and tokens do not overlap (`Covered`). `UnmaskShows`: every value shown was
  allowed out by the gate of its surface.
  *The stream.* `StreamInv` says of every block that forwarded text with the handles put back,
  then what is held, is the text received so far; it is inductive since a cut splits the buffer
  in two (`CutIs`, `HoldIs`), and each part restores itself, wherever it is cut
  and whatever ends the stream. `StreamAssumption` types the scripts of the three wires.
  *The refinement.* `RelayIsWhole`: `StreamSpec` implements `Relay`. What a restored text
  reads as at a position depends only on a token that begins there or at the two positions
  before it (`UnmaskReads`), so two texts restored one after the other read as their
  concatenation restored at once when no token spans their border (`Parted`, `ReadsConcat`). A frame is cut there: where
  `split_safe` holds nothing the text does not end in the beginning of a token
  (`SplitClean`), and what it holds begins with a bracket and has no token (`HeldTail`).
  `RelayInv` adds to `StreamInv` that what was forwarded of a block reads as its part of the
  whole text, that a block of prose holding nothing ends clean unless its text is complete or it is over, and that an ended block
  holds nothing; every action then appends to what was sent (`Forwarding`), which is a
  step of `Relay` or a stutter (`RelayPasses`).
  *The walks.* A path by itself may be anything, so `WalkAssumption` gives the grammar of each
  wire: the fields a typed body has where the walk looks (`Shape`); below those any
  names may follow, at any depth. Three comparisons carry the invariant: what a walk leaves
  alone is `Opaque` (`DoIs`), what the user did not write is never masked under the user's
  surface (`AnthropicSurface`, `ChatSurface`, `ResponsesSurface`), and the fallback masks what
  the typed walk of the messages masks (`FallbackMasks`). `WalkInv` then says what each leaf
  walked so far has become, whatever was registered meanwhile. Of a field the typed walk does not
  read (`Unread`) no such claim is made.
  *The reply.* `RawAgreesWithLeaf` compares two restorations of different strings: a decoded
  value, and the same value between quotes with its quotes and backslashes escaped. `Placed`
  maps positions of the one to positions of the other; a quote ends the string only after
  an even run of backslashes, and the run before a character's place is even (`EvenRuns`),
  which is what `tool_input_whole_value_mode` relies on to tell a whole value from an
  embedded token. The properties were widened for it to handles and values promoted
  during the session, which the earlier form left out.
  `UnmaskAssumption` says that the eight marks (brackets, quote, backslash and so on) are
  different characters, none a handle, and that a shown value is no character.
- **TokensProofs.** `TokensAreSound` and `NothingReachesAnother`. The invariant says what every
  entry of the store and the manifests is (`EntriesHold`: of a kind its value can get, under
  its own handle, masked early if its secret was named but not in force), what is in force
  at which time (`InForce`), and that what was interned is in the store or deleted
  (`Interned`). `TokensAssumption` is what the names of `make_token` give: handles of
  different kinds or values differ, except that a fixed token is shared, and the prefix
  tells a brokered one. Collisions of the 48 bits of a handle are therefore not covered.

Only refuted: `DropOnlyOwn`, `RecycleKeepsSalt`, `UrlIsRestored` and the other properties of
the counterexamples of section 3. Only model-checked: the liveness properties (`LaunchEnds`, `EveryoneServed`, `WaitsEnd`),
which are outside the prover's reach.

## 6. Sensitivity

For every property of every passing run `mutants` names a deviation from the code (a dropped
guard, a swapped order, a missing part of a key, a stale snapshot) under which TLC finds the
property violated with the same configuration. For a conjunction it is the deviation that is
hardest to see.

## 7. Not modelled

Left out of the modules above: I/O errors of the lock other than the two it handles (they
end the call), the age-based pruning of ZDR reports, hash collisions, the regular
expressions of the recognizers and the numeric model, wording and logging. Not modelled at
all: the pages of the monitor and its append-only log (formatting); the secret providers
(external programs); the import of documents, the scrubbing of transcripts and the secret
command line (sequential rewrites of one text); the legacy state file.
