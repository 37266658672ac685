----------------------------- MODULE MonitorIndex -----------------------------
(***************************************************************************)
(* The request monitor's bookkeeping (crates/sordino-proxy/src/monitor/):  *)
(* which conversation a recorded request belongs to, which of its surfaces *)
(* are new to the reviewer, and the session's ledger of masked values.     *)
(*                                                                         *)
(* Every recording happens under the monitor's mutex, so one recording is  *)
(* one step.  A body is a sequence of blocks; a block's `text` stands for  *)
(* the hash of its text (the call ids of tools are not part of it), its    *)
(* `mark` for the text's opening marker.  The approval gate is module      *)
(* Approvals.  Abstracted: previews, highlights, counts and labels.        *)
(***************************************************************************)
EXTENDS Integers, Sequences, FiniteSets, FiniteSetsExt, SequencesExt

CONSTANTS
    RequestBodies,       \* [id, session, blocks]: the requests clients send
    CapturedTexts,      \* block texts a captured reply may hold
    NoId,         \* no explicit id, or no session id
    Odd,          \* ids too long or with control characters
    BlankIds,        \* ids that are empty once trimmed
    Withheld,     \* tokens of a class that is not peekable
    MaxRing,      \* MAX_RECORDS
    MaxConvs,     \* MAX_TRACKED_CONVERSATIONS
    MaxTokens,    \* MAX_SESSION_TOKENS
    PerTick,      \* bound: requests within one millisecond
    MaxRequests   \* bound: requests altogether

\* A conversation of the ring outlives its requests: 1024 conversations, 500 records,
\* and fewer than 526 requests recorded, one after the other, in one millisecond.
ASSUME MonitorAssumption ==
    /\ MaxRing \in Nat \ {0} /\ MaxTokens \in Nat \ {0}
    /\ MaxConvs \in Nat /\ PerTick \in Nat \ {0}
    /\ MaxRing + PerTick <= MaxConvs + 1

VARIABLES
    records,      \* the ring, newest first
    turns, human, userInputs, lastSeen, anchors,   \* the maps by conversation
    tokens,       \* session_tokens
    now, inTick,  \* now_ms, and the requests seen in this millisecond
    nreq,         \* requests so far
    vetted        \* history: texts shown to the reviewer, by conversation

indexVars == <<records, turns, human, userInputs, lastSeen, anchors, tokens, now,
               inTick, nreq, vetted>>

With(f, k, v) == [x \in DOMAIN f \cup {k} |-> IF x = k THEN v ELSE f[x]]
Lookup(f, k, default) == IF k \in DOMAIN f THEN f[k] ELSE default

NoEntries == [x \in {} |-> 0]

IndexInit ==
    /\ records = <<>> /\ tokens = NoEntries
    /\ turns = NoEntries /\ human = NoEntries /\ userInputs = NoEntries
    /\ lastSeen = NoEntries /\ anchors = NoEntries
    /\ now = 0 /\ inTick = 0 /\ nreq = 0
    /\ vetted = NoEntries

----------------------------------------------------------------------------
(* Surfaces.                                                               *)

\* collect_surfaces: blank texts are not shown.
SurfacesFromBody(body) == SelectSeq(body.blocks, LAMBDA b : b.mark # "blank")

\* provenance_of: unrecognised content is user input.
ProvenanceOf(b) ==
    CASE b.kind \in {"system", "instructions"} ->
             IF b.mark = "x-anthropic" THEN "harness_meta" ELSE "harness_frame"
      [] b.kind \in {"tool_use", "tool_result"} -> "tool_io"
      [] b.role = "system" -> "harness_frame"
      [] b.role = "assistant" -> "assistant"
      [] b.mark = "claude_md" -> "userctx"
      [] b.mark \in {"reminder", "command"} -> "harness_frame"
      [] OTHER -> "user_input"

ProvenanceRank(lane) ==
    CASE lane = "userctx" -> 5
      [] lane = "tool_io" -> 4
      [] lane = "user_input" -> 3
      [] lane = "assistant" -> 2
      [] lane = "harness_frame" -> 1
      [] lane = "harness_meta" -> 0
      [] lane = "none" -> -1

Texts(surfaces) == {surfaces[i].text : i \in DOMAIN surfaces}

Manifest(surfaces) == UNION {surfaces[i].tokens : i \in DOMAIN surfaces}

\* token_provenance_map: the highest lane the token is seen in.
LaneOf(surfaces, t) ==
    LET lanes == {ProvenanceOf(surfaces[i]) :
                    i \in {j \in DOMAIN surfaces : t \in surfaces[j].tokens}}
    IN IF lanes = {} THEN "none"
       ELSE CHOOSE l \in lanes : \A k \in lanes : ProvenanceRank(k) <= ProvenanceRank(l)

----------------------------------------------------------------------------
(* The ledger of masked values.                                            *)

\* The lane is promoted, never demoted.
Higher(old, new) == IF ProvenanceRank(new) > ProvenanceRank(old) THEN new ELSE old

\* for_manifest_entry, is_peekable: a secret's plaintext is not kept.
ShownValue(t) == IF t \in Withheld THEN "empty" ELSE "plain"

Sight(led, t, lane) ==
    IF t \in DOMAIN led
    THEN [led[t] EXCEPT !.lane = Higher(@, lane), !.seen = now]
    ELSE [lane |-> lane, seen |-> now, value |-> ShownValue(t)]

\* Deviation: age alone decides.
YieldsByAge(led, current, a, b) == led[a].seen <= led[b].seen

\* (a.0, a.1) <= (b.0, b.1): entries outside the current manifest, and older
\* ones, go first.  Entries that tie are in no order.
Yields(led, current, a, b) ==
    \/ a \notin current /\ b \in current
    \/ /\ (a \in current) <=> (b \in current)
       /\ led[a].seen <= led[b].seen

Victims(led, current) ==
    LET over == Cardinality(DOMAIN led) - MaxTokens IN
    IF over <= 0 THEN {{}}
    ELSE {v \in kSubset(over, DOMAIN led) :
            \A a \in v, b \in DOMAIN led \ v : Yields(led, current, a, b)}

\* ingest_tokens_into, for a manifest and the lane of each of its tokens.
Ingest(manifest, laneOf) ==
    LET led == [t \in DOMAIN tokens \cup manifest |->
                  IF t \in manifest THEN Sight(tokens, t, laneOf[t]) ELSE tokens[t]]
    IN \E gone \in Victims(led, manifest) :
         tokens' = [t \in DOMAIN led \ gone |-> led[t]]

\* ingest_session_tokens, from count_tokens: no surfaces, no lanes.
IngestSessionTokens ==
    /\ nreq < MaxRequests
    /\ \E b \in RequestBodies :
         LET mf == Manifest(SurfacesFromBody(b)) IN
         mf # {} /\ Ingest(mf, [t \in mf |-> "none"])
    /\ nreq' = nreq + 1
    /\ UNCHANGED <<records, turns, human, userInputs, lastSeen, anchors, now,
                   inTick, vetted>>

----------------------------------------------------------------------------
(* The conversation of a request.                                          *)

UnknownConv == <<"unknown">>

\* bound_id: trimmed, and hashed to a handle when it is not printable.
BoundId(tag, raw) ==
    IF raw \in BlankIds THEN UnknownConv
    ELSE IF raw \in Odd THEN <<"handle", tag, raw>> ELSE <<tag, raw>>

AnchorPrefixLen(anchor, seq) ==
    IF anchor # <<>> /\ IsPrefix(anchor, seq) THEN Len(anchor) ELSE 0

\* resolve_content_conversation: the longest anchor that is a prefix, else a
\* new id from the head; ties cannot happen between distinct anchors.
ContentMatches(seq) == {c \in DOMAIN anchors : AnchorPrefixLen(anchors[c], seq) > 0}

Longest(seq) ==
    CHOOSE c \in ContentMatches(seq) :
        \A d \in ContentMatches(seq) : Len(anchors[d]) <= Len(anchors[c])

Minted(seq) ==
    IF <<"auto", seq[1]>> \in DOMAIN anchors THEN <<"auto", seq[1], seq>>
    ELSE <<"auto", seq[1]>>

\* A strictly longer transcript advances the anchor; an equal one leaves it.
AdvanceAnchor(c, seq) ==
    IF c \in DOMAIN anchors /\ anchors[c] = seq THEN anchors ELSE With(anchors, c, seq)

\* system and instructions are shared by all conversations.
AnchorSeq(surfaces) ==
    LET own == SelectSeq(surfaces, LAMBDA s : s.kind \notin {"system", "instructions"})
    IN [i \in DOMAIN own |-> own[i].text]

\* Bodies are finite, and what SelectSeq leaves of a sequence is a sequence.
ASSUME BodiesAssumption ==
    \A b \in RequestBodies :
        LET s == SurfacesFromBody(b) IN
        /\ s \in Seq({b.blocks[i] : i \in DOMAIN b.blocks})
        /\ AnchorSeq(s) \in Seq(Texts(s))
        /\ \A i \in DOMAIN b.blocks : IsFiniteSet(b.blocks[i].tokens)

\* Explicit id, then the body's session id, then the content.
ConversationOf(body, seq) ==
    IF body.id # NoId THEN BoundId("id", body.id)
    ELSE IF body.session \notin BlankIds \cup {NoId} THEN BoundId("cc", body.session)
    ELSE IF seq = <<>> THEN UnknownConv
    ELSE IF ContentMatches(seq) # {} THEN Longest(seq)
    ELSE Minted(seq)

ByContent(body, seq) ==
    body.id = NoId /\ body.session \in BlankIds \cup {NoId} /\ seq # <<>>

----------------------------------------------------------------------------
(* The delta.                                                              *)

Overlap(r, surfaces) ==
    Cardinality({i \in DOMAIN r.req : r.req[i].text \in Texts(surfaces)})

\* Deviation: an earlier turn of any conversation is a baseline.
BaselinesAnywhere(conv, turn) == {i \in DOMAIN records : records[i].turn < turn}

Baselines(conv, turn) ==
    {i \in DOMAIN records : records[i].conv = conv /\ records[i].turn < turn}

\* previous_turn_surfaces: the largest overlap, then the most recent turn.
Baseline(conv, turn, surfaces) ==
    LET Key(i) == <<Overlap(records[i], surfaces), records[i].turn>>
        Beats(i, j) == \/ Key(i)[1] > Key(j)[1]
                       \/ Key(i)[1] = Key(j)[1] /\ Key(i)[2] >= Key(j)[2]
    IN CHOOSE i \in Baselines(conv, turn) : \A j \in Baselines(conv, turn) : Beats(i, j)

\* compute_delta, TurnDelta::first and ::prev_unavailable.
ComputeDelta(conv, turn, surfaces) ==
    IF Baselines(conv, turn) # {}
    THEN LET r == records[Baseline(conv, turn, surfaces)]
         IN [form |-> "diff", prev |-> r.turn,
             added |-> Texts(surfaces) \ (Texts(r.req) \cup r.reply)]
    ELSE [form |-> IF turn = 1 THEN "first" ELSE "unavailable", prev |-> turn - 1,
          added |-> {}]

----------------------------------------------------------------------------
(* Recording.                                                              *)

\* Deviation: the most recently seen conversation goes.
StaleNewest(seen) ==
    IF Cardinality(DOMAIN seen) <= MaxConvs THEN {{}}
    ELSE {{c} : c \in {d \in DOMAIN seen : \A e \in DOMAIN seen : seen[e] <= seen[d]}}

\* evict_stale_conversation_state: the least recently seen goes, from every
\* map.  Conversations seen in the same millisecond are in no order.
Stale(seen) ==
    IF Cardinality(DOMAIN seen) <= MaxConvs THEN {{}}
    ELSE {{c} : c \in {d \in DOMAIN seen : \A e \in DOMAIN seen : seen[d] <= seen[e]}}

EvictStale(gone, seen, tn, hm, ui, an) ==
    /\ lastSeen' = [c \in DOMAIN seen \ gone |-> seen[c]]
    /\ turns' = [c \in DOMAIN tn \ gone |-> tn[c]]
    /\ human' = [c \in DOMAIN hm \ gone |-> hm[c]]
    /\ userInputs' = [c \in DOMAIN ui \ gone |-> ui[c]]
    /\ anchors' = [c \in DOMAIN an \ gone |-> an[c]]

UserInputCount(surfaces) ==
    Cardinality({i \in DOMAIN surfaces : ProvenanceOf(surfaces[i]) = "user_input"})

\* A request with more user input than the one before opens a human turn.
HumanTurn(conv, surfaces) ==
    IF UserInputCount(surfaces) > Lookup(userInputs, conv, 0)
    THEN Lookup(human, conv, 0) + 1 ELSE Lookup(human, conv, 0)

RingPush(r) == SubSeq(<<r>> \o records, 1, Min({MaxRing, Len(records) + 1}))

RecordRequest ==
    /\ nreq < MaxRequests /\ inTick < PerTick
    /\ \E b \in RequestBodies :
         LET surfaces == SurfacesFromBody(b)
             seq  == AnchorSeq(surfaces)
             conv == ConversationOf(b, seq)
             turn == Lookup(turns, conv, 0) + 1
             seen == With(lastSeen, conv, now)
             mf   == Manifest(surfaces)
         IN /\ Ingest(mf, [t \in mf |-> LaneOf(surfaces, t)])
            /\ records' = RingPush([conv |-> conv, turn |-> turn, req |-> surfaces,
                                    reply |-> {}, human |-> HumanTurn(conv, surfaces),
                                    delta |-> ComputeDelta(conv, turn, surfaces)])
            /\ vetted' = With(vetted, conv,
                              Lookup(vetted, conv, {}) \cup Texts(surfaces))
            /\ \E gone \in Stale(seen) :
                 EvictStale(gone, seen, With(turns, conv, turn),
                            With(human, conv, HumanTurn(conv, surfaces)),
                            With(userInputs, conv, UserInputCount(surfaces)),
                            IF ByContent(b, seq) THEN AdvanceAnchor(conv, seq)
                            ELSE anchors)
    /\ nreq' = nreq + 1 /\ inTick' = inTick + 1
    /\ UNCHANGED now

\* ResponseCapture::render and egress_hash: the reply in the form it comes
\* back in.  A block cut at PREVIEW_LIMIT has another hash.
CaptureReply ==
    /\ nreq < MaxRequests
    /\ \E i \in DOMAIN records, t \in CapturedTexts, whole \in BOOLEAN :
         LET block == IF whole THEN t ELSE <<"cut", t>> IN
         /\ records[i].reply = {}
         /\ records' = [records EXCEPT ![i].reply = {block}]
         /\ vetted' = With(vetted, records[i].conv,
                           Lookup(vetted, records[i].conv, {}) \cup {block})
    /\ UNCHANGED <<turns, human, userInputs, lastSeen, anchors, tokens, now, inTick,
                   nreq>>

Millisecond ==
    /\ inTick > 0 /\ nreq < MaxRequests
    /\ now' = now + 1 /\ inTick' = 0
    /\ UNCHANGED <<records, turns, human, userInputs, lastSeen, anchors, tokens,
                   nreq, vetted>>

IndexNext == RecordRequest \/ CaptureReply \/ IngestSessionTokens \/ Millisecond

IndexSpec == IndexInit /\ [][IndexNext]_indexVars

----------------------------------------------------------------------------
(* Properties.                                                             *)

\* The delta hides a surface only if that conversation's reviewer was shown
\* it before, in an earlier request or in a reply captured here, whatever
\* side branches, evictions and returning conversations came between
\* (previous_turn_surfaces, compute_delta).
DeltaNeverHides ==
    [][\A r \in {records'[i] : i \in DOMAIN records'} :
         nreq' > nreq /\ records' # records /\ r = records'[1] =>
            \/ r.delta.form # "diff"
            \/ Texts(r.req) \ r.delta.added \subseteq Lookup(vetted, r.conv, {})]_indexVars

\* A token of the request being recorded stays in the ledger, however full
\* it is, unless the request alone exceeds it; ties within a millisecond
\* included (ingest_tokens_into).
CurrentIsKept ==
    [][nreq' > nreq /\ records' # records =>
         LET mf == Manifest(records'[1].req) IN
         Cardinality(mf) <= MaxTokens => mf \subseteq DOMAIN tokens']_indexVars

\* A value once seen outside the harness's own frames is not folded away
\* with them later: its lane never goes down while it is in the ledger.
LaneNeverDrops ==
    [][\A t \in DOMAIN tokens \cap DOMAIN tokens' :
         ProvenanceRank(tokens'[t].lane) >= ProvenanceRank(tokens[t].lane)]_indexVars

\* What the session ledger keeps when it is over its limit and when a value is seen
\* again in a lower lane (prune_token_universe, ingest_tokens_into).
LedgerKeeps ==
    /\ CurrentIsKept
    /\ LaneNeverDrops

\* The maps by conversation are evicted as a set, and never disagree: as many
\* human turns as turns at most, and an anchor only of a tracked conversation.
MapsAgree ==
    /\ DOMAIN turns = DOMAIN lastSeen /\ DOMAIN human = DOMAIN lastSeen
    /\ DOMAIN userInputs = DOMAIN lastSeen
    /\ DOMAIN anchors \subseteq DOMAIN lastSeen
    /\ \A c \in DOMAIN turns : human[c] <= turns[c]
    /\ Cardinality(DOMAIN lastSeen) <= MaxConvs

\* Two conversations told apart by content have different anchors, so a
\* transcript that grows has one conversation to grow in
\* (resolve_content_conversation).
AnchorsIdentify ==
    \A c, d \in DOMAIN anchors : anchors[c] = anchors[d] => c = d

\* A conversation with a record in the ring is still tracked, so no two of
\* its records get the same turn: eviction by age and the two limits work
\* together (evict_stale_conversation_state, push_record).
TurnsNameRecords ==
    /\ \A i \in DOMAIN records : records[i].conv \in DOMAIN turns
    /\ \A i, j \in DOMAIN records :
         records[i].conv = records[j].conv /\ records[i].turn = records[j].turn
             => i = j

\* The structures keyed by conversation, trimmed by three limits at three places,
\* stay one index of the same conversations.
IndexSound ==
    /\ MapsAgree
    /\ AnchorsIdentify
    /\ TurnsNameRecords
=============================================================================
