------------------------------- MODULE Stream -------------------------------
(***************************************************************************)
(* The three relays of a streamed reply (sse, openai_chat and              *)
(* openai_responses): it arrives as delta frames cut anywhere, several     *)
(* content blocks (choices, items) side by side, and is forwarded with its *)
(* tokens restored.  What may still become a token is held back.  The      *)
(* stream ends, breaks, or its client goes away.                           *)
(***************************************************************************)
EXTENDS Unmask, FiniteSets

CONSTANTS
    Index,        \* content block indices
    Wires,        \* the wire formats: "anthropic", "chat", "chat_early", "responses"
    Script,       \* per wire, what the upstream may send: Index -> [kind, text], kind None without a block
    Look,         \* what the engine knows of the handles
    MaxTokenLen   \* MAX_TOKEN_LEN

VARIABLES
    wire,       \* which relay this is
    script,     \* what this upstream sends
    got,        \* per block: the characters received
    carry,      \* per block: the held tail
    heldKind,   \* per block: the kind of its last buffered delta
    open,       \* the blocks started and not stopped
    stopped,    \* the blocks stopped
    out,        \* per block: what was forwarded
    guard       \* the CompletionGuard: armed, or how it finalized the record

svars == <<wire, script, got, carry, heldKind, open, stopped, out, guard>>

Kind == {"text", "compaction", "json", "thinking"}

ASSUME StreamAssumption ==
    /\ Look \in Lookup
    /\ MaxTokenLen \in Nat /\ MaxTokenLen >= 3
    /\ None \notin Kind
    /\ Wires \subseteq {"anthropic", "chat", "chat_early", "responses"}
    /\ \A w \in Wires : \A s \in Script[w] : \A i \in Index :
          /\ s[i].text \in Seq(Char) /\ s[i].kind \in Kind \cup {None}
          /\ w # "anthropic" => s[i].kind \in {"text", "json", None}

StreamTypeOK ==
    /\ wire \in Wires /\ script \in Script[wire]
    /\ \A i \in Index : /\ got[i] \in Seq(Char) /\ carry[i] \in Seq(Char)
                        /\ IsPrefix(got[i], script[i].text)
    /\ heldKind \in [Index -> Kind \cup {None}]
    /\ open \subseteq Index /\ stopped \subseteq Index \ open
    /\ guard \in {"armed", "completed", "upstream_error", "aborted"}

StreamInit ==
    /\ wire \in Wires /\ script \in Script[wire]
    /\ got = [i \in Index |-> <<>>] /\ carry = got /\ out = got
    /\ heldKind = [i \in Index |-> None]
    /\ open = {} /\ stopped = {}
    /\ guard = "armed"

-----------------------------------------------------------------------------
\* Deviation: a closing bracket always ends the hold.
ClassifyEager(tail) ==
    IF TokenAt(tail, 1) THEN "complete"
    ELSE IF Len(tail) > 1 THEN "no" ELSE "partial"

\* classify, of a tail that begins with a bracket.  Handles stand for token characters.
Classify(tail) ==
    IF TokenAt(tail, 1) THEN "complete"
    ELSE IF \/ Len(tail) > MaxTokenLen
            \/ \E j \in 2..Len(tail) : tail[j] \notin Handle \cup {LitEnd}
         THEN "no" ELSE "partial"

From(buf, i) == SubSeq(buf, i, Len(buf))

\* split_safe: where the held part begins.
SplitAt(buf) ==
    LET brackets == {i \in DOMAIN buf : buf[i] = LB}
        last == CHOOSE i \in brackets : \A j \in brackets : j <= i
    IN  IF brackets # {} /\ Classify(From(buf, last)) = "partial" THEN last ELSE Len(buf) + 1

\* is_whole_value_candidate.
IsWholeValueCandidate(val) ==
    \/ val = <<>>
    \/ /\ val[1] = LB
       /\ \/ Classify(val) = "complete" /\ Len(val) = Len(Token(val[2]))
          \/ Classify(val) = "partial"

\* The hold-extension of tool input, which the OpenAI relays lack: from the quote of an open,
\* still lone string value.
HoldAt(buf, kind) ==
    LET quotes == {i \in DOMAIN buf : IsUnescapedQuote(buf, i)}
        last == CHOOSE i \in quotes : \A j \in quotes : j <= i
    IN  IF /\ kind = "json" /\ Cardinality(quotes) % 2 = 1
           /\ IsWholeValueCandidate(From(buf, last + 1))
        THEN last ELSE SplitAt(buf)

\* The engine call for what is safe, and the one for a held tail at the end.
Emit(s, kind) ==
    CASE kind = "text" -> UnmaskAssistant(s, TRUE, Look)
      [] kind = "compaction" -> UnmaskOther(s, Look)
      [] kind = "json" -> UnmaskToolInput(s, Look)
      [] OTHER -> s    \* thinking stays tokenized
\* Deviation: a held tail is flushed as prose whatever its block is.
FlushAsText(s, kind) == UnmaskAssistant(s, TRUE, Look)
Flush(s, kind) ==
    IF kind = "json" THEN UnmaskToolInput(s, Look)
    ELSE IF wire = "anthropic" THEN UnmaskOther(s, Look) ELSE UnmaskAssistant(s, TRUE, Look)

-----------------------------------------------------------------------------
\* ContentBlockStart.
Start(i) ==
    /\ wire = "anthropic" /\ guard = "armed"
    /\ i \notin open \cup stopped /\ script[i].kind \in Kind
    /\ open' = open \cup {i}
    /\ carry' = [carry EXCEPT ![i] = <<>>]
    /\ UNCHANGED <<wire, script, got, heldKind, stopped, out, guard>>

\* The next n characters of a block, and the held tail with them.
More(i, n) == SubSeq(script[i].text, Len(got[i]) + 1, Len(got[i]) + n)
Buffer(i, n) == carry[i] \o More(i, n)

\* A frame with n characters of block i, of which the first at - 1 buffered are safe.
Frame(i, n, at) ==
    /\ guard = "armed" /\ i \notin stopped
    /\ Len(got[i]) + n <= Len(script[i].text)
    /\ got' = [got EXCEPT ![i] = @ \o More(i, n)]
    /\ heldKind' = [heldKind EXCEPT ![i] = script[i].kind]
    /\ out' = [out EXCEPT ![i] = @ \o Emit(SubSeq(Buffer(i, n), 1, at - 1), script[i].kind)]
    /\ carry' = [carry EXCEPT ![i] = From(Buffer(i, n), at)]
    /\ UNCHANGED <<wire, script, open, stopped, guard>>

\* ContentBlockDelta: delta and buffered.
Delta(i, n) ==
    /\ wire = "anthropic" /\ i \in open /\ script[i].kind \in Kind \ {"thinking"}
    /\ Frame(i, n, HoldAt(Buffer(i, n), script[i].kind))
ThinkingDelta(i, n) ==
    /\ wire = "anthropic" /\ guard = "armed" /\ i \in open /\ script[i].kind = "thinking"
    /\ Len(got[i]) + n <= Len(script[i].text)
    /\ got' = [got EXCEPT ![i] = @ \o More(i, n)]
    /\ out' = [out EXCEPT ![i] = @ \o More(i, n)]
    /\ UNCHANGED <<wire, script, carry, heldKind, open, stopped, guard>>

\* A chunk of a choice: its content or the arguments of its tool call, which open nothing first.
ChatDelta(i, n) ==
    /\ wire \in {"chat", "chat_early"} /\ script[i].kind \in Kind
    /\ Frame(i, n, SplitAt(Buffer(i, n)))
\* response.output_text.delta and response.function_call_arguments.delta.
ResponsesDelta(i, n) ==
    /\ wire = "responses" /\ script[i].kind \in Kind
    /\ Frame(i, n, SplitAt(Buffer(i, n)))

\* ContentBlockStop: the held tail is flushed as its block's own kind.
Stop(i) ==
    /\ guard = "armed" /\ i \in open /\ got[i] = script[i].text
    /\ out' = [out EXCEPT ![i] = @ \o Flush(carry[i], heldKind[i])]
    /\ carry' = [carry EXCEPT ![i] = <<>>]
    /\ heldKind' = [heldKind EXCEPT ![i] = None]
    /\ open' = open \ {i} /\ stopped' = stopped \cup {i}
    /\ UNCHANGED <<wire, script, got, guard>>

FlushAll(o, c, kinds) == [i \in Index |-> o[i] \o Flush(c[i], kinds[i])]

\* What a terminal chunk forwards: its own content, then every tail held, of every choice.
FlushedAfter(i, safe, rest, kind) ==
    FlushAll([out EXCEPT ![i] = @ \o Emit(safe, kind)],
             [carry EXCEPT ![i] = rest], [heldKind EXCEPT ![i] = kind])

\* A chat chunk with a finish_reason or usage on it, and n characters.  "chat" is the usual
\* backend, which finishes last; "chat_early" finishes a choice while others still stream, and
\* may send usage on any chunk.
ChatTerminal(i, n, finish) ==
    LET kind == script[i].kind
        buf == Buffer(i, n)
        at == SplitAt(buf)
    IN  /\ wire \in {"chat", "chat_early"} /\ guard = "armed"
        /\ i \notin stopped /\ kind \in Kind
        /\ Len(got[i]) + n <= Len(script[i].text)
        /\ finish => Len(got[i]) + n = Len(script[i].text)
        /\ wire = "chat" => finish /\ \A k \in Index \ {i} : got[k] = script[k].text
        /\ got' = [got EXCEPT ![i] = @ \o More(i, n)]
        /\ out' = FlushedAfter(i, SubSeq(buf, 1, at - 1), From(buf, at), kind)
        /\ carry' = [k \in Index |-> <<>>]
        /\ heldKind' = [heldKind EXCEPT ![i] = kind]
        /\ stopped' = IF finish THEN stopped \cup {i} ELSE stopped
        /\ UNCHANGED <<wire, script, open, guard>>

\* [DONE], or response.completed, failed or incomplete: the tails go out before it, and a
\* client reads no further.
Sentinel ==
    /\ wire # "anthropic" /\ guard = "armed" /\ stopped # Index
    /\ out' = FlushAll(out, carry, heldKind)
    /\ carry' = [i \in Index |-> <<>>]
    /\ stopped' = Index
    /\ UNCHANGED <<wire, script, got, heldKind, open, guard>>

\* The upstream ends, perhaps inside a block: everything held is drained, then complete().
EndOfStream ==
    /\ guard = "armed"
    /\ out' = FlushAll(out, carry, heldKind)
    /\ carry' = [i \in Index |-> <<>>]
    /\ guard' = "completed"
    /\ UNCHANGED <<wire, script, got, heldKind, open, stopped>>

\* The upstream breaks (held text is given up), or the client drops the body.
Break ==
    /\ guard = "armed"
    /\ guard' \in {"upstream_error", "aborted"}
    /\ UNCHANGED <<wire, script, got, carry, heldKind, open, stopped, out>>

StreamNext ==
    \/ \E i \in Index : Start(i) \/ Stop(i)
    \/ \E i \in Index, n \in 1..4 :
         Delta(i, n) \/ ThinkingDelta(i, n) \/ ChatDelta(i, n) \/ ResponsesDelta(i, n)
    \/ \E i \in Index, n \in 0..2, finish \in BOOLEAN : ChatTerminal(i, n, finish)
    \/ Sentinel \/ EndOfStream \/ Break

StreamSpec == StreamInit /\ [][StreamNext]_svars

-----------------------------------------------------------------------------
\* The forwarded text with every restored value put back under its token.
Back(s) ==
    FlattenSeq([j \in DOMAIN s |-> IF s[j] \in Char THEN <<s[j]>> ELSE Token(s[j].of)])

\* Nothing is lost, repeated or moved by holding and flushing, in any kind of block and for
\* every cut into frames: undoing the restores and adding what is still held gives exactly
\* what arrived (buffered, ContentBlockStop, drain).
NothingLost == \A i \in Index : Back(out[i]) \o carry[i] = got[i]

\* Held text is bounded, so a stray bracket cannot stall a block: less than a token for prose,
\* one quote and one token for tool input (classify's length limit).
HeldBounded ==
    \A i \in Index : Len(carry[i]) <= IF script[i].kind = "json" THEN MaxTokenLen + 1 ELSE MaxTokenLen

\* Secrets and gated entities never reach a tool through a stream, unless the owner promoted
\* them, nor does any value reach thinking blocks; an embedded restore is escaped, and prose
\* alone carries the marker (the dispatch on kind, in buffered and in both flushes).
StreamRestores ==
    \A i \in Index : \A j \in DOMAIN out[i] :
        out[i][j] \notin Char =>
            /\ out[i][j].of \notin BrokerHandle
            /\ script[i].kind # "thinking"
            /\ script[i].kind = "json" =>
                   IF out[i][j].of \in Look.local THEN out[i][j].of \in Look.promoted
                   ELSE /\ Restore[out[i][j].of] # "gated"
                        /\ Restore[out[i][j].of] = "embedded" => out[i][j].esc
            /\ script[i].kind # "text" => ~out[i][j].mark

(***************************************************************************)
(* What the relay promises of blocks other than tool input: they read as   *)
(* if the whole text had come in one frame.  Custom literal tokens are     *)
(* outside the grammar the hold knows, so one cut by a frame stays as it   *)
(* is: the promise is stated with literals put back, and without markers.  *)
(***************************************************************************)
Settled(s) ==
    FlattenSeq([j \in DOMAIN s |->
        IF s[j] \in Char THEN <<s[j]>>
        ELSE IF s[j].of \in Literal THEN Token(s[j].of) ELSE <<s[j].val>>])
Whole(kind, s) == Settled(Emit(s, kind))
Prose == {i \in Index : script[i].kind # "json" /\ wire # "chat_early"}

Promise == INSTANCE Relay WITH
    Block <- Index,
    received <- [i \in Index |-> IF i \in Prose THEN Whole(script[i].kind, got[i]) ELSE <<>>],
    sent <- [i \in Index |-> IF i \in Prose THEN Settled(out[i]) ELSE <<>>],
    ended <- IF guard = "completed" THEN Index ELSE stopped

\* The held-back, flushed and drained stream implements the relay of whole texts.
RelaysWholeText == Promise!RelaySpec

\* The carry buffers of all the relays and all the kinds of block: nothing is lost
\* or sent twice, no more is held than may become a token, and a tool's input is
\* restored by the tool's rules.
StreamSound ==
    /\ StreamTypeOK
    /\ NothingLost
    /\ HeldBounded
    /\ StreamRestores

\* tool_input_whole_value_mode: a token that is only restored as a whole value stays a token
\* where it is embedded in a larger string; unescaped it comes alone.
EmbeddedStaysToken ==
    \A i \in Index : \A j \in DOMAIN out[i] :
        (/\ script[i].kind = "json" /\ out[i][j] \notin Char
         /\ Restore[out[i][j].of] = "whole" /\ ~out[i][j].esc)
        => \A k \in DOMAIN out[i] \ {j} : out[i][k] = Blank
=============================================================================
