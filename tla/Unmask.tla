------------------------------- MODULE Unmask -------------------------------
(***************************************************************************)
(* MaskEngine::unmask_inner: how the tokens in a text the model wrote are  *)
(* put back.  A text is a sequence of characters: the brackets, the quote, *)
(* the backslash, the colon and a blank matter to the code; Word stands    *)
(* for any other one.  A token is a handle between brackets; a custom      *)
(* literal token, outside the token grammar, is a handle and LitEnd.       *)
(***************************************************************************)
EXTENDS Integers, Sequences, SequencesExt

CONSTANTS
    Handle,         \* the token handles
    Val,            \* plaintext values
    None,           \* no value: an unknown, expired or refused handle
    Restore,        \* tool_input_restore_policy of a handle's entity label
    BrokerHandle,   \* the handles with the BROKER__ prefix
    Literal,        \* the custom literal tokens
    LB, RB, Quote, Backslash, Colon, Blank, Word, LitEnd

\* UnmaskContext and the provenance of a tool input: raw JSON source or a decoded leaf.
Context == {"display", "tool", "other"}

\* tool_input_restore_policy: secrets and everything unmapped stay tokens.
Gated(h) == Restore[h] = "gated"

Marks == <<LB, RB, Quote, Backslash, Colon, Blank, Word, LitEnd>>
Char == Handle \cup {LB, RB, Quote, Backslash, Colon, Blank, Word, LitEnd}

\* A value in its token's place, JSON-escaped or wrapped in the reveal marker.
Shown(h, v, esc, mark) == [of |-> h, val |-> v, esc |-> esc, mark |-> mark]

ASSUME UnmaskAssumption ==
    /\ BrokerHandle \cap Literal = {} /\ BrokerHandle \cup Literal \subseteq Handle
    /\ Restore \in [Handle -> {"gated", "whole", "embedded"}]
    /\ \A i \in 1..8 : Marks[i] \notin Handle /\ \A j \in 1..8 \ {i} : Marks[i] # Marks[j]
    /\ \A h \in Handle, v \in Val, esc \in BOOLEAN :
          \A mark \in BOOLEAN : Shown(h, v, esc, mark) \notin Char

\* token_regex: a standard handle between brackets.
TokenAt(s, i) ==
    i + 2 <= Len(s) /\ s[i] = LB /\ s[i + 1] \in Handle \ Literal /\ s[i + 2] = RB
LiteralAt(s, i) == i + 1 <= Len(s) /\ s[i] \in Literal /\ s[i + 1] = LitEnd
Token(h) == IF h \in Literal THEN <<h, LitEnd>> ELSE <<LB, h, RB>>

\* is_unescaped_quote: an even run of backslashes before it.
IsUnescapedQuote(s, q) ==
    /\ s[q] = Quote
    /\ LET before == {k \in 0..(q - 1) : \A j \in (k + 1)..(q - 1) : s[j] = Backslash}
       IN  (q - 1 - (CHOOSE k \in before : \A j \in before : k <= j)) % 2 = 0

\* tool_input_whole_value_mode of the token at i.
WholeValueMode(s, i, source) ==
    LET after == {j \in (i + 4)..Len(s) : s[j] # Blank}
        isKey == after # {} /\ s[CHOOSE j \in after : \A k \in after : j <= k] = Colon
    IN  IF \A j \in DOMAIN s \ (i..(i + 2)) : s[j] = Blank THEN "bare"
        ELSE IF /\ source = "raw"
                /\ i > 1 /\ i + 3 <= Len(s)
                /\ IsUnescapedQuote(s, i - 1) /\ s[i + 3] = Quote /\ ~isKey
             THEN "quoted" ELSE "none"

(***************************************************************************)
(* look is what the engine knows of the handles when the text comes:       *)
(* their plaintexts (manifest first, then the store), which are local      *)
(* ("owner-reveal") and which of those were promoted, and the literals of  *)
(* this turn's manifest.                                                   *)
(***************************************************************************)
Lookup ==
    [plain : [Handle -> Val \cup {None}], local : SUBSET Handle, promoted : SUBSET Handle,
     literal : [Handle -> Val \cup {None}]]

\* The tool-egress gate: the restore policy of the entity decides.
GateTool(s, i, source, look) ==
    LET h == s[i + 1]
        mode == WholeValueMode(s, i, source)
        esc == CASE Restore[h] = "whole" -> mode = "quoted"
                 [] OTHER -> source = "raw"
    IN  IF \/ Gated(h) \/ look.plain[h] = None
           \/ Restore[h] = "whole" /\ mode = "none"
        THEN Token(h) ELSE <<Shown(h, look.plain[h], esc, FALSE)>>

\* What stands for the token at i afterwards.
UnmaskToken(s, i, ctx, source, mark, look) ==
    LET h == s[i + 1]
    IN  IF \/ h \in BrokerHandle
           \/ h \in look.local /\ ctx # "display" /\ h \notin look.promoted
        THEN Token(h)
        ELSE IF ctx = "tool" /\ h \notin look.local THEN GateTool(s, i, source, look)
        ELSE IF look.plain[h] = None THEN Token(h)
        ELSE <<Shown(h, look.plain[h], FALSE, mark)>>

\* Custom literal tokens are replaced last, from the manifest only, never in a tool input.
UnmaskLiteral(h, ctx, mark, look) ==
    IF ctx = "tool" \/ look.literal[h] = None THEN Token(h)
    ELSE <<Shown(h, look.literal[h], FALSE, mark)>>

\* Position i belongs to a token that begins before it.
Covered(s, i) ==
    \/ \E j \in (i - 2)..(i - 1) : j > 0 /\ TokenAt(s, j)
    \/ i > 1 /\ LiteralAt(s, i - 1)

UnmaskPiece(s, i, ctx, source, mark, look) ==
    IF TokenAt(s, i) THEN UnmaskToken(s, i, ctx, source, mark, look)
    ELSE IF Covered(s, i) THEN <<>>
    ELSE IF LiteralAt(s, i) THEN UnmaskLiteral(s[i], ctx, mark, look)
    ELSE <<s[i]>>

UnmaskInner(s, ctx, source, mark, look) ==
    FlattenSeq([i \in DOMAIN s |-> UnmaskPiece(s, i, ctx, source, mark, look)])

\* The four ways in.
UnmaskAssistant(s, marker, look) == UnmaskInner(s, "display", "raw", marker, look)
UnmaskOther(s, look) == UnmaskInner(s, "other", "raw", FALSE, look)
UnmaskToolInput(s, look) == UnmaskInner(s, "tool", "raw", FALSE, look)
UnmaskDecodedLeaf(s, look) == UnmaskInner(s, "tool", "leaf", FALSE, look)
=============================================================================
