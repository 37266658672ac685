----------------------------- MODULE ReplyProofs -----------------------------
(***************************************************************************)
(* What is relayed and walked on its way through the proxy, for any texts, *)
(* scripts, handles, paths and replies.                                    *)
(*                                                                         *)
(* First the texts.  UnmaskInner flattens one piece for each position of a *)
(* text.  UnmaskBack says that putting the handles of the shown values     *)
(* back gives the text again, and UnmaskShows that each value was allowed  *)
(* out.                                                                    *)
(*                                                                         *)
(* Then Stream: its inductive invariant (StreamInv) says of every block    *)
(* that what was forwarded and what is held are the text received so far,  *)
(* with no value its kind may not show.                                    *)
(*                                                                         *)
(* And the refinement of Relay: a text cut where no token spans reads as   *)
(* its two parts (ReadsConcat), the relays cut only there (SplitClean),    *)
(* and so what was forwarded is a beginning of the whole (RelayInv).       *)
(*                                                                         *)
(* Then Walk: WalkSkips, WalkSurface and FallbackMasks compare, path by    *)
(* path, what the walks do with what they owe; the inductive invariant     *)
(* (WalkInv) says what each leaf walked so far has become.  Of a reply,    *)
(* RawIs compares the arguments string with the decoded input: the places  *)
(* of a string's characters in its JSON source, and the parity of the      *)
(* backslashes before a quote, decide which token is a whole value.        *)
(***************************************************************************)
EXTENDS Stream, Walk, TextProofs, SequenceTheorems, FiniteSetTheorems, WellFoundedInduction, TLAPS

-----------------------------------------------------------------------------
(* The characters. *)
LEMMA CharsDiffer ==
    /\ LB \notin Handle /\ RB \notin Handle /\ LitEnd \notin Handle /\ LB # RB /\ LB # LitEnd
    /\ RB # LitEnd /\ Quote \notin Handle /\ Quote \notin {LB, RB, LitEnd, Backslash, Colon, Blank, Word}
    /\ Backslash \notin Handle \cup {LB, RB, LitEnd, Quote, Colon, Blank, Word}
    /\ Colon \notin Handle \cup {LB, RB, LitEnd, Quote, Backslash, Blank, Word}
    /\ Blank \notin Handle \cup {LB, RB, LitEnd, Quote, Backslash, Colon, Word}
    /\ Literal \subseteq Handle
<1>1. \A i \in 1..8 : Marks[i] \notin Handle /\ \A j \in 1..8 \ {i} : Marks[i] # Marks[j]
  BY UnmaskAssumption
<1>2. /\ Marks[1] = LB /\ Marks[2] = RB /\ Marks[3] = Quote /\ Marks[4] = Backslash
      /\ Marks[5] = Colon /\ Marks[6] = Blank /\ Marks[7] = Word /\ Marks[8] = LitEnd
  BY DEF Marks
<1>3. Literal \subseteq Handle
  BY UnmaskAssumption
<1> QED
  BY <1>1, <1>2, <1>3

-----------------------------------------------------------------------------
(* What a restored text is made of.                                        *)

\* What a restored text is made of.
Item == Char \cup {Shown(h, v, esc, mark) : h \in Handle, v \in Val, esc \in BOOLEAN, mark \in BOOLEAN}

\* What a shown value says of itself; it is no character of a text.
LEMMA ShownIs ==
    ASSUME NEW h \in Handle, NEW v \in Val, NEW esc \in BOOLEAN, NEW mark \in BOOLEAN,
           NEW x, x = Shown(h, v, esc, mark)
    PROVE  x \in Item /\ x \notin Char /\ x.of = h /\ x.val = v /\ x.esc = esc /\ x.mark = mark
<1>1. x \notin Char
  BY UnmaskAssumption
<1>2. x.of = h /\ x.val = v /\ x.esc = esc /\ x.mark = mark
  BY DEF Shown
<1>3. x \in Item
  BY DEF Item
<1> QED
  BY <1>1, <1>2, <1>3

\* An item that is not a character is a value shown.
LEMMA ItemIs ==
    ASSUME NEW x \in Item, x \notin Char
    PROVE  x.of \in Handle /\ x.val \in Val /\ x.esc \in BOOLEAN /\ x.mark \in BOOLEAN
<1>1. PICK h \in Handle, v \in Val, esc \in BOOLEAN, mark \in BOOLEAN : x = Shown(h, v, esc, mark)
  BY DEF Item
<1>2. h \in Handle /\ v \in Val /\ esc \in BOOLEAN /\ mark \in BOOLEAN /\ x = Shown(h, v, esc, mark)
  BY <1>1, Zenon
<1>3. x.of = h /\ x.val = v /\ x.esc = esc /\ x.mark = mark
  BY <1>2, ShownIs
<1> QED
  BY <1>2, <1>3

\* x may stand for handle h in a restored text.
MayShow(h, ctx, source, mark, look, x) ==
    /\ x \in Item /\ x \notin Char /\ x.of = h
    /\ h \notin BrokerHandle
    /\ ctx = "tool" =>
          /\ h \notin Literal
          /\ IF h \in look.local THEN h \in look.promoted
             ELSE Restore[h] # "gated" /\ (source = "raw" /\ Restore[h] = "embedded" => x.esc = TRUE)
    /\ mark = FALSE => x.mark = FALSE

\* How a token is written: a literal handle, or a handle between brackets.
LEMMA TokenIs ==
    ASSUME NEW h \in Handle
    PROVE  /\ Token(h) \in Seq(Char) /\ h \in Char /\ LB \in Char /\ RB \in Char /\ LitEnd \in Char
           /\ h \in Literal => Token(h) = <<h, LitEnd>>
           /\ h \notin Literal => Token(h) = <<LB, h, RB>>
<1>1. h \in Char /\ LB \in Char /\ RB \in Char /\ LitEnd \in Char
  BY DEF Char
<1>2. <<h, LitEnd>> \in Seq(Char) /\ <<LB, h, RB>> \in Seq(Char)
  BY <1>1
<1> QED
  BY <1>1, <1>2 DEF Token

\* unmask_inner on a token: it stays, or its value is shown and was allowed to be.
LEMMA UnmaskTokenIs ==
    ASSUME NEW s, NEW i, s[i + 1] \in Handle \ Literal, NEW ctx, NEW source, NEW mark \in BOOLEAN,
           NEW look \in Lookup
    PROVE  \/ UnmaskToken(s, i, ctx, source, mark, look) = Token(s[i + 1])
           \/ \E x : /\ MayShow(s[i + 1], ctx, source, mark, look, x)
                     /\ UnmaskToken(s, i, ctx, source, mark, look) = <<x>>
<1>1. PICK h : h = s[i + 1]
  OBVIOUS
<1>2. h \in Handle /\ h \notin Literal
  BY <1>1
<1>3. look.plain[h] \in Val \cup {None}
  BY <1>2 DEF Lookup
<1>4. Restore[h] \in {"gated", "whole", "embedded"}
  BY <1>2, UnmaskAssumption
<1>5. GateTool(s, i, source, look) = Token(h) \/
      /\ Restore[h] # "gated" /\ look.plain[h] # None
      /\ \E esc \in BOOLEAN : /\ GateTool(s, i, source, look) = <<Shown(h, look.plain[h], esc, FALSE)>>
                              /\ source = "raw" /\ Restore[h] = "embedded" => esc = TRUE
  <2>1. PICK esc : esc = CASE Restore[h] = "whole" -> WholeValueMode(s, i, source) = "quoted"
                           [] OTHER -> source = "raw"
    OBVIOUS
  <2>2. esc \in BOOLEAN /\ (source = "raw" /\ Restore[h] = "embedded" => esc = TRUE)
    <3>1. CASE Restore[h] = "whole"
      <4>1. esc = (WholeValueMode(s, i, source) = "quoted")
        BY <2>1, <3>1, Zenon
      <4> QED
        BY <3>1, <4>1, Zenon
    <3>2. CASE Restore[h] # "whole"
      <4>1. esc = (source = "raw")
        BY <2>1, <3>2, Zenon
      <4> QED
        BY <4>1, Zenon
    <3> QED
      BY <3>1, <3>2, Zenon
  <2>3. GateTool(s, i, source, look) =
           IF \/ Gated(h) \/ look.plain[h] = None
              \/ Restore[h] = "whole" /\ WholeValueMode(s, i, source) = "none"
           THEN Token(h) ELSE <<Shown(h, look.plain[h], esc, FALSE)>>
    BY <1>1, <2>1, Zenon DEF GateTool
  <2> QED
    BY <2>2, <2>3, Zenon DEF Gated
<1>a. PICK u : u = UnmaskToken(s, i, ctx, source, mark, look)
  OBVIOUS
<1>b. PICK gate : gate = GateTool(s, i, source, look)
  OBVIOUS
<1>c. PICK t : t = Token(h)
  OBVIOUS
<1>d. PICK v : v = look.plain[h]
  OBVIOUS
<1>6. u =
        IF \/ h \in BrokerHandle
           \/ h \in look.local /\ ctx # "display" /\ h \notin look.promoted
        THEN t
        ELSE IF ctx = "tool" /\ h \notin look.local THEN gate
        ELSE IF v = None THEN t
        ELSE <<Shown(h, v, FALSE, mark)>>
  BY <1>1, <1>a, <1>b, <1>c, <1>d, Zenon DEF UnmaskToken
<1>7. CASE h \in BrokerHandle \/ (h \in look.local /\ ctx # "display" /\ h \notin look.promoted)
  BY <1>1, <1>6, <1>7, <1>a, <1>c
<1>8. CASE /\ ~(h \in BrokerHandle \/ (h \in look.local /\ ctx # "display" /\ h \notin look.promoted))
           /\ ctx = "tool" /\ h \notin look.local
  <2>0. u = gate
    BY <1>6, <1>8, Zenon
  <2>1. UnmaskToken(s, i, ctx, source, mark, look) = GateTool(s, i, source, look)
    BY <1>a, <1>b, <2>0
  <2>2. CASE GateTool(s, i, source, look) = Token(h)
    BY <1>1, <2>1, <2>2
  <2>3. CASE GateTool(s, i, source, look) # Token(h)
    <3>1. PICK esc \in BOOLEAN : /\ GateTool(s, i, source, look) = <<Shown(h, look.plain[h], esc, FALSE)>>
                                 /\ source = "raw" /\ Restore[h] = "embedded" => esc = TRUE
      BY <1>5, <2>3
    <3>2. PICK x : x = Shown(h, look.plain[h], esc, FALSE)
      OBVIOUS
    <3>3. look.plain[h] \in Val /\ Restore[h] # "gated" /\ esc \in BOOLEAN
      BY <1>3, <1>5, <2>3, <3>1
    <3>4. x \in Item /\ x \notin Char /\ x.of = h /\ x.esc = esc /\ x.mark = FALSE
      <4>1. PICK no : no = FALSE
        OBVIOUS
      <4>2. no \in BOOLEAN
        BY <4>1
      <4>3. x = Shown(h, look.plain[h], esc, no) /\ look.plain[h] \in Val /\ esc \in BOOLEAN /\ h \in Handle
        BY <1>2, <3>2, <3>3, <4>1
      <4>4. x \in Item /\ x \notin Char /\ x.of = h /\ x.esc = esc /\ x.mark = no
        BY <4>2, <4>3, ShownIs
      <4> QED
        BY <4>1, <4>4
    <3>5. h \notin BrokerHandle /\ h \notin Literal
      BY <1>2, <1>8
    <3>6. source = "raw" /\ Restore[h] = "embedded" => x.esc = TRUE
      BY <3>1, <3>4, Zenon
    <3>7. MayShow(h, ctx, source, mark, look, x)
      BY <1>8, <3>3, <3>4, <3>5, <3>6, Zenon DEF MayShow
    <3> QED
      BY <1>1, <2>1, <3>1, <3>2, <3>7
  <2> QED
    BY <2>2, <2>3
<1>9. CASE /\ ~(h \in BrokerHandle \/ (h \in look.local /\ ctx # "display" /\ h \notin look.promoted))
           /\ ~(ctx = "tool" /\ h \notin look.local)
  <2>1. CASE look.plain[h] = None
    BY <1>1, <1>6, <1>9, <1>a, <1>c, <1>d, <2>1
  <2>2. CASE look.plain[h] # None
    <3>1. PICK x : x = Shown(h, look.plain[h], FALSE, mark)
      OBVIOUS
    <3>2. look.plain[h] \in Val
      BY <1>3, <2>2
    <3>3. x \in Item /\ x \notin Char /\ x.of = h /\ x.mark = mark
      <4>1. PICK no : no = FALSE
        OBVIOUS
      <4>2. no \in BOOLEAN /\ mark \in BOOLEAN
        BY <4>1
      <4>3. x = Shown(h, look.plain[h], no, mark) /\ look.plain[h] \in Val /\ h \in Handle
        BY <1>2, <3>1, <3>2, <4>1
      <4> QED
        BY <4>2, <4>3, ShownIs
    <3>4. h \notin BrokerHandle /\ h \notin Literal
      BY <1>2, <1>9
    <3>5. ctx = "tool" => h \in look.local /\ h \in look.promoted
      BY <1>9, Zenon
    <3>6. mark = FALSE => x.mark = FALSE
      BY <3>3
    <3>7. MayShow(h, ctx, source, mark, look, x)
      BY <3>3, <3>4, <3>5, <3>6, Zenon DEF MayShow
    <3>8. u = <<Shown(h, v, FALSE, mark)>>
      BY <1>6, <1>9, <1>d, <2>2, Zenon
    <3> QED
      BY <1>1, <1>a, <1>d, <3>1, <3>7, <3>8
  <2> QED
    BY <2>1, <2>2
<1> QED
  BY <1>7, <1>8, <1>9

\* The same of a literal handle, which a configured pattern wrote.
LEMMA UnmaskLiteralIs ==
    ASSUME NEW h \in Literal, NEW ctx, NEW source, NEW mark \in BOOLEAN, NEW look \in Lookup
    PROVE  \/ UnmaskLiteral(h, ctx, mark, look) = Token(h)
           \/ \E x : /\ MayShow(h, ctx, source, mark, look, x)
                     /\ UnmaskLiteral(h, ctx, mark, look) = <<x>>
<1>1. h \in Handle /\ h \notin BrokerHandle
  BY UnmaskAssumption
<1>2. look.literal[h] \in Val \cup {None}
  BY <1>1 DEF Lookup
<1>3. CASE ctx = "tool" \/ look.literal[h] = None
  BY <1>3 DEF UnmaskLiteral
<1>4. CASE ~(ctx = "tool" \/ look.literal[h] = None)
  <2>1. PICK x : x = Shown(h, look.literal[h], FALSE, mark)
    OBVIOUS
  <2>2. look.literal[h] \in Val
    BY <1>2, <1>4
  <2>3. x \in Item /\ x \notin Char /\ x.of = h /\ x.mark = mark
    <3>1. PICK no : no = FALSE
      OBVIOUS
    <3>2. no \in BOOLEAN /\ mark \in BOOLEAN
      BY <3>1
    <3>3. x = Shown(h, look.literal[h], no, mark) /\ look.literal[h] \in Val /\ h \in Handle
      BY <1>1, <2>1, <2>2, <3>1
    <3> QED
      BY <3>2, <3>3, ShownIs
  <2>4. MayShow(h, ctx, source, mark, look, x)
    BY <1>1, <1>4, <2>3, Zenon DEF MayShow
  <2> QED
    BY <1>4, <2>1, <2>4 DEF UnmaskLiteral
<1> QED
  BY <1>3, <1>4

-----------------------------------------------------------------------------
(* The positions of a text, piece by piece.                                *)

\* How much of s the first k pieces of UnmaskInner account for.
Reach(s, k) ==
    IF k = 0 THEN 0
    ELSE IF TokenAt(s, k) THEN k + 2
    ELSE IF (k > 1 /\ TokenAt(s, k - 1)) \/ LiteralAt(s, k) THEN k + 1 ELSE k

\* Tokens and literals do not overlap.
LEMMA TokensApart ==
    ASSUME NEW s, NEW i \in Int
    PROVE  /\ TokenAt(s, i) => /\ ~TokenAt(s, i - 1) /\ ~TokenAt(s, i - 2) /\ ~TokenAt(s, i + 1)
                               /\ ~TokenAt(s, i + 2) /\ ~LiteralAt(s, i - 1) /\ ~LiteralAt(s, i)
                               /\ ~LiteralAt(s, i + 1) /\ ~LiteralAt(s, i + 2)
           /\ LiteralAt(s, i) => /\ ~TokenAt(s, i - 1) /\ ~TokenAt(s, i - 2) /\ ~TokenAt(s, i)
                                 /\ ~TokenAt(s, i + 1) /\ ~LiteralAt(s, i - 1) /\ ~LiteralAt(s, i + 1)
<1>1. (i - 1) + 1 = i /\ (i - 2) + 2 = i /\ (i - 1) + 2 = i + 1 /\ (i - 2) + 1 = i - 1
      /\ (i + 1) + 1 = i + 2 /\ (i + 2) + 1 = i + 3 /\ (i + 1) + 2 = i + 3
  OBVIOUS
<1>2. ASSUME TokenAt(s, i)
      PROVE  /\ ~TokenAt(s, i - 1) /\ ~TokenAt(s, i - 2) /\ ~TokenAt(s, i + 1)
             /\ ~TokenAt(s, i + 2) /\ ~LiteralAt(s, i - 1) /\ ~LiteralAt(s, i)
             /\ ~LiteralAt(s, i + 1) /\ ~LiteralAt(s, i + 2)
  <2>1. s[i] = LB /\ s[i + 1] \in Handle /\ s[i + 1] \notin Literal /\ s[i + 2] = RB
    BY <1>2 DEF TokenAt
  <2>2. s[i] \notin Handle /\ s[i + 2] \notin Handle /\ s[i] # RB /\ s[i] # LitEnd /\ s[i + 1] # LB
        /\ s[i + 2] # LB /\ s[i] \notin Literal /\ s[i + 2] \notin Literal
    BY <2>1, CharsDiffer
  <2> QED
    BY <1>1, <2>1, <2>2 DEF TokenAt, LiteralAt
<1>3. ASSUME LiteralAt(s, i)
      PROVE  /\ ~TokenAt(s, i - 1) /\ ~TokenAt(s, i - 2) /\ ~TokenAt(s, i)
             /\ ~TokenAt(s, i + 1) /\ ~LiteralAt(s, i - 1) /\ ~LiteralAt(s, i + 1)
  <2>1. s[i] \in Literal /\ s[i + 1] = LitEnd
    BY <1>3 DEF LiteralAt
  <2>2. s[i] \in Handle /\ s[i] # LB /\ s[i] # RB /\ s[i] # LitEnd /\ s[i + 1] # LB /\ s[i + 1] \notin Literal
    BY <2>1, CharsDiffer
  <2> QED
    BY <1>1, <2>1, <2>2 DEF TokenAt, LiteralAt
<1> QED
  BY <1>2, <1>3

\* A position is covered when a token that starts before it reaches over it.
LEMMA CoveredIs ==
    ASSUME NEW s, NEW i \in Nat, 1 <= i
    PROVE  Covered(s, i) <=> \/ i > 1 /\ TokenAt(s, i - 1)
                             \/ i > 2 /\ TokenAt(s, i - 2)
                             \/ i > 1 /\ LiteralAt(s, i - 1)
<1>1. (i - 2)..(i - 1) = {i - 2, i - 1}
  OBVIOUS
<1> QED
  BY <1>1 DEF Covered

\* What the piece at k accounts for begins where the pieces before it end.
LEMMA ReachStep ==
    ASSUME NEW s \in Seq(Char), NEW n \in Nat, n = Len(s), NEW k \in 1..n
    PROVE  /\ Reach(s, k) \in Nat /\ Reach(s, k) <= n
           /\ Reach(s, k - 1) \in Nat /\ Reach(s, k - 1) <= Reach(s, k)
           /\ Covered(s, k) => Reach(s, k - 1) = Reach(s, k)
           /\ ~Covered(s, k) => Reach(s, k - 1) = k - 1
           /\ TokenAt(s, k) => ~Covered(s, k) /\ Reach(s, k) = k + 2
           /\ LiteralAt(s, k) => ~Covered(s, k) /\ ~TokenAt(s, k) /\ Reach(s, k) = k + 1
           /\ ~TokenAt(s, k) /\ ~LiteralAt(s, k) /\ ~Covered(s, k) => Reach(s, k) = k
<1>1. k \in Nat /\ k - 1 \in Nat /\ 1 <= k /\ k <= n /\ (k - 1) - 1 = k - 2 /\ (k - 1) + 1 = k /\ (k - 1) + 2 = k + 1
  OBVIOUS
<1>2. Covered(s, k) <=> \/ k > 1 /\ TokenAt(s, k - 1)
                        \/ k > 2 /\ TokenAt(s, k - 2)
                        \/ k > 1 /\ LiteralAt(s, k - 1)
  BY <1>1, CoveredIs
<1>3. /\ TokenAt(s, k) => k + 2 <= n
      /\ TokenAt(s, k - 1) => k + 1 <= n
      /\ LiteralAt(s, k) => k + 1 <= n
      /\ LiteralAt(s, k - 1) => k <= n
  BY <1>1 DEF TokenAt, LiteralAt
<1>4. /\ TokenAt(s, k) => /\ ~TokenAt(s, k - 1) /\ ~TokenAt(s, k - 2) /\ ~LiteralAt(s, k - 1) /\ ~LiteralAt(s, k)
      /\ TokenAt(s, k - 1) => /\ ~TokenAt(s, k - 2) /\ ~TokenAt(s, k) /\ ~LiteralAt(s, k - 1) /\ ~LiteralAt(s, k)
      /\ TokenAt(s, k - 2) => /\ ~TokenAt(s, k - 1) /\ ~TokenAt(s, k) /\ ~LiteralAt(s, k - 1) /\ ~LiteralAt(s, k)
      /\ LiteralAt(s, k) => ~LiteralAt(s, k - 1)
      /\ LiteralAt(s, k - 1) => /\ ~TokenAt(s, k - 1) /\ ~TokenAt(s, k - 2) /\ ~TokenAt(s, k) /\ ~LiteralAt(s, k)
  <2>1. k \in Int /\ k - 1 \in Int /\ k - 2 \in Int /\ (k - 2) + 1 = k - 1 /\ (k - 2) + 2 = k /\ (k - 1) + 1 = k
        /\ (k - 1) - 1 = k - 2
    OBVIOUS
  <2>2. TokenAt(s, k) => /\ ~TokenAt(s, k - 1) /\ ~TokenAt(s, k - 2) /\ ~LiteralAt(s, k - 1) /\ ~LiteralAt(s, k)
    BY <2>1, TokensApart
  <2>3. TokenAt(s, k - 1) => /\ ~TokenAt(s, (k - 1) - 1) /\ ~LiteralAt(s, k - 1) /\ ~LiteralAt(s, (k - 1) + 1)
    BY <2>1, TokensApart
  <2>4. TokenAt(s, k - 2) => /\ ~LiteralAt(s, (k - 2) + 1) /\ ~LiteralAt(s, (k - 2) + 2) /\ ~TokenAt(s, (k - 2) + 1)
    BY <2>1, TokensApart
  <2>5. LiteralAt(s, k) => ~LiteralAt(s, k - 1)
    BY <2>1, TokensApart
  <2> QED
    BY <2>1, <2>2, <2>3, <2>4, <2>5
<1>5. Reach(s, k) = IF TokenAt(s, k) THEN k + 2
                    ELSE IF (k > 1 /\ TokenAt(s, k - 1)) \/ LiteralAt(s, k) THEN k + 1 ELSE k
  BY <1>1 DEF Reach
<1>6. Reach(s, k - 1) = IF k = 1 THEN 0 ELSE IF TokenAt(s, k - 1) THEN k + 1
                        ELSE IF (k > 2 /\ TokenAt(s, k - 2)) \/ LiteralAt(s, k - 1) THEN k ELSE k - 1
  <2>1. (k - 1 = 0 <=> k = 1) /\ (k - 1 > 1 <=> k > 2)
    BY <1>1
  <2> QED
    BY <1>1, <2>1 DEF Reach
<1> QED
  BY <1>1, <1>2, <1>3, <1>4, <1>5, <1>6

BackMap == [x \in Item |-> IF x \in Char THEN <<x>> ELSE Token(x.of)]

\* Putting handles back spells every item as a text.
LEMMA BackSpells == Spells(BackMap, Item, Char)
<1> SUFFICES ASSUME NEW x \in Item PROVE BackMap[x] \in Seq(Char)
  BY DEF Spells
<1>1. CASE x \in Char
  BY <1>1 DEF BackMap
<1>2. CASE x \notin Char
  BY <1>2, ItemIs, TokenIs DEF BackMap
<1> QED
  BY <1>1, <1>2

\* Texts are item sequences.
LEMMA CharsAreItems == Char \subseteq Item /\ Seq(Char) \subseteq Seq(Item)
<1>1. Char \subseteq Item
  BY DEF Item
<1> QED
  BY <1>1, SeqMonotonic

\* Putting the handles back is a spelling.
LEMMA BackIs ==
    ASSUME NEW s \in Seq(Item)
    PROVE  Back(s) = Spell(BackMap, s) /\ Back(s) \in Seq(Char)
<1>1. [j \in DOMAIN s |-> IF s[j] \in Char THEN <<s[j]>> ELSE Token(s[j].of)] = [j \in DOMAIN s |-> BackMap[s[j]]]
  <2>1. \A j \in DOMAIN s : s[j] \in Item
    OBVIOUS
  <2> QED
    BY <2>1 DEF BackMap
<1>2. Back(s) = Spell(BackMap, s)
  BY <1>1 DEF Back, Spell
<1> QED
  BY <1>2, BackSpells, SpellType

\* Handles are put back part by part.
LEMMA BackConcat ==
    ASSUME NEW s \in Seq(Item), NEW t \in Seq(Item)
    PROVE  s \o t \in Seq(Item) /\ Back(s \o t) = Back(s) \o Back(t)
<1>1. s \o t \in Seq(Item)
  OBVIOUS
<1>2. Spell(BackMap, s \o t) = Spell(BackMap, s) \o Spell(BackMap, t)
  BY BackSpells, SpellConcat
<1> QED
  BY <1>1, <1>2, BackIs

\* One item put back.
LEMMA BackOne ==
    ASSUME NEW x \in Item
    PROVE  Back(<<x>>) = IF x \in Char THEN <<x>> ELSE Token(x.of)
<1>1. <<x>> \in Seq(Item)
  OBVIOUS
<1>2. Back(<<x>>) = BackMap[x]
  BY <1>1, BackIs, BackSpells, SpellOne
<1> QED
  BY <1>2 DEF BackMap

\* A text without restored values is its own spelling.
LEMMA BackChars ==
    ASSUME NEW s \in Seq(Char)
    PROVE  Back(s) = s
<1> DEFINE q == [j \in DOMAIN s |-> BackMap[s[j]]]
           e == [k \in 0..Len(s) |-> k]
<1>1. PICK n \in Nat : n = Len(s)
  OBVIOUS
<1>2. DOMAIN s = 1..n /\ \A k \in 1..n : s[k] \in Char
  BY <1>1
<1>3. \A k \in 1..n : BackMap[s[k]] = <<s[k]>>
  BY <1>2, CharsAreItems DEF BackMap
<1>4. q \in Seq(Seq(Char))
  BY BackSpells, PiecesType, CharsAreItems
<1>5. Len(q) = n
  BY <1>2, <1>4
<1>6. \A k \in 1..n : q[k] = <<s[k]>>
  BY <1>2, <1>3
<1>7. \A k \in 1..n : SubSeq(s, k, k) = <<s[k]>>
  BY <1>1, <1>2, SubSeqShort
<1>8. e[0] = 0 /\ e[n] = n /\ \A k \in 1..n : e[k] = k /\ e[k - 1] = k - 1
  BY <1>1
<1> HIDE DEF q, e
<1>9. \A k \in 1..n : /\ e[k - 1] \in Nat /\ e[k] \in Nat /\ e[k - 1] <= e[k] /\ e[k] <= Len(s)
                      /\ q[k] = SubSeq(s, e[k - 1] + 1, e[k])
  <2> SUFFICES ASSUME NEW k \in 1..n
               PROVE  /\ e[k - 1] \in Nat /\ e[k] \in Nat /\ e[k - 1] <= e[k] /\ e[k] <= Len(s)
                      /\ q[k] = SubSeq(s, e[k - 1] + 1, e[k])
    OBVIOUS
  <2>1. (k - 1) + 1 = k /\ k \in Nat /\ k - 1 \in Nat /\ k - 1 <= k /\ k <= n
    BY <1>1
  <2>2. e[k - 1] = k - 1 /\ e[k] = k
    BY <1>8
  <2>3. q[k] = <<s[k]>> /\ SubSeq(s, k, k) = <<s[k]>>
    BY <1>6, <1>7
  <2>4. q[k] = SubSeq(s, e[k - 1] + 1, e[k])
    BY <2>1, <2>2, <2>3
  <2> QED
    BY <1>1, <2>1, <2>2, <2>4
<1>10. FlattenSeq(q) = s
  BY <1>1, <1>4, <1>5, <1>8, <1>9, Cover
<1>11. Back(s) = Spell(BackMap, s)
  BY BackIs, CharsAreItems
<1> QED
  BY <1>10, <1>11 DEF Spell, q

-----------------------------------------------------------------------------
Source == {"raw", "leaf"}

\* What may stand at position i of a restored text.
LEMMA PieceIs ==
    ASSUME NEW s \in Seq(Char), NEW i \in DOMAIN s, NEW ctx, NEW source, NEW mark \in BOOLEAN,
           NEW look \in Lookup, NEW p, p = UnmaskPiece(s, i, ctx, source, mark, look)
    PROVE  \/ /\ TokenAt(s, i) /\ s[i + 1] \in Handle \ Literal
              /\ \/ p = Token(s[i + 1])
                 \/ \E x : MayShow(s[i + 1], ctx, source, mark, look, x) /\ p = <<x>>
           \/ /\ ~TokenAt(s, i) /\ Covered(s, i) /\ p = <<>>
           \/ /\ ~TokenAt(s, i) /\ ~Covered(s, i) /\ LiteralAt(s, i) /\ s[i] \in Literal
              /\ \/ p = Token(s[i])
                 \/ \E x : MayShow(s[i], ctx, source, mark, look, x) /\ p = <<x>>
           \/ /\ ~TokenAt(s, i) /\ ~Covered(s, i) /\ ~LiteralAt(s, i)
              /\ p = <<s[i]>>
<1>1. CASE TokenAt(s, i)
  <2>1. s[i + 1] \in Handle \ Literal
    BY <1>1 DEF TokenAt
  <2>2. p = UnmaskToken(s, i, ctx, source, mark, look)
    BY <1>1, Zenon DEF UnmaskPiece
  <2> QED
    BY <1>1, <2>1, <2>2, UnmaskTokenIs
<1>2. CASE ~TokenAt(s, i) /\ Covered(s, i)
  BY <1>2 DEF UnmaskPiece
<1>3. CASE ~TokenAt(s, i) /\ ~Covered(s, i) /\ LiteralAt(s, i)
  <2>1. s[i] \in Literal
    BY <1>3 DEF LiteralAt
  <2>2. p = UnmaskLiteral(s[i], ctx, mark, look)
    BY <1>3, Zenon DEF UnmaskPiece
  <2> QED
    BY <1>3, <2>1, <2>2, UnmaskLiteralIs
<1>4. CASE ~TokenAt(s, i) /\ ~Covered(s, i) /\ ~LiteralAt(s, i)
  BY <1>4 DEF UnmaskPiece
<1> QED
  BY <1>1, <1>2, <1>3, <1>4

\* The piece p spells what it accounts for.
Accounts(s, i, p) == p \in Seq(Item) /\ Back(p) = SubSeq(s, Reach(s, i - 1) + 1, Reach(s, i))

\* The piece of a position accounts for the characters of the text it stands for.
LEMMA PieceBack ==
    ASSUME NEW s \in Seq(Char), NEW i \in DOMAIN s, NEW ctx, NEW source, NEW mark \in BOOLEAN,
           NEW look \in Lookup, NEW p, p = UnmaskPiece(s, i, ctx, source, mark, look)
    PROVE  Accounts(s, i, p)
<1>1. PICK n \in Nat : n = Len(s)
  OBVIOUS
<1>2. i \in 1..n /\ i \in Nat /\ 1 <= i /\ i <= n /\ (i - 1) + 1 = i
  BY <1>1
<1>3. Literal \subseteq Handle
  BY CharsDiffer
<1>4. CASE TokenAt(s, i)
  <2>1. Reach(s, i - 1) + 1 = i /\ Reach(s, i) = i + 2
    BY <1>1, <1>2, <1>4, ReachStep
  <2>2. i + 2 <= n /\ s[i] = LB /\ s[i + 1] \in Handle \ Literal /\ s[i + 2] = RB
    BY <1>1, <1>4 DEF TokenAt
  <2>3. SubSeq(s, i, i + 2) = <<LB, s[i + 1], RB>>
    BY <1>1, <1>2, <2>2, SubSeqShort
  <2>4. PICK h : h = s[i + 1]
    OBVIOUS
  <2>5. h \in Handle /\ h \notin Literal
    BY <2>2, <2>4
  <2>6. Token(h) = <<LB, h, RB>> /\ Token(h) \in Seq(Char)
    BY <2>5, TokenIs
  <2>7. CASE p = Token(h)
    BY <2>1, <2>3, <2>4, <2>6, <2>7, BackChars, CharsAreItems DEF Accounts
  <2>8. ASSUME NEW x, MayShow(h, ctx, source, mark, look, x), p = <<x>>
        PROVE  Accounts(s, i, p)
    <3>1. x \in Item /\ x \notin Char /\ x.of = h
      BY <2>8 DEF MayShow
    <3>2. <<x>> \in Seq(Item) /\ Back(<<x>>) = Token(h)
      BY <3>1, BackOne
    <3> QED
      BY <2>1, <2>3, <2>4, <2>6, <2>8, <3>2 DEF Accounts
  <2>9. p = Token(h) \/ \E x : MayShow(h, ctx, source, mark, look, x) /\ p = <<x>>
    BY <1>4, <2>4, PieceIs
  <2> QED
    BY <2>7, <2>8, <2>9
<1>5. CASE ~TokenAt(s, i) /\ Covered(s, i)
  <2>1. p = <<>>
    BY <1>5, PieceIs
  <2>2. Reach(s, i - 1) = Reach(s, i) /\ Reach(s, i) \in Nat
    BY <1>1, <1>2, <1>5, ReachStep
  <2>3. SubSeq(s, Reach(s, i - 1) + 1, Reach(s, i)) = <<>>
    BY <2>2, SubSeqEmpty
  <2>4. <<>> \in Seq(Item) /\ <<>> \in Seq(Char)
    OBVIOUS
  <2> QED
    BY <2>1, <2>3, <2>4, BackChars DEF Accounts
<1>6. CASE ~TokenAt(s, i) /\ ~Covered(s, i) /\ LiteralAt(s, i)
  <2>1. Reach(s, i - 1) + 1 = i /\ Reach(s, i) = i + 1
    BY <1>1, <1>2, <1>6, ReachStep
  <2>2. i + 1 <= n /\ s[i] \in Literal /\ s[i + 1] = LitEnd
    BY <1>1, <1>6 DEF LiteralAt
  <2>3. SubSeq(s, i, i + 1) = <<s[i], LitEnd>>
    BY <1>1, <1>2, <2>2, SubSeqShort
  <2>4. PICK h : h = s[i]
    OBVIOUS
  <2>5. h \in Handle /\ h \in Literal
    BY <1>3, <2>2, <2>4
  <2>6. Token(h) = <<h, LitEnd>> /\ Token(h) \in Seq(Char)
    BY <2>5, TokenIs
  <2>7. CASE p = Token(h)
    BY <2>1, <2>3, <2>4, <2>6, <2>7, BackChars, CharsAreItems DEF Accounts
  <2>8. ASSUME NEW x, MayShow(h, ctx, source, mark, look, x), p = <<x>>
        PROVE  Accounts(s, i, p)
    <3>1. x \in Item /\ x \notin Char /\ x.of = h
      BY <2>8 DEF MayShow
    <3>2. <<x>> \in Seq(Item) /\ Back(<<x>>) = Token(h)
      BY <3>1, BackOne
    <3> QED
      BY <2>1, <2>3, <2>4, <2>6, <2>8, <3>2 DEF Accounts
  <2>9. p = Token(h) \/ \E x : MayShow(h, ctx, source, mark, look, x) /\ p = <<x>>
    BY <1>6, <2>4, PieceIs
  <2> QED
    BY <2>7, <2>8, <2>9
<1>7. CASE ~TokenAt(s, i) /\ ~Covered(s, i) /\ ~LiteralAt(s, i)
  <2>1. Reach(s, i - 1) + 1 = i /\ Reach(s, i) = i
    BY <1>1, <1>2, <1>7, ReachStep
  <2>2. p = <<s[i]>>
    BY <1>7, PieceIs
  <2>3. SubSeq(s, i, i) = <<s[i]>> /\ s[i] \in Char
    BY <1>1, <1>2, SubSeqShort
  <2>4. <<s[i]>> \in Seq(Char)
    BY <2>3
  <2> QED
    BY <2>1, <2>2, <2>3, <2>4, BackChars, CharsAreItems DEF Accounts
<1> QED
  BY <1>4, <1>5, <1>6, <1>7

\* What unmask_inner makes of a text spells that text.
LEMMA UnmaskBack ==
    ASSUME NEW s \in Seq(Char), NEW ctx, NEW source, NEW mark \in BOOLEAN, NEW look \in Lookup
    PROVE  /\ UnmaskInner(s, ctx, source, mark, look) \in Seq(Item)
           /\ Back(UnmaskInner(s, ctx, source, mark, look)) = s
<1> DEFINE ps == [i \in DOMAIN s |-> UnmaskPiece(s, i, ctx, source, mark, look)]
           q == SpellEach(BackMap, ps)
<1>1. PICK n \in Nat : n = Len(s)
  OBVIOUS
<1>2. DOMAIN s = 1..n
  BY <1>1
<1>3. \A i \in 1..n : ps[i] = UnmaskPiece(s, i, ctx, source, mark, look)
  BY <1>2
<1>4. ps = [i \in 1..n |-> ps[i]]
  BY <1>2
<1> HIDE DEF ps
<1>5. \A i \in 1..n : ps[i] \in Seq(Item) /\ Back(ps[i]) = SubSeq(s, Reach(s, i - 1) + 1, Reach(s, i))
  <2> SUFFICES ASSUME NEW i \in 1..n
               PROVE  ps[i] \in Seq(Item) /\ Back(ps[i]) = SubSeq(s, Reach(s, i - 1) + 1, Reach(s, i))
    OBVIOUS
  <2>1. PICK p : p = ps[i]
    OBVIOUS
  <2>2. i \in DOMAIN s /\ p = UnmaskPiece(s, i, ctx, source, mark, look)
    BY <1>2, <1>3, <2>1
  <2>3. Accounts(s, i, p)
    BY <2>2, PieceBack
  <2> QED
    BY <2>1, <2>3 DEF Accounts
<1>6. ps \in [1..n -> Seq(Item)]
  BY <1>4, <1>5
<1>7. ps \in Seq(Seq(Item)) /\ Len(ps) = n
  BY <1>6, SeqIs
<1>8. DOMAIN ps = 1..n
  BY <1>6
<1>9. \A i \in 1..n : q[i] = SubSeq(s, Reach(s, i - 1) + 1, Reach(s, i))
  BY <1>5, <1>8, BackIs DEF SpellEach
<1>10. q = SpellEach(BackMap, ps) /\ DOMAIN q = 1..n
  BY <1>8 DEF SpellEach
<1> HIDE DEF q
<1>11. q \in Seq(Seq(Char)) /\ Spell(BackMap, FlattenSeq(ps)) = FlattenSeq(q)
  BY <1>7, <1>10, BackSpells, SpellFlat
<1>12. Len(q) = n
  BY <1>10, <1>11
<1> DEFINE e == [k \in 0..n |-> Reach(s, k)]
<1>13. \A k \in 1..n : e[k] = Reach(s, k) /\ e[k - 1] = Reach(s, k - 1)
  BY <1>1
<1>14. e[0] = 0
  BY <1>1 DEF Reach
<1>15. e[n] = n
  <2>1. CASE n = 0
    BY <1>14, <2>1
  <2>2. CASE n # 0
    <3>1. n \in 1..n /\ e[n] = Reach(s, n)
      BY <1>13, <2>2
    <3>2. ~TokenAt(s, n) /\ ~LiteralAt(s, n) /\ (n > 1 => ~TokenAt(s, n - 1))
      BY <1>1 DEF TokenAt, LiteralAt
    <3> QED
      BY <3>1, <3>2, <2>2 DEF Reach
  <2> QED
    BY <2>1, <2>2
<1> HIDE DEF e
<1>16. \A k \in 1..n : /\ e[k - 1] \in Nat /\ e[k] \in Nat /\ e[k - 1] <= e[k] /\ e[k] <= Len(s)
                       /\ q[k] = SubSeq(s, e[k - 1] + 1, e[k])
  <2> SUFFICES ASSUME NEW k \in 1..n
               PROVE  /\ e[k - 1] \in Nat /\ e[k] \in Nat /\ e[k - 1] <= e[k] /\ e[k] <= Len(s)
                      /\ q[k] = SubSeq(s, e[k - 1] + 1, e[k])
    OBVIOUS
  <2>1. Reach(s, k - 1) \in Nat /\ Reach(s, k) \in Nat /\ Reach(s, k - 1) <= Reach(s, k) /\ Reach(s, k) <= n
    BY <1>1, ReachStep
  <2> QED
    BY <1>1, <1>9, <1>13, <2>1
<1>17. FlattenSeq(q) = s
  BY <1>1, <1>11, <1>12, <1>14, <1>15, <1>16, Cover
<1>18. UnmaskInner(s, ctx, source, mark, look) = FlattenSeq(ps)
  BY DEF UnmaskInner, ps
<1>19. FlattenSeq(ps) \in Seq(Item)
  BY <1>7, FlattenType
<1> QED
  BY <1>11, <1>17, <1>18, <1>19, BackIs

\* Every item of a restored text is a character or stands for a handle that may be shown.
LEMMA UnmaskShows ==
    ASSUME NEW s \in Seq(Char), NEW ctx, NEW source, NEW mark \in BOOLEAN, NEW look \in Lookup,
           NEW u, u = UnmaskInner(s, ctx, source, mark, look), NEW j \in DOMAIN u
    PROVE  u[j] \in Char \/ \E h : MayShow(h, ctx, source, mark, look, u[j])
<1> DEFINE ps == [i \in DOMAIN s |-> UnmaskPiece(s, i, ctx, source, mark, look)]
<1>1. PICK n \in Nat : n = Len(s)
  OBVIOUS
<1>2. DOMAIN s = 1..n
  BY <1>1
<1>3. \A i \in 1..n : ps[i] = UnmaskPiece(s, i, ctx, source, mark, look)
  BY <1>2
<1>4. ps = [i \in 1..n |-> ps[i]]
  BY <1>2
<1>0. u = FlattenSeq(ps)
  BY DEF UnmaskInner
<1> HIDE DEF ps
<1>5. ASSUME NEW i \in 1..n
      PROVE  /\ Accounts(s, i, ps[i])
             /\ \A k \in DOMAIN ps[i] : ps[i][k] \in Char \/ \E h : MayShow(h, ctx, source, mark, look, ps[i][k])
  <2>1. PICK p : p = ps[i]
    OBVIOUS
  <2>2. i \in DOMAIN s /\ p = UnmaskPiece(s, i, ctx, source, mark, look)
    BY <1>2, <1>3, <2>1
  <2>3. Accounts(s, i, p)
    BY <2>2, PieceBack
  <2>4. Literal \subseteq Handle /\ s[i] \in Char
    BY <2>2, CharsDiffer
  <2>5. \A h \in Handle : Token(h) \in Seq(Char)
    BY TokenIs
  <2>6. \/ \E h \in Handle : p = Token(h)
        \/ \E h, x : MayShow(h, ctx, source, mark, look, x) /\ p = <<x>>
        \/ p = <<>>
        \/ p = <<s[i]>>
    BY <2>2, <2>4, PieceIs
  <2>7. \A k \in DOMAIN p : p[k] \in Char \/ \E h : MayShow(h, ctx, source, mark, look, p[k])
    <3>1. CASE \E h \in Handle : p = Token(h)
      BY <2>5, <3>1
    <3>2. CASE \E h, x : MayShow(h, ctx, source, mark, look, x) /\ p = <<x>>
      BY <3>2
    <3>3. CASE p = <<>>
      BY <3>3
    <3>4. CASE p = <<s[i]>>
      BY <2>4, <3>4
    <3> QED
      BY <2>6, <3>1, <3>2, <3>3, <3>4
  <2> QED
    BY <2>1, <2>3, <2>7
<1>6. ps \in [1..n -> Seq(Item)]
  BY <1>4, <1>5 DEF Accounts
<1>7. ps \in Seq(Seq(Item)) /\ DOMAIN ps = 1..n
  BY <1>6, SeqIs
<1>8. PICK w : w = ps
  OBVIOUS
<1>9. w \in Seq(Seq(Item))
  BY <1>7, <1>8
<1>10. j \in DOMAIN FlattenSeq(w)
  BY <1>0, <1>8
<1>11. PICK i \in DOMAIN w : \E k \in DOMAIN w[i] : FlattenSeq(w)[j] = w[i][k]
  BY <1>9, <1>10, FlattenFrom
<1>12. u = FlattenSeq(w)
  BY <1>0, <1>8
<1>13. i \in 1..n /\ \E k \in DOMAIN ps[i] : u[j] = ps[i][k]
  BY <1>7, <1>8, <1>11, <1>12
<1> QED
  BY <1>5, <1>13

\* Nothing is unmasked to nothing.
LEMMA UnmaskEmpty ==
    ASSUME NEW ctx, NEW source, NEW mark, NEW look
    PROVE  UnmaskInner(<<>>, ctx, source, mark, look) = <<>>
<1>1. [i \in DOMAIN <<>> |-> UnmaskPiece(<<>>, i, ctx, source, mark, look)] = <<>>
  OBVIOUS
<1> QED
  BY <1>1, FlattenEmpty DEF UnmaskInner

-----------------------------------------------------------------------------
(* The relays. *)

\* x may be forwarded in a block of this kind.
Fits(kind, x) ==
    x \notin Char =>
        /\ x.of \notin BrokerHandle
        /\ kind # "thinking"
        /\ kind = "json" =>
               IF x.of \in Look.local THEN x.of \in Look.promoted
               ELSE /\ Restore[x.of] # "gated"
                    /\ Restore[x.of] = "embedded" => x.esc
        /\ kind # "text" => ~x.mark
AllFit(kind, s) == \A j \in DOMAIN s : Fits(kind, s[j])

\* t is a relay's restoring of s for a block of this kind.
Restores(kind, s, t) == t \in Seq(Item) /\ Back(t) = s /\ AllFit(kind, t)

\* Two texts that fit a kind of block fit it together.
LEMMA AllFitConcat ==
    ASSUME NEW kind, NEW s \in Seq(Item), NEW t \in Seq(Item), AllFit(kind, s), AllFit(kind, t)
    PROVE  AllFit(kind, s \o t)
<1> SUFFICES ASSUME NEW j \in DOMAIN (s \o t) PROVE Fits(kind, (s \o t)[j])
  BY DEF AllFit
<1>1. j \in 1..(Len(s) + Len(t)) /\ Len(s) \in Nat /\ Len(t) \in Nat
  OBVIOUS
<1>2. CASE j <= Len(s)
  <2>1. j \in DOMAIN s /\ (s \o t)[j] = s[j]
    BY <1>1, <1>2
  <2> QED
    BY <2>1 DEF AllFit
<1>3. CASE j > Len(s)
  <2>1. j - Len(s) \in DOMAIN t /\ (s \o t)[j] = t[j - Len(s)]
    BY <1>1, <1>3
  <2> QED
    BY <2>1 DEF AllFit
<1> QED
  BY <1>1, <1>2, <1>3

\* A text left as it is restores itself.
LEMMA CharsFit ==
    ASSUME NEW kind, NEW s \in Seq(Char)
    PROVE  Restores(kind, s, s)
<1>1. \A j \in DOMAIN s : s[j] \in Char
  OBVIOUS
<1> QED
  BY <1>1, BackChars, CharsAreItems DEF Restores, AllFit, Fits

\* The engine call of a kind of block restores for that kind.
LEMMA ToolRestores ==
    ASSUME NEW s \in Seq(Char)
    PROVE  Restores("json", s, UnmaskToolInput(s, Look))
<1>1. PICK no \in BOOLEAN : no = FALSE
  OBVIOUS
<1>2. PICK u : u = UnmaskInner(s, "tool", "raw", no, Look)
  OBVIOUS
<1>3. u = UnmaskToolInput(s, Look)
  BY <1>1, <1>2 DEF UnmaskToolInput
<1>6. no \in BOOLEAN /\ Look \in Lookup
  BY StreamAssumption
<1>4. u \in Seq(Item) /\ Back(u) = s
  BY <1>2, <1>6, UnmaskBack
<1>5. ASSUME NEW j \in DOMAIN u PROVE Fits("json", u[j])
  <2>1. u[j] \in Char \/ \E h : MayShow(h, "tool", "raw", no, Look, u[j])
    BY <1>1, <1>2, <1>5, <1>6, UnmaskShows
  <2> QED
    BY <1>1, <2>1 DEF Fits, MayShow
<1> QED
  BY <1>3, <1>4, <1>5 DEF Restores, AllFit

\* Text outside the assistant's prose: UnmaskOther restores the text it was given.
LEMMA OtherRestores ==
    ASSUME NEW s \in Seq(Char), NEW kind \in {"text", "compaction"}
    PROVE  Restores(kind, s, UnmaskOther(s, Look))
<1>1. PICK no \in BOOLEAN : no = FALSE
  OBVIOUS
<1>2. PICK u : u = UnmaskInner(s, "other", "raw", no, Look)
  OBVIOUS
<1>3. u = UnmaskOther(s, Look)
  BY <1>1, <1>2 DEF UnmaskOther
<1>6. no \in BOOLEAN /\ Look \in Lookup
  BY StreamAssumption
<1>4. u \in Seq(Item) /\ Back(u) = s
  BY <1>2, <1>6, UnmaskBack
<1>5. ASSUME NEW j \in DOMAIN u PROVE Fits(kind, u[j])
  <2>1. u[j] \in Char \/ \E h : MayShow(h, "other", "raw", no, Look, u[j])
    BY <1>1, <1>2, <1>5, <1>6, UnmaskShows
  <2> QED
    BY <1>1, <2>1 DEF Fits, MayShow
<1> QED
  BY <1>3, <1>4, <1>5 DEF Restores, AllFit

\* Assistant prose, with its marks, restores the text it was given.
LEMMA ProseRestores ==
    ASSUME NEW s \in Seq(Char)
    PROVE  Restores("text", s, UnmaskAssistant(s, TRUE, Look))
<1>1. PICK yes \in BOOLEAN : yes = TRUE
  OBVIOUS
<1>2. PICK u : u = UnmaskInner(s, "display", "raw", yes, Look)
  OBVIOUS
<1>3. u = UnmaskAssistant(s, TRUE, Look)
  BY <1>1, <1>2 DEF UnmaskAssistant
<1>6. yes \in BOOLEAN /\ Look \in Lookup
  BY StreamAssumption
<1>4. u \in Seq(Item) /\ Back(u) = s
  BY <1>2, <1>6, UnmaskBack
<1>5. ASSUME NEW j \in DOMAIN u PROVE Fits("text", u[j])
  <2>1. u[j] \in Char \/ \E h : MayShow(h, "display", "raw", yes, Look, u[j])
    BY <1>1, <1>2, <1>5, <1>6, UnmaskShows
  <2> QED
    BY <1>1, <2>1 DEF Fits, MayShow
<1> QED
  BY <1>3, <1>4, <1>5 DEF Restores, AllFit

\* What a delta forwards restores the part of the buffer it was given, whatever the kind.
LEMMA EmitRestores ==
    ASSUME NEW s \in Seq(Char), NEW kind \in Kind
    PROVE  Restores(kind, s, Emit(s, kind))
<1>1. CASE kind = "text"
  BY <1>1, ProseRestores DEF Emit
<1>2. CASE kind = "compaction"
  BY <1>2, OtherRestores DEF Emit
<1>3. CASE kind = "json"
  BY <1>3, ToolRestores DEF Emit
<1>4. CASE kind = "thinking"
  BY <1>4, CharsFit DEF Emit
<1> QED
  BY <1>1, <1>2, <1>3, <1>4 DEF Kind

\* What is flushed at the end of a block restores what was held.
LEMMA FlushRestores ==
    ASSUME NEW s \in Seq(Char), NEW kind, NEW held,
           s # <<>> => held = kind /\ kind \in Kind \ {"thinking"} /\ (wire # "anthropic" => kind # "compaction")
    PROVE  Restores(kind, s, Flush(s, held))
<1>1. CASE s = <<>>
  <2>1. Flush(s, held) = <<>>
    BY <1>1, UnmaskEmpty DEF Flush, UnmaskToolInput, UnmaskOther, UnmaskAssistant
  <2> QED
    BY <1>1, <2>1, CharsFit
<1>2. CASE s # <<>> /\ kind = "json"
  BY <1>2, ToolRestores DEF Flush
<1>3. CASE s # <<>> /\ kind # "json" /\ wire = "anthropic"
  <2>1. kind \in {"text", "compaction"} /\ Flush(s, held) = UnmaskOther(s, Look)
    BY <1>3 DEF Flush, Kind
  <2> QED
    BY <2>1, OtherRestores
<1>4. CASE s # <<>> /\ kind # "json" /\ wire # "anthropic"
  <2>1. kind = "text" /\ Flush(s, held) = UnmaskAssistant(s, TRUE, Look)
    BY <1>4 DEF Flush, Kind
  <2> QED
    BY <2>1, ProseRestores
<1> QED
  BY <1>1, <1>2, <1>3, <1>4

-----------------------------------------------------------------------------
(* Where a buffer is cut.                                                  *)

\* A set of positions that is not empty has a last one.
LEMMA LargestOf ==
    ASSUME NEW n \in Nat, NEW T, T \subseteq 1..n, T # {}
    PROVE  \E m \in T : \A j \in T : j <= m
<1> DEFINE Above == {k \in Nat : \A j \in T : j <= k}
<1>1. n \in Above
  OBVIOUS
<1>2. PICK m \in Above : \A k \in Above : m <= k
  <2> HIDE DEF Above
  <2>1. Above \subseteq Nat
    BY DEF Above
  <2> QED
    BY <1>1, <2>1, SmallestOf
<1>3. m \in Nat /\ \A j \in T : j \in Nat /\ j <= m
  BY <1>2
<1>4. m \in T
  <2> SUFFICES ASSUME m \notin T PROVE FALSE
    OBVIOUS
  <2>1. PICK j \in T : TRUE
    OBVIOUS
  <2>2. m - 1 \in Nat /\ \A k \in T : k <= m - 1
    BY <1>3, <2>1
  <2>3. m - 1 \in Above
    BY <2>2
  <2> QED
    BY <1>2, <1>3, <2>3
<1> QED
  BY <1>3, <1>4

\* A buffer is the part before a position and the part from it.
LEMMA CutIs ==
    ASSUME NEW S, NEW buf \in Seq(S), NEW cut \in 1..(Len(buf) + 1)
    PROVE  /\ SubSeq(buf, 1, cut - 1) \in Seq(S) /\ From(buf, cut) \in Seq(S)
           /\ SubSeq(buf, 1, cut - 1) \o From(buf, cut) = buf
           /\ Len(SubSeq(buf, 1, cut - 1)) = cut - 1
           /\ Len(From(buf, cut)) = Len(buf) - cut + 1
           /\ \A k \in 1..(Len(buf) - cut + 1) : From(buf, cut)[k] = buf[cut + k - 1]
<1>1. PICK n \in Nat : n = Len(buf)
  OBVIOUS
<1>2. /\ SubSeq(buf, 1, cut - 1) \in Seq(S) /\ Len(SubSeq(buf, 1, cut - 1)) = cut - 1
      /\ \A k \in 1..(cut - 1) : SubSeq(buf, 1, cut - 1)[k] = buf[1 + k - 1]
  BY <1>1, SubSeqIs
<1>3. /\ From(buf, cut) \in Seq(S) /\ Len(From(buf, cut)) = n - cut + 1
      /\ \A k \in 1..(n - cut + 1) : From(buf, cut)[k] = buf[cut + k - 1]
  BY <1>1, SubSeqIs DEF From
<1>4. SubSeq(buf, 1, cut - 1) \o From(buf, cut) = buf
  <2>1. PICK a, b : a = SubSeq(buf, 1, cut - 1) /\ b = From(buf, cut)
    OBVIOUS
  <2>2. /\ a \in Seq(S) /\ b \in Seq(S) /\ Len(a) = cut - 1 /\ Len(b) = n - cut + 1
        /\ cut \in Int /\ cut >= 1 /\ cut <= n + 1
    BY <1>1, <1>2, <1>3, <2>1
  <2>6. a \o b \in Seq(S) /\ Len(a \o b) = Len(a) + Len(b)
    BY <2>2
  <2>7. (cut - 1) + (n - cut + 1) = n
    BY <1>1, <2>2
  <2>3. a \o b \in Seq(S) /\ Len(a \o b) = n
    BY <2>2, <2>6, <2>7
  <2>4. ASSUME NEW k \in 1..n PROVE (a \o b)[k] = buf[k]
    <3>1. CASE k <= cut - 1
      BY <1>2, <2>1, <2>2, <3>1
    <3>2. CASE k > cut - 1
      <4>1. k - (cut - 1) \in 1..(n - cut + 1) /\ (a \o b)[k] = b[k - (cut - 1)]
        BY <2>2, <3>2
      <4> QED
        BY <1>3, <2>1, <2>2, <4>1
    <3> QED
      BY <2>2, <3>1, <3>2
  <2>5. a \o b = buf
    BY <1>1, <2>3, <2>4, SeqEqual
  <2> QED
    BY <2>1, <2>5
<1> QED
  BY <1>1, <1>2, <1>3, <1>4

\* The part split_safe holds is empty or the beginning of a token, never longer than one.
LEMMA SplitIs ==
    ASSUME NEW buf \in Seq(Char)
    PROVE  /\ SplitAt(buf) \in 1..(Len(buf) + 1)
           /\ SplitAt(buf) <= Len(buf) => Classify(From(buf, SplitAt(buf))) = "partial"
           /\ Len(From(buf, SplitAt(buf))) <= MaxTokenLen
<1> DEFINE brackets == {i \in DOMAIN buf : buf[i] = LB}
           last == CHOOSE i \in brackets : \A j \in brackets : j <= i
<1>1. PICK n \in Nat : n = Len(buf)
  OBVIOUS
<1>2. MaxTokenLen \in Nat
  BY StreamAssumption
<1>3. SplitAt(buf) = IF brackets # {} /\ Classify(From(buf, last)) = "partial" THEN last ELSE n + 1
  BY <1>1 DEF SplitAt
<1>4. brackets # {} => last \in brackets
  <2> SUFFICES ASSUME brackets # {} PROVE last \in brackets
    OBVIOUS
  <2>1. brackets \subseteq 1..n
    BY <1>1
  <2>2. \E m \in brackets : \A j \in brackets : j <= m
    <3> HIDE DEF brackets
    <3> QED
      BY <2>1, LargestOf
  <2> QED
    BY <2>2
<1>5. last \in brackets => last \in 1..n
  BY <1>1
<1> HIDE DEF brackets, last
<1>6. CASE brackets # {} /\ Classify(From(buf, last)) = "partial"
  <2>1. SplitAt(buf) = last /\ last \in 1..n
    BY <1>3, <1>4, <1>5, <1>6
  <2>2. Len(From(buf, last)) \in Nat
    BY <1>1, <2>1, CutIs
  <2>3. ~(Len(From(buf, last)) > MaxTokenLen)
    BY <1>6 DEF Classify
  <2> QED
    BY <1>1, <1>2, <1>6, <2>1, <2>2, <2>3
<1>7. CASE ~(brackets # {} /\ Classify(From(buf, last)) = "partial")
  <2>1. SplitAt(buf) = n + 1
    BY <1>3, <1>7
  <2>2. Len(From(buf, n + 1)) = 0
    BY <1>1, CutIs
  <2> QED
    BY <1>1, <1>2, <2>1, <2>2
<1> QED
  BY <1>6, <1>7

\* Where a buffer is held back is in it, and what is held is bounded.
LEMMA HoldIs ==
    ASSUME NEW buf \in Seq(Char), NEW kind
    PROVE  /\ HoldAt(buf, kind) \in 1..(Len(buf) + 1)
           /\ kind # "json" => HoldAt(buf, kind) = SplitAt(buf)
           /\ Len(From(buf, HoldAt(buf, kind))) <= IF kind = "json" THEN MaxTokenLen + 1 ELSE MaxTokenLen
<1> DEFINE quotes == {i \in DOMAIN buf : IsUnescapedQuote(buf, i)}
           last == CHOOSE i \in quotes : \A j \in quotes : j <= i
           holds == /\ kind = "json" /\ Cardinality(quotes) % 2 = 1
                    /\ IsWholeValueCandidate(From(buf, last + 1))
<1>1. PICK n \in Nat : n = Len(buf)
  OBVIOUS
<1>2. MaxTokenLen \in Nat /\ MaxTokenLen >= 3
  BY StreamAssumption
<1>3. HoldAt(buf, kind) = IF holds THEN last ELSE SplitAt(buf)
  BY DEF HoldAt
<1>4. holds => last \in quotes
  <2> SUFFICES ASSUME holds PROVE last \in quotes
    OBVIOUS
  <2>1. quotes \subseteq 1..n
    BY <1>1
  <2>2. quotes # {}
    <3>1. Cardinality({}) = 0
      BY FS_EmptySet
    <3>2. quotes = {} => Cardinality(quotes) = 0
      BY <3>1
    <3>3. Cardinality(quotes) % 2 = 1
      OBVIOUS
    <3> HIDE DEF quotes
    <3>4. Cardinality(quotes) # 0
      BY <3>3
    <3> QED
      BY <3>2, <3>4
  <2>3. \E m \in quotes : \A j \in quotes : j <= m
    <3> HIDE DEF quotes
    <3> QED
      BY <2>1, <2>2, LargestOf
  <2> QED
    BY <2>3
<1>5. last \in quotes => last \in 1..n
  BY <1>1
<1>6. holds => kind = "json" /\ IsWholeValueCandidate(From(buf, last + 1))
  OBVIOUS
<1> HIDE DEF quotes, last, holds
<1>7. CASE holds
  <2>1. HoldAt(buf, kind) = last /\ last \in 1..n /\ kind = "json"
    BY <1>3, <1>4, <1>5, <1>6, <1>7
  <2>2. PICK v \in Seq(Char) : v = From(buf, last + 1)
    BY <1>1, <2>1, CutIs
  <2>6. PICK k \in 1..n : k = last
    BY <2>1
  <2>7. k \in 1..(Len(buf) + 1) /\ k + 1 \in 1..(Len(buf) + 1)
    BY <1>1, <2>6
  <2>8. Len(From(buf, k)) = Len(buf) - k + 1 /\ Len(From(buf, k + 1)) = Len(buf) - (k + 1) + 1
    BY <2>7, CutIs
  <2>3. Len(v) = n - last /\ Len(From(buf, last)) = n - last + 1
    BY <1>1, <2>2, <2>6, <2>8
  <2>4. IsWholeValueCandidate(v)
    BY <1>6, <1>7, <2>2
  <2>5. Len(v) \in Nat /\ Len(v) <= MaxTokenLen
    <3>1. CASE v = <<>>
      BY <1>2, <3>1
    <3>2. CASE Len(v) = Len(Token(v[2]))
      <4>1. Token(v[2]) = <<v[2], LitEnd>> \/ Token(v[2]) = <<LB, v[2], RB>>
        BY DEF Token
      <4>2. Len(Token(v[2])) = 2 \/ Len(Token(v[2])) = 3
        BY <4>1
      <4>3. Len(v) = 2 \/ Len(v) = 3
        BY <3>2, <4>2
      <4>4. PICK m : m = Len(v)
        OBVIOUS
      <4>5. m \in Nat /\ m <= MaxTokenLen
        BY <1>2, <4>3, <4>4
      <4> QED
        BY <4>4, <4>5
    <3>3. CASE Classify(v) = "partial"
      <4>1. ~(Len(v) > MaxTokenLen)
        BY <3>3 DEF Classify
      <4> QED
        BY <1>2, <4>1
    <3> QED
      BY <2>4, <3>1, <3>2, <3>3 DEF IsWholeValueCandidate
  <2> QED
    BY <1>1, <1>2, <2>1, <2>3, <2>5
<1>8. CASE ~holds
  <2>1. HoldAt(buf, kind) = SplitAt(buf)
    BY <1>3, <1>8
  <2>2. Len(From(buf, SplitAt(buf))) \in Nat
    BY SplitIs, CutIs
  <2> QED
    BY <1>2, <2>1, <2>2, SplitIs
<1>9. kind # "json" => ~holds
  BY <1>6
<1> QED
  BY <1>3, <1>7, <1>8, <1>9

-----------------------------------------------------------------------------
(* One block of a stream.                                                  *)

\* s is short enough to be held in a block of this kind.
Within(kind, s) == Len(s) <= IF kind = "json" THEN MaxTokenLen + 1 ELSE MaxTokenLen

\* What the relay keeps of a block: its text and kind, what was received, held and forwarded.
Relayed(text, kind, g, c, held, o) ==
    /\ g \in Seq(Char) /\ c \in Seq(Char) /\ o \in Seq(Item)
    /\ IsPrefix(g, text)
    /\ held \in Kind \cup {None}
    /\ c # <<>> => held = kind /\ kind \in Kind \ {"thinking"}
    /\ Back(o) \o c = g
    /\ Within(kind, c)
    /\ AllFit(kind, o)

\* A received prefix and the next part of the text are a received prefix.
LEMMA PrefixMore ==
    ASSUME NEW S, NEW text \in Seq(S), NEW g \in Seq(S), IsPrefix(g, text), NEW n \in Nat,
           Len(g) + n <= Len(text)
    PROVE  /\ SubSeq(text, Len(g) + 1, Len(g) + n) \in Seq(S)
           /\ IsPrefix(g \o SubSeq(text, Len(g) + 1, Len(g) + n), text)
           /\ Len(g \o SubSeq(text, Len(g) + 1, Len(g) + n)) = Len(g) + n
<1>1. PICK k \in Nat : k = Len(g)
  OBVIOUS
<1>2. k <= Len(text) /\ g = SubSeq(text, 1, k)
  BY <1>1 DEF IsPrefix
<1>3. PICK more : more = SubSeq(text, k + 1, k + n)
  OBVIOUS
<1>4. more \in Seq(S) /\ Len(more) = n
  BY <1>1, <1>3, SubSeqIs
<1>8. 1 \in Nat /\ k + n \in Nat /\ 1 <= 1 /\ 1 <= k + 1 /\ k <= k + n /\ k + n <= Len(text)
  BY <1>1
<1>5. SubSeq(text, 1, k) \o SubSeq(text, k + 1, k + n) = SubSeq(text, 1, k + n)
  BY <1>8, SubSeqJoin
<1>6. g \o more = SubSeq(text, 1, k + n)
  BY <1>2, <1>3, <1>5
<1>7. Len(g \o more) = k + n
  BY <1>1, <1>4
<1> QED
  BY <1>1, <1>3, <1>4, <1>6, <1>7 DEF IsPrefix

\* Nothing appended.
LEMMA EmptyRight == ASSUME NEW S, NEW s \in Seq(S) PROVE s \o <<>> = s /\ <<>> \in Seq(S)
  OBVIOUS

\* Concatenation is associative.
LEMMA ConcatThree ==
    ASSUME NEW a \in Seq(Char), NEW b \in Seq(Char), NEW c \in Seq(Char)
    PROVE  (a \o b) \o c = a \o (b \o c)
  OBVIOUS

\* What is restored is appended to what was forwarded.
LEMMA ForwardIs ==
    ASSUME NEW kind, NEW o \in Seq(Item), AllFit(kind, o), NEW s \in Seq(Char), NEW t,
           Restores(kind, s, t)
    PROVE  o \o t \in Seq(Item) /\ AllFit(kind, o \o t) /\ Back(o \o t) = Back(o) \o s
<1>1. t \in Seq(Item) /\ Back(t) = s /\ AllFit(kind, t)
  BY DEF Restores
<1>2. Back(o \o t) = Back(o) \o Back(t)
  BY <1>1, BackConcat
<1>3. o \o t \in Seq(Item)
  BY <1>1
<1> QED
  BY <1>1, <1>2, <1>3, AllFitConcat

\* A frame: what is safe is restored and forwarded, the rest is held.
LEMMA BlockFrame ==
    ASSUME NEW text \in Seq(Char), NEW kind \in Kind \ {"thinking"}, NEW g, NEW c, NEW held, NEW o,
           Relayed(text, kind, g, c, held, o),
           NEW more \in Seq(Char), IsPrefix(g \o more, text),
           NEW cut \in 1..(Len(c \o more) + 1),
           Within(kind, From(c \o more, cut))
    PROVE  Relayed(text, kind, g \o more, From(c \o more, cut), kind,
                 o \o Emit(SubSeq(c \o more, 1, cut - 1), kind))
<1>1. g \in Seq(Char) /\ c \in Seq(Char) /\ o \in Seq(Item) /\ IsPrefix(g, text) /\ AllFit(kind, o)
  BY DEF Relayed
<1>13. Back(o) \o c = g
  BY DEF Relayed
<1>2. more \in Seq(Char) /\ IsPrefix(g \o more, text)
  OBVIOUS
<1>14. c \o more \in Seq(Char)
  BY <1>1, <1>2
<1>3. PICK buf : buf = c \o more
  OBVIOUS
<1>15. buf \in Seq(Char) /\ cut \in 1..(Len(buf) + 1)
  BY <1>3, <1>14
<1>4. PICK safe, rest : safe = SubSeq(buf, 1, cut - 1) /\ rest = From(buf, cut)
  OBVIOUS
<1>16. /\ SubSeq(buf, 1, cut - 1) \in Seq(Char) /\ From(buf, cut) \in Seq(Char)
       /\ SubSeq(buf, 1, cut - 1) \o From(buf, cut) = buf
  BY <1>15, CutIs
<1>5. safe \in Seq(Char) /\ rest \in Seq(Char)
  BY <1>4, <1>16
<1>17. safe \o rest = buf
  BY <1>4, <1>16
<1>6. PICK t : t = Emit(safe, kind)
  OBVIOUS
<1>7. Restores(kind, safe, t)
  BY <1>5, <1>6, EmitRestores
<1>8. o \o t \in Seq(Item) /\ AllFit(kind, o \o t) /\ Back(o \o t) = Back(o) \o safe
  BY <1>1, <1>5, <1>7, ForwardIs
<1>9. Back(o \o t) \o rest = g \o more
  <2>1. PICK b : b = Back(o)
    OBVIOUS
  <2>4. b \in Seq(Char)
    BY <1>1, <2>1, BackIs
  <2>2. (b \o safe) \o rest = b \o (safe \o rest)
    BY <1>5, <2>4, ConcatThree
  <2>5. c \in Seq(Char)
    BY <1>1
  <2>3. (b \o c) \o more = b \o (c \o more)
    BY <2>4, <2>5, ConcatThree
  <2> QED
    BY <1>3, <1>8, <1>13, <1>17, <2>1, <2>2, <2>3
<1>10. g \o more \in Seq(Char)
  BY <1>1, <1>2
<1>11. Within(kind, rest)
  BY <1>3, <1>4
<1>12. Relayed(text, kind, g \o more, rest, kind, o \o t)
  BY <1>2, <1>5, <1>8, <1>9, <1>10, <1>11 DEF Relayed
<1> QED
  BY <1>3, <1>4, <1>6, <1>12

\* A delta of a thinking block is forwarded as it is.
LEMMA BlockThinking ==
    ASSUME NEW text \in Seq(Char), NEW g, NEW c, NEW held, NEW o,
           Relayed(text, "thinking", g, c, held, o),
           NEW more \in Seq(Char), IsPrefix(g \o more, text)
    PROVE  Relayed(text, "thinking", g \o more, c, held, o \o more)
<1>1. g \in Seq(Char) /\ o \in Seq(Item) /\ IsPrefix(g, text) /\ AllFit("thinking", o)
  BY DEF Relayed
<1>7. Back(o) \o c = g /\ c = <<>>
  BY DEF Relayed
<1>8. PICK kind : kind = "thinking"
  OBVIOUS
<1>2. more \in Seq(Char) /\ IsPrefix(g \o more, text)
  OBVIOUS
<1>3. Restores("thinking", more, more)
  BY <1>2, CharsFit
<1>9. AllFit(kind, o) /\ Restores(kind, more, more)
  BY <1>1, <1>3, <1>8
<1>11. o \in Seq(Item) /\ more \in Seq(Char)
  BY <1>1, <1>2
<1>10. o \o more \in Seq(Item) /\ AllFit(kind, o \o more) /\ Back(o \o more) = Back(o) \o more
  BY <1>9, <1>11, ForwardIs
<1>4. o \o more \in Seq(Item) /\ AllFit("thinking", o \o more) /\ Back(o \o more) = Back(o) \o more
  BY <1>8, <1>10
<1>5. Back(o \o more) \o c = g \o more
  <2>1. PICK b : b = Back(o)
    OBVIOUS
  <2>3. b \in Seq(Char) /\ b \o more \in Seq(Char)
    BY <1>1, <1>2, <2>1, BackIs
  <2>2. b \o <<>> = b /\ (b \o more) \o <<>> = b \o more
    BY <2>3, EmptyRight
  <2> QED
    BY <1>4, <1>7, <2>1, <2>2
<1>6. g \o more \in Seq(Char)
  BY <1>1, <1>2
<1> QED
  BY <1>2, <1>4, <1>5, <1>6 DEF Relayed

\* What is held goes out whole.
LEMMA BlockFlush ==
    ASSUME NEW text, NEW kind, NEW g, NEW c, NEW held, NEW o,
           Relayed(text, kind, g, c, held, o), wire # "anthropic" => kind # "compaction",
           NEW after \in Kind \cup {None}
    PROVE  Relayed(text, kind, g, <<>>, after, o \o Flush(c, held))
<1>1. g \in Seq(Char) /\ c \in Seq(Char) /\ o \in Seq(Item) /\ IsPrefix(g, text) /\ AllFit(kind, o)
  BY DEF Relayed
<1>10. Back(o) \o c = g
  BY DEF Relayed
<1>11. c # <<>> => held = kind /\ kind \in Kind \ {"thinking"}
  BY DEF Relayed
<1>2. PICK t : t = Flush(c, held)
  OBVIOUS
<1>3. Restores(kind, c, t)
  BY <1>1, <1>2, <1>11, FlushRestores
<1>4. o \o t \in Seq(Item) /\ AllFit(kind, o \o t) /\ Back(o \o t) = Back(o) \o c
  BY <1>1, <1>3, ForwardIs
<1>5. PICK e : e = <<>>
  OBVIOUS
<1>6. Back(o \o t) \o e = g /\ e \in Seq(Char) /\ Len(e) = 0
  <2>1. PICK b : b = Back(o \o t)
    OBVIOUS
  <2>2. b \in Seq(Char)
    BY <1>4, <2>1, BackIs
  <2>3. b \o <<>> = b
    BY <2>2, EmptyRight
  <2> QED
    BY <1>4, <1>5, <1>10, <2>1, <2>3
<1>7. MaxTokenLen \in Nat
  BY StreamAssumption
<1>8. Within(kind, e)
  BY <1>6, <1>7 DEF Within
<1>9. Relayed(text, kind, g, e, after, o \o t)
  BY <1>1, <1>4, <1>5, <1>6, <1>8 DEF Relayed
<1> QED
  BY <1>2, <1>5, <1>9

-----------------------------------------------------------------------------
(* The stream.                                                             *)

BlockOK(i) == Relayed(script[i].text, script[i].kind, got[i], carry[i], heldKind[i], out[i])

(***************************************************************************)
(* The inductive invariant.                                                *)
(***************************************************************************)
StreamInv ==
    /\ wire \in Wires /\ script \in Script[wire]
    /\ DOMAIN got = Index /\ DOMAIN carry = Index /\ DOMAIN out = Index
    /\ heldKind \in [Index -> Kind \cup {None}]
    /\ open \subseteq Index /\ stopped \subseteq Index \ open
    /\ guard \in {"armed", "completed", "upstream_error", "aborted"}
    /\ wire # "anthropic" => open = {}
    /\ wire = "anthropic" => \A i \in Index \ open : carry[i] = <<>>
    /\ \A i \in Index : BlockOK(i)

\* The texts of the scripts, by the assumption on them.
LEMMA ScriptIs ==
    ASSUME StreamInv, NEW i \in Index
    PROVE  /\ script[i].text \in Seq(Char) /\ script[i].kind \in Kind \cup {None}
           /\ wire # "anthropic" => script[i].kind \in {"text", "json", None}
  BY StreamAssumption DEF StreamInv

\* The buffer a delta works on is a text.
LEMMA BufferIs ==
    ASSUME StreamInv, NEW i \in Index, NEW n \in Nat, Len(got[i]) + n <= Len(script[i].text)
    PROVE  Buffer(i, n) \in Seq(Char)
<1>1. PICK text, g, c : text = script[i].text /\ g = got[i] /\ c = carry[i]
  OBVIOUS
<1>2. g \in Seq(Char) /\ c \in Seq(Char) /\ IsPrefix(g, text)
  BY <1>1 DEF StreamInv, BlockOK, Relayed
<1>3. text \in Seq(Char) /\ Len(g) + n <= Len(text)
  BY <1>1, ScriptIs
<1>4. SubSeq(text, Len(g) + 1, Len(g) + n) \in Seq(Char)
  BY <1>2, <1>3, PrefixMore
<1>5. Buffer(i, n) = c \o SubSeq(text, Len(g) + 1, Len(g) + n)
  BY <1>1 DEF Buffer, More
<1> QED
  BY <1>2, <1>4, <1>5

\* A frame of one block, whatever its cut.
LEMMA FrameInv ==
    ASSUME StreamInv, NEW i \in Index, NEW n \in Nat, NEW cut \in 1..(Len(Buffer(i, n)) + 1),
           Within(script[i].kind, From(Buffer(i, n), cut)), script[i].kind \in Kind \ {"thinking"},
           wire = "anthropic" => i \in open, Frame(i, n, cut)
    PROVE  StreamInv'
<1>1. /\ got' = [got EXCEPT ![i] = got[i] \o More(i, n)]
      /\ heldKind' = [heldKind EXCEPT ![i] = script[i].kind]
      /\ out' = [out EXCEPT ![i] = out[i] \o Emit(SubSeq(Buffer(i, n), 1, cut - 1), script[i].kind)]
      /\ carry' = [carry EXCEPT ![i] = From(Buffer(i, n), cut)]
  BY DEF Frame
<1>2. Len(got[i]) + n <= Len(script[i].text)
  BY DEF Frame
<1>3. UNCHANGED <<wire, script, open, stopped, guard>>
  BY DEF Frame
<1>4. /\ wire \in Wires /\ script \in Script[wire]
      /\ DOMAIN got = Index /\ DOMAIN carry = Index /\ DOMAIN out = Index
      /\ heldKind \in [Index -> Kind \cup {None}]
      /\ open \subseteq Index /\ stopped \subseteq Index \ open
      /\ guard \in {"armed", "completed", "upstream_error", "aborted"}
      /\ wire # "anthropic" => open = {}
      /\ wire = "anthropic" => \A k \in Index \ open : carry[k] = <<>>
  BY DEF StreamInv
<1>5. \A k \in Index : BlockOK(k)
  BY DEF StreamInv
<1>6. ASSUME NEW k \in Index PROVE BlockOK(k)'
  <2>1. CASE k # i
    <3>1. got'[k] = got[k] /\ carry'[k] = carry[k] /\ out'[k] = out[k] /\ heldKind'[k] = heldKind[k]
      BY <1>1, <1>4, <2>1
    <3>2. script' = script
      BY <1>3
    <3> QED
      BY <1>5, <3>1, <3>2 DEF BlockOK
  <2>2. CASE k = i
    <3>1. PICK text, kind, g, c, held, o :
             /\ text = script[i].text /\ kind = script[i].kind /\ g = got[i] /\ c = carry[i]
             /\ held = heldKind[i] /\ o = out[i]
      OBVIOUS
    <3>2. Relayed(text, kind, g, c, held, o)
      BY <1>5, <3>1 DEF BlockOK
    <3>3. text \in Seq(Char) /\ kind \in Kind \ {"thinking"}
      BY <3>1, ScriptIs
    <3>4. PICK more : more = More(i, n)
      OBVIOUS
    <3>5. more = SubSeq(text, Len(g) + 1, Len(g) + n) /\ Len(g) + n <= Len(text)
      BY <1>2, <3>1, <3>4 DEF More
    <3>6. g \in Seq(Char) /\ IsPrefix(g, text)
      BY <3>2 DEF Relayed
    <3>7. more \in Seq(Char) /\ IsPrefix(g \o more, text)
      BY <3>3, <3>5, <3>6, PrefixMore
    <3>8. Buffer(i, n) = c \o more
      BY <3>1, <3>4 DEF Buffer
    <3>9. cut \in 1..(Len(c \o more) + 1) /\ Within(kind, From(c \o more, cut))
      BY <3>1, <3>8
    <3>10. Relayed(text, kind, g \o more, From(c \o more, cut), kind,
                 o \o Emit(SubSeq(c \o more, 1, cut - 1), kind))
      BY <3>2, <3>3, <3>7, <3>9, BlockFrame
    <3>11. /\ got'[i] = g \o more /\ carry'[i] = From(c \o more, cut) /\ heldKind'[i] = kind
           /\ out'[i] = o \o Emit(SubSeq(c \o more, 1, cut - 1), kind)
      BY <1>1, <1>4, <3>1, <3>4, <3>8
    <3>12. script'[i].text = text /\ script'[i].kind = kind
      BY <1>3, <3>1
    <3> QED
      BY <2>2, <3>10, <3>11, <3>12 DEF BlockOK
  <2> QED
    BY <2>1, <2>2
<1>7. DOMAIN got' = Index /\ DOMAIN carry' = Index /\ DOMAIN out' = Index
  BY <1>1, <1>4
<1>8. heldKind' \in [Index -> Kind \cup {None}]
  BY <1>1, <1>4
<1>9. wire' = "anthropic" => \A k \in Index \ open' : carry'[k] = <<>>
  <2> SUFFICES ASSUME wire' = "anthropic", NEW k \in Index \ open' PROVE carry'[k] = <<>>
    OBVIOUS
  <2>1. k # i /\ k \in Index \ open /\ wire = "anthropic"
    BY <1>3
  <2> QED
    BY <1>1, <1>4, <2>1
<1> QED
  BY <1>3, <1>4, <1>6, <1>7, <1>8, <1>9 DEF StreamInv

\* Nothing received, nothing held, nothing forwarded.
LEMMA StreamInitInv == StreamInit => StreamInv
<1> SUFFICES ASSUME StreamInit PROVE StreamInv
  OBVIOUS
<1>1. /\ wire \in Wires /\ script \in Script[wire]
      /\ got = [i \in Index |-> <<>>] /\ carry = got /\ out = got
      /\ heldKind = [i \in Index |-> None] /\ open = {} /\ stopped = {} /\ guard = "armed"
  BY DEF StreamInit
<1>2. ASSUME NEW i \in Index PROVE BlockOK(i)
  <2>1. PICK e : e = <<>>
    OBVIOUS
  <2>2. got[i] = e /\ carry[i] = e /\ out[i] = e /\ heldKind[i] = None
    BY <1>1, <2>1
  <2>3. PICK text, kind : text = script[i].text /\ kind = script[i].kind
    OBVIOUS
  <2>4. text \in Seq(Char)
    BY <1>1, <2>3, StreamAssumption
  <2>5. e \in Seq(Char) /\ Len(e) = 0 /\ Len(text) \in Nat
    BY <2>1, <2>4
  <2>6. Restores(kind, e, e)
    BY <2>5, CharsFit
  <2>7. e \in Seq(Item) /\ AllFit(kind, e) /\ Back(e) = e
    BY <2>6 DEF Restores
  <2>8. Back(e) \o e = e
    BY <2>1, <2>7
  <2>9. IsPrefix(e, text)
    <3>1. SubSeq(text, 1, 0) = <<>>
      BY <2>4
    <3> QED
      BY <2>1, <2>5, <3>1 DEF IsPrefix
  <2>10. Within(kind, e)
    BY <2>5, StreamAssumption DEF Within
  <2>11. Relayed(text, kind, e, e, None, e)
    BY <2>1, <2>5, <2>7, <2>8, <2>9, <2>10 DEF Relayed
  <2> QED
    BY <2>2, <2>3, <2>11 DEF BlockOK
<1>3. wire = "anthropic" => \A i \in Index \ open : carry[i] = <<>>
  BY <1>1
<1> QED
  BY <1>1, <1>2, <1>3 DEF StreamInv

\* ContentBlockStart.
LEMMA StartInv == ASSUME StreamInv, NEW i \in Index, Start(i) PROVE StreamInv'
<1>1. /\ wire = "anthropic" /\ i \notin open \cup stopped
      /\ open' = open \cup {i} /\ carry' = [carry EXCEPT ![i] = <<>>]
      /\ UNCHANGED <<wire, script, got, heldKind, stopped, out, guard>>
  BY DEF Start
<1>2. /\ wire \in Wires /\ script \in Script[wire]
      /\ DOMAIN got = Index /\ DOMAIN carry = Index /\ DOMAIN out = Index
      /\ heldKind \in [Index -> Kind \cup {None}]
      /\ open \subseteq Index /\ stopped \subseteq Index \ open
      /\ guard \in {"armed", "completed", "upstream_error", "aborted"}
      /\ wire = "anthropic" => \A k \in Index \ open : carry[k] = <<>>
      /\ \A k \in Index : BlockOK(k)
  BY DEF StreamInv
<1>3. ASSUME NEW k \in Index PROVE carry'[k] = carry[k]
  BY <1>1, <1>2
<1>4. ASSUME NEW k \in Index PROVE BlockOK(k)'
  BY <1>1, <1>2, <1>3 DEF BlockOK
<1>5. wire' = "anthropic" => \A k \in Index \ open' : carry'[k] = <<>>
  BY <1>1, <1>2, <1>3
<1>6. DOMAIN carry' = Index
  BY <1>1, <1>2
<1> QED
  BY <1>1, <1>2, <1>4, <1>5, <1>6 DEF StreamInv

\* ContentBlockDelta of a block that is restored.
LEMMA DeltaInv == ASSUME StreamInv, NEW i \in Index, NEW n \in 1..4, Delta(i, n) PROVE StreamInv'
<1>1. PICK buf, cut, kind : buf = Buffer(i, n) /\ cut = HoldAt(buf, kind) /\ kind = script[i].kind
  OBVIOUS
<1>2. Frame(i, n, cut) /\ i \in open /\ kind \in Kind \ {"thinking"}
  BY <1>1 DEF Delta
<1>3. buf \in Seq(Char)
  BY <1>1, <1>2, BufferIs DEF Frame
<1>4. cut \in 1..(Len(buf) + 1)
  BY <1>1, <1>3, HoldIs
<1>5. Within(kind, From(buf, cut))
  BY <1>1, <1>3, HoldIs DEF Within
<1> QED
  BY <1>1, <1>2, <1>4, <1>5, FrameInv

\* A chat or responses frame, which holds at safe_split whatever its kind.
LEMMA SplitFrameInv ==
    ASSUME StreamInv, NEW i \in Index, NEW n \in 1..4, wire # "anthropic", script[i].kind \in Kind,
           Frame(i, n, SplitAt(Buffer(i, n)))
    PROVE  StreamInv'
<1>1. PICK buf, cut, kind : buf = Buffer(i, n) /\ cut = SplitAt(buf) /\ kind = script[i].kind
  OBVIOUS
<1>2. Frame(i, n, cut) /\ kind \in Kind \ {"thinking"}
  BY <1>1, ScriptIs, StreamAssumption DEF Kind
<1>3. buf \in Seq(Char)
  BY <1>1, <1>2, BufferIs DEF Frame
<1>4. cut \in 1..(Len(buf) + 1) /\ Len(From(buf, cut)) <= MaxTokenLen
  BY <1>1, <1>3, SplitIs
<1>5. Within(kind, From(buf, cut))
  <2>1. Len(From(buf, cut)) \in Nat
    BY <1>3, <1>4, CutIs
  <2> QED
    BY <1>4, <2>1, StreamAssumption DEF Within
<1> QED
  BY <1>1, <1>2, <1>4, <1>5, FrameInv

\* A delta of a thinking block, forwarded as it is.
LEMMA ThinkingInv == ASSUME StreamInv, NEW i \in Index, NEW n \in 1..4, ThinkingDelta(i, n) PROVE StreamInv'
<1>1. /\ wire = "anthropic" /\ i \in open /\ script[i].kind = "thinking"
      /\ got' = [got EXCEPT ![i] = got[i] \o More(i, n)]
      /\ out' = [out EXCEPT ![i] = out[i] \o More(i, n)]
      /\ UNCHANGED <<wire, script, carry, heldKind, open, stopped, guard>>
  BY DEF ThinkingDelta
<1>2. Len(got[i]) + n <= Len(script[i].text)
  BY DEF ThinkingDelta
<1>3. /\ wire \in Wires /\ script \in Script[wire]
      /\ DOMAIN got = Index /\ DOMAIN carry = Index /\ DOMAIN out = Index
      /\ heldKind \in [Index -> Kind \cup {None}]
      /\ open \subseteq Index /\ stopped \subseteq Index \ open
      /\ guard \in {"armed", "completed", "upstream_error", "aborted"}
      /\ wire = "anthropic" => \A k \in Index \ open : carry[k] = <<>>
  BY DEF StreamInv
<1>4. \A k \in Index : BlockOK(k)
  BY DEF StreamInv
<1>5. ASSUME NEW k \in Index PROVE BlockOK(k)'
  <2>1. CASE k # i
    <3>1. got'[k] = got[k] /\ out'[k] = out[k] /\ carry' = carry /\ heldKind' = heldKind /\ script' = script
      BY <1>1, <1>3, <2>1
    <3> QED
      BY <1>4, <3>1 DEF BlockOK
  <2>2. CASE k = i
    <3>1. PICK text, g, c, held, o :
             /\ text = script[i].text /\ g = got[i] /\ c = carry[i]
             /\ held = heldKind[i] /\ o = out[i]
      OBVIOUS
    <3>2. Relayed(text, "thinking", g, c, held, o)
      BY <1>1, <1>4, <3>1 DEF BlockOK
    <3>3. text \in Seq(Char)
      BY <3>1, ScriptIs
    <3>4. PICK more : more = More(i, n)
      OBVIOUS
    <3>5. more = SubSeq(text, Len(g) + 1, Len(g) + n) /\ Len(g) + n <= Len(text)
      BY <1>2, <3>1, <3>4 DEF More
    <3>6. g \in Seq(Char) /\ IsPrefix(g, text)
      BY <3>2 DEF Relayed
    <3>11. n \in Nat
      OBVIOUS
    <3>7. more \in Seq(Char) /\ IsPrefix(g \o more, text)
      BY <3>3, <3>5, <3>6, <3>11, PrefixMore
    <3>8. Relayed(text, "thinking", g \o more, c, held, o \o more)
      BY <3>2, <3>3, <3>7, BlockThinking
    <3>9. got'[i] = g \o more /\ out'[i] = o \o more /\ carry'[i] = c /\ heldKind'[i] = held
      BY <1>1, <1>3, <3>1, <3>4
    <3>10. script'[i].text = text /\ script'[i].kind = "thinking"
      BY <1>1, <3>1
    <3> QED
      BY <2>2, <3>8, <3>9, <3>10 DEF BlockOK
  <2> QED
    BY <2>1, <2>2
<1>6. DOMAIN got' = Index /\ DOMAIN out' = Index
  BY <1>1, <1>3
<1> QED
  BY <1>1, <1>3, <1>5, <1>6 DEF StreamInv

\* The kinds of block the flush of the OpenAI relays must tell apart.
LEMMA NoCompaction ==
    ASSUME StreamInv, NEW i \in Index
    PROVE  wire # "anthropic" => script[i].kind # "compaction"
  BY ScriptIs, StreamAssumption DEF Kind

\* ContentBlockStop.
LEMMA StopInv == ASSUME StreamInv, NEW i \in Index, Stop(i) PROVE StreamInv'
<1>1. /\ i \in open
      /\ out' = [out EXCEPT ![i] = out[i] \o Flush(carry[i], heldKind[i])]
      /\ carry' = [carry EXCEPT ![i] = <<>>]
      /\ heldKind' = [heldKind EXCEPT ![i] = None]
      /\ open' = open \ {i} /\ stopped' = stopped \cup {i}
      /\ UNCHANGED <<wire, script, got, guard>>
  BY DEF Stop
<1>2. /\ wire \in Wires /\ script \in Script[wire]
      /\ DOMAIN got = Index /\ DOMAIN carry = Index /\ DOMAIN out = Index
      /\ heldKind \in [Index -> Kind \cup {None}]
      /\ open \subseteq Index /\ stopped \subseteq Index \ open
      /\ guard \in {"armed", "completed", "upstream_error", "aborted"}
      /\ wire # "anthropic" => open = {}
      /\ wire = "anthropic" => \A k \in Index \ open : carry[k] = <<>>
  BY DEF StreamInv
<1>3. \A k \in Index : BlockOK(k)
  BY DEF StreamInv
<1>4. ASSUME NEW k \in Index PROVE BlockOK(k)'
  <2>1. CASE k # i
    <3>1. got' = got /\ out'[k] = out[k] /\ carry'[k] = carry[k] /\ heldKind'[k] = heldKind[k] /\ script' = script
      BY <1>1, <1>2, <2>1
    <3> QED
      BY <1>3, <3>1 DEF BlockOK
  <2>2. CASE k = i
    <3>1. PICK text, kind, g, c, held, o :
             /\ text = script[i].text /\ kind = script[i].kind /\ g = got[i] /\ c = carry[i]
             /\ held = heldKind[i] /\ o = out[i]
      OBVIOUS
    <3>2. Relayed(text, kind, g, c, held, o)
      BY <1>3, <3>1 DEF BlockOK
    <3>3. wire # "anthropic" => kind # "compaction"
      BY <3>1, NoCompaction
    <3>4. None \in Kind \cup {None}
      OBVIOUS
    <3>5. Relayed(text, kind, g, <<>>, None, o \o Flush(c, held))
      BY <3>2, <3>3, <3>4, BlockFlush
    <3>6. got'[i] = g /\ out'[i] = o \o Flush(c, held) /\ carry'[i] = <<>> /\ heldKind'[i] = None
      BY <1>1, <1>2, <3>1
    <3>7. script'[i].text = text /\ script'[i].kind = kind
      BY <1>1, <3>1
    <3> QED
      BY <2>2, <3>5, <3>6, <3>7 DEF BlockOK
  <2> QED
    BY <2>1, <2>2
<1>5. wire' = "anthropic" => \A k \in Index \ open' : carry'[k] = <<>>
  BY <1>1, <1>2
<1>6. DOMAIN got' = Index /\ DOMAIN out' = Index /\ DOMAIN carry' = Index
  BY <1>1, <1>2
<1>7. heldKind' \in [Index -> Kind \cup {None}]
  BY <1>1, <1>2
<1>8. /\ open' \subseteq Index /\ stopped' \subseteq Index \ open'
      /\ wire' # "anthropic" => open' = {}
  BY <1>1, <1>2
<1> QED
  BY <1>1, <1>2, <1>4, <1>5, <1>6, <1>7, <1>8 DEF StreamInv

\* Flushing everything held leaves every block as it should be.
LEMMA FlushAllIs ==
    ASSUME NEW o, NEW c, NEW kinds, NEW i \in Index, NEW text, NEW kind, NEW g,
           Relayed(text, kind, g, c[i], kinds[i], o[i]), wire # "anthropic" => kind # "compaction",
           NEW after \in Kind \cup {None}
    PROVE  Relayed(text, kind, g, <<>>, after, FlushAll(o, c, kinds)[i])
<1>1. PICK x, y, z : x = o[i] /\ y = c[i] /\ z = kinds[i]
  OBVIOUS
<1>2. Relayed(text, kind, g, y, z, x)
  BY <1>1
<1>3. Relayed(text, kind, g, <<>>, after, x \o Flush(y, z))
  BY <1>2, BlockFlush
<1>4. FlushAll(o, c, kinds)[i] = x \o Flush(y, z)
  BY <1>1 DEF FlushAll
<1> QED
  BY <1>3, <1>4

\* Whatever ends the stream flushes what every block still holds.
LEMMA DrainInv ==
    ASSUME StreamInv, out' = FlushAll(out, carry, heldKind), carry' = [i \in Index |-> <<>>],
           UNCHANGED <<wire, script, got, heldKind, open>>,
           stopped' \subseteq Index \ open', guard' \in {"armed", "completed", "upstream_error", "aborted"}
    PROVE  StreamInv'
<1>1. /\ wire \in Wires /\ script \in Script[wire]
      /\ DOMAIN got = Index
      /\ heldKind \in [Index -> Kind \cup {None}]
      /\ open \subseteq Index
      /\ wire # "anthropic" => open = {}
  BY DEF StreamInv
<1>2. ASSUME NEW i \in Index PROVE BlockOK(i)'
  <2>1. PICK text, kind, g : text = script[i].text /\ kind = script[i].kind /\ g = got[i]
    OBVIOUS
  <2>2. Relayed(text, kind, g, carry[i], heldKind[i], out[i])
    BY <2>1 DEF StreamInv, BlockOK
  <2>3. wire # "anthropic" => kind # "compaction"
    BY <2>1, NoCompaction
  <2>4. PICK after \in Kind \cup {None} : after = heldKind[i]
    BY <1>1
  <2>5. Relayed(text, kind, g, <<>>, after, FlushAll(out, carry, heldKind)[i])
    BY <2>2, <2>3, <2>4, FlushAllIs
  <2>6. got'[i] = g /\ carry'[i] = <<>> /\ heldKind'[i] = after /\ script'[i].text = text /\ script'[i].kind = kind
    BY <2>1, <2>4
  <2> QED
    BY <2>5, <2>6 DEF BlockOK
<1>3. DOMAIN out' = Index /\ DOMAIN carry' = Index /\ \A k \in Index : carry'[k] = <<>>
  BY DEF FlushAll
<1> QED
  BY <1>1, <1>2, <1>3 DEF StreamInv

\* The chat frame that may carry a last delta, a finish reason, or both.
LEMMA ChatTerminalInv ==
    ASSUME StreamInv, NEW i \in Index, NEW n \in 0..2, NEW finish \in BOOLEAN, ChatTerminal(i, n, finish)
    PROVE  StreamInv'
<1>1. PICK buf, cut, kind : buf = Buffer(i, n) /\ cut = SplitAt(buf) /\ kind = script[i].kind
  OBVIOUS
<1>2. PICK safe, rest : safe = SubSeq(buf, 1, cut - 1) /\ rest = From(buf, cut)
  OBVIOUS
<1>3. PICK o, c, kinds : /\ o = [out EXCEPT ![i] = out[i] \o Emit(safe, kind)]
                         /\ c = [carry EXCEPT ![i] = rest]
                         /\ kinds = [heldKind EXCEPT ![i] = kind]
  OBVIOUS
<1>4. /\ wire \in {"chat", "chat_early"} /\ kind \in Kind
      /\ got' = [got EXCEPT ![i] = got[i] \o More(i, n)]
      /\ out' = FlushAll(o, c, kinds) /\ carry' = [k \in Index |-> <<>>] /\ heldKind' = kinds
      /\ stopped' = IF finish THEN stopped \cup {i} ELSE stopped
      /\ UNCHANGED <<wire, script, open, guard>>
  BY <1>1, <1>2, <1>3 DEF ChatTerminal, FlushedAfter
<1>5. Len(got[i]) + n <= Len(script[i].text) /\ n \in Nat
  BY DEF ChatTerminal
<1>6. /\ wire \in Wires /\ script \in Script[wire]
      /\ DOMAIN got = Index /\ DOMAIN carry = Index /\ DOMAIN out = Index
      /\ heldKind \in [Index -> Kind \cup {None}]
      /\ open \subseteq Index /\ stopped \subseteq Index \ open
      /\ guard \in {"armed", "completed", "upstream_error", "aborted"}
      /\ wire # "anthropic" => open = {}
  BY DEF StreamInv
<1>7. \A k \in Index : BlockOK(k)
  BY DEF StreamInv
<1>8. kind \in Kind \ {"thinking"}
  BY <1>1, <1>4, ScriptIs, StreamAssumption DEF Kind
<1>9. ASSUME NEW k \in Index PROVE BlockOK(k)'
  <2>1. PICK text, kd, g : text = script[k].text /\ kd = script[k].kind /\ g = got'[k]
    OBVIOUS
  <2>2. wire # "anthropic" => kd # "compaction"
    BY <2>1, NoCompaction
  <2>3. PICK after \in Kind \cup {None} : after = kinds[k]
    BY <1>3, <1>4, <1>6
  <2>4. Relayed(text, kd, g, c[k], kinds[k], o[k])
    <3>1. CASE k # i
      <4>1. g = got[k] /\ c[k] = carry[k] /\ o[k] = out[k] /\ kinds[k] = heldKind[k]
        BY <1>3, <1>4, <1>6, <2>1, <3>1
      <4> QED
        BY <1>7, <2>1, <4>1 DEF BlockOK
    <3>2. CASE k = i
      <4>1. PICK g0, c0, held, o0 : g0 = got[i] /\ c0 = carry[i] /\ held = heldKind[i] /\ o0 = out[i]
        OBVIOUS
      <4>2. Relayed(text, kind, g0, c0, held, o0) /\ kd = kind
        BY <1>1, <1>7, <2>1, <3>2, <4>1 DEF BlockOK
      <4>3. text \in Seq(Char)
        BY <2>1, ScriptIs
      <4>4. PICK more : more = More(i, n)
        OBVIOUS
      <4>5. more = SubSeq(text, Len(g0) + 1, Len(g0) + n) /\ Len(g0) + n <= Len(text)
        BY <1>5, <2>1, <3>2, <4>1, <4>4 DEF More
      <4>6. g0 \in Seq(Char) /\ IsPrefix(g0, text)
        BY <4>2 DEF Relayed
      <4>7. more \in Seq(Char) /\ IsPrefix(g0 \o more, text)
        BY <1>5, <4>3, <4>5, <4>6, PrefixMore
      <4>8. buf = c0 \o more
        BY <1>1, <4>1, <4>4 DEF Buffer
      <4>9. buf \in Seq(Char)
        BY <1>1, <1>5, BufferIs
      <4>10. cut \in 1..(Len(buf) + 1) /\ Len(From(buf, cut)) <= MaxTokenLen
        BY <1>1, <4>9, SplitIs
      <4>11. Within(kind, From(buf, cut))
        <5>1. Len(From(buf, cut)) \in Nat
          BY <4>9, <4>10, CutIs
        <5> QED
          BY <4>10, <5>1, StreamAssumption DEF Within
      <4>12. Relayed(text, kind, g0 \o more, From(c0 \o more, cut), kind,
                   o0 \o Emit(SubSeq(c0 \o more, 1, cut - 1), kind))
        BY <1>8, <4>2, <4>3, <4>7, <4>8, <4>10, <4>11, BlockFrame
      <4>13. g = g0 \o more /\ c[i] = rest /\ kinds[i] = kind /\ o[i] = o0 \o Emit(safe, kind)
        BY <1>3, <1>4, <1>6, <2>1, <3>2, <4>1, <4>4
      <4> QED
        BY <1>2, <3>2, <4>2, <4>8, <4>12, <4>13
    <3> QED
      BY <3>1, <3>2
  <2>5. Relayed(text, kd, g, <<>>, after, FlushAll(o, c, kinds)[k])
    BY <2>2, <2>3, <2>4, FlushAllIs
  <2>6. /\ out'[k] = FlushAll(o, c, kinds)[k] /\ carry'[k] = <<>> /\ heldKind'[k] = after
        /\ script'[k].text = text /\ script'[k].kind = kd /\ got'[k] = g
    BY <1>4, <2>1, <2>3
  <2> QED
    BY <2>5, <2>6 DEF BlockOK
<1>10. DOMAIN got' = Index /\ DOMAIN out' = Index /\ DOMAIN carry' = Index /\ \A k \in Index : carry'[k] = <<>>
  BY <1>4, <1>6 DEF FlushAll
<1>11. heldKind' \in [Index -> Kind \cup {None}]
  BY <1>3, <1>4, <1>6
<1>12. open' \subseteq Index /\ stopped' \subseteq Index \ open' /\ (wire' # "anthropic" => open' = {})
  BY <1>4, <1>6
<1> QED
  BY <1>4, <1>6, <1>9, <1>10, <1>11, <1>12 DEF StreamInv

\* Every step of the relays keeps the invariant.
LEMMA StreamNextInv == StreamInv /\ [StreamNext]_svars => StreamInv'
<1> SUFFICES ASSUME StreamInv, [StreamNext]_svars PROVE StreamInv'
  OBVIOUS
<1>1. CASE \E i \in Index : Start(i) \/ Stop(i)
  BY <1>1, StartInv, StopInv
<1>2. CASE \E i \in Index, n \in 1..4 : Delta(i, n) \/ ThinkingDelta(i, n)
  BY <1>2, DeltaInv, ThinkingInv
<1>3. CASE \E i \in Index, n \in 1..4 : ChatDelta(i, n) \/ ResponsesDelta(i, n)
  <2>1. PICK i \in Index, n \in 1..4 : ChatDelta(i, n) \/ ResponsesDelta(i, n)
    BY <1>3
  <2>2. /\ wire # "anthropic" /\ script[i].kind \in Kind
        /\ Frame(i, n, SplitAt(Buffer(i, n)))
    BY <2>1 DEF ChatDelta, ResponsesDelta
  <2> QED
    BY <2>2, SplitFrameInv
<1>4. CASE \E i \in Index, n \in 0..2, finish \in BOOLEAN : ChatTerminal(i, n, finish)
  BY <1>4, ChatTerminalInv
<1>5. CASE Sentinel
  <2>1. /\ out' = FlushAll(out, carry, heldKind) /\ carry' = [i \in Index |-> <<>>]
        /\ UNCHANGED <<wire, script, got, heldKind, open, guard>>
        /\ wire # "anthropic" /\ stopped' = Index
    BY <1>5 DEF Sentinel
  <2>2. stopped' \subseteq Index \ open' /\ guard' \in {"armed", "completed", "upstream_error", "aborted"}
    BY <2>1 DEF StreamInv
  <2> QED
    BY <2>1, <2>2, DrainInv
<1>6. CASE EndOfStream
  <2>1. /\ out' = FlushAll(out, carry, heldKind) /\ carry' = [i \in Index |-> <<>>]
        /\ UNCHANGED <<wire, script, got, heldKind, open>>
        /\ stopped' = stopped /\ guard' = "completed"
    BY <1>6 DEF EndOfStream
  <2>2. stopped' \subseteq Index \ open' /\ guard' \in {"armed", "completed", "upstream_error", "aborted"}
    BY <2>1 DEF StreamInv
  <2> QED
    BY <2>1, <2>2, DrainInv
<1>7. CASE Break
  <2>1. UNCHANGED <<wire, script, got, carry, heldKind, open, stopped, out>>
        /\ guard' \in {"upstream_error", "aborted"}
    BY <1>7 DEF Break
  <2> QED
    BY <2>1 DEF StreamInv, BlockOK
<1>8. CASE UNCHANGED svars
  BY <1>8 DEF svars, StreamInv, BlockOK
<1> QED
  BY <1>1, <1>2, <1>3, <1>4, <1>5, <1>6, <1>7, <1>8 DEF StreamNext

\* The invariant says what StreamSound asks.
LEMMA StreamInvIs == StreamInv => StreamSound
<1> SUFFICES ASSUME StreamInv PROVE StreamSound
  OBVIOUS
<1>1. ASSUME NEW i \in Index PROVE BlockOK(i)
  BY DEF StreamInv
<1>2. StreamTypeOK
  BY <1>1 DEF StreamInv, StreamTypeOK, BlockOK, Relayed
<1>3. NothingLost
  BY <1>1 DEF NothingLost, BlockOK, Relayed
<1>4. HeldBounded
  BY <1>1 DEF HeldBounded, BlockOK, Relayed, Within
<1>5. StreamRestores
  BY <1>1 DEF StreamRestores, BlockOK, Relayed, AllFit, Fits
<1> QED
  BY <1>2, <1>3, <1>4, <1>5 DEF StreamSound

\* The relays, for any scripts, handles and rules: in every reachable state
\* what was forwarded of each block, with the handles of the restored values
\* put back, and what is held are exactly the text received (no delta lost, sent
\* twice or reordered by the carry buffers of sse.rs and the chat and responses
\* relays, through flushes, stops, drains and aborts); no more is held than
\* may become a token; and every value that was restored is one its kind of
\* block may show, a tool's input by the tool's rules.
THEOREM StreamIsSound == StreamSpec => []StreamSound
<1>1. StreamSpec => []StreamInv
  BY StreamInitInv, StreamNextInv, PTL DEF StreamSpec
<1> QED
  BY <1>1, StreamInvIs, PTL

-----------------------------------------------------------------------------
(* What a text reads as: each value in its token's place, without markers. *)

\* What a reader sees: the characters, and the values.
Sign == Char \cup Val
SettledMap ==
    [x \in Item |-> IF x \in Char THEN <<x>> ELSE IF x.of \in Literal THEN Token(x.of) ELSE <<x.val>>]

\* Every item reads as signs.
LEMMA SettledSpells == Spells(SettledMap, Item, Sign)
<1> SUFFICES ASSUME NEW x \in Item PROVE SettledMap[x] \in Seq(Sign)
  BY DEF Spells
<1>1. Seq(Char) \subseteq Seq(Sign)
  BY SeqMonotonic DEF Sign
<1>2. CASE x \in Char
  <2>1. <<x>> \in Seq(Char)
    BY <1>2
  <2> QED
    BY <1>1, <1>2, <2>1 DEF SettledMap
<1>3. CASE x \notin Char
  <2>1. x.of \in Handle /\ x.val \in Val
    BY <1>3, ItemIs
  <2>2. Token(x.of) \in Seq(Sign)
    BY <1>1, <2>1, TokenIs
  <2>3. <<x.val>> \in Seq(Sign)
    BY <2>1 DEF Sign
  <2> QED
    BY <1>3, <2>2, <2>3 DEF SettledMap
<1> QED
  BY <1>2, <1>3

\* Settling is a spelling.
LEMMA SettledIs ==
    ASSUME NEW s \in Seq(Item)
    PROVE  Settled(s) = Spell(SettledMap, s) /\ Settled(s) \in Seq(Sign)
<1>1. [j \in DOMAIN s |-> IF s[j] \in Char THEN <<s[j]>>
                          ELSE IF s[j].of \in Literal THEN Token(s[j].of) ELSE <<s[j].val>>]
      = [j \in DOMAIN s |-> SettledMap[s[j]]]
  <2>1. \A j \in DOMAIN s : s[j] \in Item
    OBVIOUS
  <2> QED
    BY <2>1 DEF SettledMap
<1>2. Settled(s) = Spell(SettledMap, s)
  BY <1>1 DEF Settled, Spell
<1> QED
  BY <1>2, SettledSpells, SpellType

\* A text settles part by part.
LEMMA SettledConcat ==
    ASSUME NEW s \in Seq(Item), NEW t \in Seq(Item)
    PROVE  s \o t \in Seq(Item) /\ Settled(s \o t) = Settled(s) \o Settled(t)
<1>1. s \o t \in Seq(Item)
  OBVIOUS
<1>2. Spell(SettledMap, s \o t) = Spell(SettledMap, s) \o Spell(SettledMap, t)
  BY SettledSpells, SpellConcat
<1> QED
  BY <1>1, <1>2, SettledIs

\* One item settled.
LEMMA SettledOne ==
    ASSUME NEW x \in Item
    PROVE  Settled(<<x>>) = IF x \in Char THEN <<x>> ELSE IF x.of \in Literal THEN Token(x.of) ELSE <<x.val>>
<1>1. <<x>> \in Seq(Item)
  OBVIOUS
<1>2. Settled(<<x>>) = SettledMap[x]
  BY <1>1, SettledIs, SettledSpells, SpellOne
<1> QED
  BY <1>2 DEF SettledMap

\* Pieces of one character each are the text.
LEMMA OneByOne ==
    ASSUME NEW s \in Seq(Char)
    PROVE  FlattenSeq([j \in DOMAIN s |-> <<s[j]>>]) = s
<1>1. [j \in DOMAIN s |-> IF s[j] \in Char THEN <<s[j]>> ELSE Token(s[j].of)] = [j \in DOMAIN s |-> <<s[j]>>]
  <2>1. \A j \in DOMAIN s : s[j] \in Char
    OBVIOUS
  <2> QED
    BY <2>1
<1>2. Back(s) = s
  BY BackChars
<1> QED
  BY <1>1, <1>2 DEF Back

\* A text without restored values reads as it is.
LEMMA SettledChars ==
    ASSUME NEW s \in Seq(Char)
    PROVE  Settled(s) = s
<1>1. [j \in DOMAIN s |-> IF s[j] \in Char THEN <<s[j]>>
                          ELSE IF s[j].of \in Literal THEN Token(s[j].of) ELSE <<s[j].val>>]
      = [j \in DOMAIN s |-> <<s[j]>>]
  <2>1. \A j \in DOMAIN s : s[j] \in Char
    OBVIOUS
  <2> QED
    BY <2>1
<1> QED
  BY <1>1, OneByOne DEF Settled

\* What the token of h reads as, outside tool inputs.
TokenReads(h, ctx) ==
    IF \/ h \in BrokerHandle
       \/ h \in Look.local /\ ctx # "display" /\ h \notin Look.promoted
       \/ Look.plain[h] = None
    THEN Token(h) ELSE <<Look.plain[h]>>

\* Position i belongs to a token of the grammar that begins before it.
InToken(s, i) == (i > 1 /\ TokenAt(s, i - 1)) \/ (i > 2 /\ TokenAt(s, i - 2))

\* What position i of a text reads as, and the whole of it.
ReadsAt(s, i, ctx) ==
    IF TokenAt(s, i) THEN TokenReads(s[i + 1], ctx) ELSE IF InToken(s, i) THEN <<>> ELSE <<s[i]>>
ReadsAs(s, ctx) == [i \in DOMAIN s |-> ReadsAt(s, i, ctx)]

\* A token reads as signs.
LEMMA TokenReadsType ==
    ASSUME NEW h \in Handle, NEW ctx
    PROVE  TokenReads(h, ctx) \in Seq(Sign)
<1>1. Seq(Char) \subseteq Seq(Sign)
  BY SeqMonotonic DEF Sign
<1>2. Token(h) \in Seq(Sign)
  BY <1>1, TokenIs
<1>3. Look.plain[h] # None => <<Look.plain[h]>> \in Seq(Sign)
  <2>1. Look.plain[h] \in Val \cup {None}
    BY StreamAssumption DEF Lookup
  <2> QED
    BY <2>1 DEF Sign
<1> QED
  BY <1>2, <1>3 DEF TokenReads

\* So does every position.
LEMMA ReadsType ==
    ASSUME NEW s \in Seq(Char), NEW ctx, NEW n \in Nat, n = Len(s)
    PROVE  ReadsAs(s, ctx) \in [1..n -> Seq(Sign)] /\ ReadsAs(s, ctx) \in Seq(Seq(Sign))
           /\ Len(ReadsAs(s, ctx)) = n
<1>1. DOMAIN s = 1..n
  OBVIOUS
<1>2. ASSUME NEW i \in 1..n PROVE ReadsAt(s, i, ctx) \in Seq(Sign)
  <2>1. CASE TokenAt(s, i)
    <3>1. PICK h \in Handle : h = s[i + 1]
      BY <2>1 DEF TokenAt
    <3>2. TokenReads(h, ctx) \in Seq(Sign)
      BY TokenReadsType
    <3> QED
      BY <2>1, <3>1, <3>2 DEF ReadsAt
  <2>2. CASE ~TokenAt(s, i)
    <3>1. s[i] \in Sign
      BY <1>1 DEF Sign
    <3>2. <<s[i]>> \in Seq(Sign) /\ <<>> \in Seq(Sign)
      BY <3>1
    <3> QED
      BY <2>2, <3>2 DEF ReadsAt
  <2> QED
    BY <2>1, <2>2
<1>3. ReadsAs(s, ctx) \in [1..n -> Seq(Sign)]
  BY <1>1, <1>2 DEF ReadsAs
<1> QED
  BY <1>3, SeqIs

\* The value put in a token's place reads as the token does.
LEMMA TokenSettles ==
    ASSUME NEW s, NEW i, s[i + 1] \in Handle \ Literal, NEW ctx, ctx # "tool", NEW mark \in BOOLEAN
    PROVE  Settled(UnmaskToken(s, i, ctx, "raw", mark, Look)) = TokenReads(s[i + 1], ctx)
<1>1. PICK h : h = s[i + 1]
  OBVIOUS
<1>2. h \in Handle /\ h \notin Literal
  BY <1>1
<1>3. PICK t, v : t = Token(h) /\ v = Look.plain[h]
  OBVIOUS
<1>4. v \in Val \cup {None}
  BY <1>2, <1>3, StreamAssumption DEF Lookup
<1>5. PICK u : u = UnmaskToken(s, i, ctx, "raw", mark, Look)
  OBVIOUS
<1>6. PICK stays : stays <=> h \in BrokerHandle \/ (h \in Look.local /\ ctx # "display" /\ h \notin Look.promoted)
  OBVIOUS
<1>7. PICK no \in BOOLEAN : no = FALSE
  OBVIOUS
<1>8. u = IF stays THEN t ELSE IF v = None THEN t ELSE <<Shown(h, v, no, mark)>>
  BY <1>1, <1>3, <1>5, <1>6, <1>7, Zenon DEF UnmaskToken
<1>9. TokenReads(h, ctx) = IF stays \/ v = None THEN t ELSE <<v>>
  BY <1>3, <1>6, Zenon DEF TokenReads
<1>10. Settled(t) = t
  BY <1>2, <1>3, TokenIs, SettledChars
<1>11. CASE stays \/ v = None
  BY <1>1, <1>5, <1>8, <1>9, <1>10, <1>11, Zenon
<1>12. CASE ~stays /\ v # None
  <2>1. PICK x : x = Shown(h, v, no, mark)
    OBVIOUS
  <2>2. x \in Item /\ x \notin Char /\ x.of = h /\ x.val = v
    BY <1>2, <1>4, <1>12, <2>1, ShownIs
  <2>3. Settled(<<x>>) = <<v>>
    BY <1>2, <2>2, SettledOne
  <2> QED
    BY <1>1, <1>5, <1>8, <1>9, <1>12, <2>1, <2>3, Zenon
<1> QED
  BY <1>11, <1>12

\* Two characters, one after the other.
LEMMA TwoSigns ==
    ASSUME NEW x \in Char, NEW y \in Char
    PROVE  <<x>> \o <<y>> = <<x, y>>
<1>1. PICK a, b : a = <<x>> /\ b = <<y>>
  OBVIOUS
<1>2. a \in Seq(Char) /\ Len(a) = 1 /\ a[1] = x
  <2>1. <<x>> \in Seq(Char)
    OBVIOUS
  <2>2. Len(<<x>>) = 1 /\ <<x>>[1] = x
    OBVIOUS
  <2> QED
    BY <1>1, <2>1, <2>2
<1>3. b \in Seq(Char) /\ Len(b) = 1 /\ b[1] = y
  <2>1. <<y>> \in Seq(Char)
    OBVIOUS
  <2>2. Len(<<y>>) = 1 /\ <<y>>[1] = y
    OBVIOUS
  <2> QED
    BY <1>1, <2>1, <2>2
<1>4. PICK p : p = a \o b
  OBVIOUS
<1>5. p \in Seq(Char) /\ Len(p) = 2
  BY <1>2, <1>3, <1>4, ConcatProperties
<1>6. p[1] = x /\ p[2] = y
  <2>1. \A i \in 1..(Len(a) + Len(b)) : (a \o b)[i] = IF i <= Len(a) THEN a[i] ELSE b[i - Len(a)]
    BY <1>2, <1>3, ConcatProperties
  <2>2. 1 \in 1..(1 + 1) /\ 2 \in 1..(1 + 1) /\ 1 <= 1 /\ ~(2 <= 1) /\ 2 - 1 = 1
    OBVIOUS
  <2> QED
    BY <1>2, <1>3, <1>4, <2>1, <2>2
<1>7. p = <<p[1], p[2]>>
  BY <1>5, ShortSeq
<1> QED
  BY <1>1, <1>4, <1>6, <1>7, Zenon

\* Outside tool inputs, what unmask_inner makes of a text reads position by position.
LEMMA UnmaskReads ==
    ASSUME NEW s \in Seq(Char), NEW ctx, ctx # "tool", NEW mark \in BOOLEAN
    PROVE  Settled(UnmaskInner(s, ctx, "raw", mark, Look)) = FlattenSeq(ReadsAs(s, ctx))
<1> DEFINE ps == [i \in DOMAIN s |-> UnmaskPiece(s, i, ctx, "raw", mark, Look)]
           q == SpellEach(SettledMap, ps)
           r == ReadsAs(s, ctx)
           A == {k \in 1..Len(s) : LiteralAt(s, k)}
<1>1. PICK n \in Nat : n = Len(s)
  OBVIOUS
<1>2. DOMAIN s = 1..n /\ A = {k \in 1..n : LiteralAt(s, k)}
  BY <1>1
<1>3. \A i \in 1..n : ps[i] = UnmaskPiece(s, i, ctx, "raw", mark, Look)
  BY <1>2
<1>4. ps = [i \in 1..n |-> ps[i]]
  BY <1>2
<1>5. UnmaskInner(s, ctx, "raw", mark, Look) = FlattenSeq(ps)
  BY DEF UnmaskInner
<1>6. \A i \in 1..n : r[i] = ReadsAt(s, i, ctx)
  BY <1>2 DEF ReadsAs
<1>7. \A k : k \in A <=> k \in 1..n /\ LiteralAt(s, k)
  BY <1>2
<1> HIDE DEF ps, r, A
<1>8. \A i \in 1..n : ps[i] \in Seq(Item)
  <2> SUFFICES ASSUME NEW i \in 1..n PROVE ps[i] \in Seq(Item)
    OBVIOUS
  <2>1. PICK p : p = ps[i]
    OBVIOUS
  <2>2. i \in DOMAIN s /\ p = UnmaskPiece(s, i, ctx, "raw", mark, Look) /\ Look \in Lookup
    BY <1>2, <1>3, <2>1, StreamAssumption
  <2>3. Accounts(s, i, p)
    BY <2>2, PieceBack
  <2> QED
    BY <2>1, <2>3 DEF Accounts
<1>9. ps \in [1..n -> Seq(Item)] /\ DOMAIN ps = 1..n
  BY <1>4, <1>8
<1>10. ps \in Seq(Seq(Item))
  BY <1>9, SeqIs
<1>11. q = SpellEach(SettledMap, ps) /\ DOMAIN q = 1..n
  BY <1>9 DEF SpellEach
<1>12. \A i \in 1..n : q[i] = Settled(ps[i])
  BY <1>8, <1>9, SettledIs DEF SpellEach
<1> HIDE DEF q
<1>13. q \in Seq(Seq(Sign)) /\ Spell(SettledMap, FlattenSeq(ps)) = FlattenSeq(q)
  BY <1>10, <1>11, SettledSpells, SpellFlat
<1>14. q \in [1..n -> Seq(Sign)]
  BY <1>11, <1>13
<1>15. r \in [1..n -> Seq(Sign)]
  BY <1>1, ReadsType DEF r
<1>16. ASSUME NEW k \in 1..n, k \notin A, k - 1 \notin A PROVE q[k] = r[k]
  <2>1. PICK p : p = ps[k]
    OBVIOUS
  <2>2. p = UnmaskPiece(s, k, ctx, "raw", mark, Look) /\ q[k] = Settled(p) /\ r[k] = ReadsAt(s, k, ctx)
    BY <1>3, <1>6, <1>12, <2>1
  <2>3. ~LiteralAt(s, k) /\ (k > 1 => ~LiteralAt(s, k - 1))
    BY <1>7, <1>16
  <2>4. Covered(s, k) <=> InToken(s, k)
    BY <2>3, CoveredIs DEF InToken
  <2>5. CASE TokenAt(s, k)
    <3>1. s[k + 1] \in Handle \ Literal
      BY <2>5 DEF TokenAt
    <3>2. p = UnmaskToken(s, k, ctx, "raw", mark, Look)
      BY <2>2, <2>5, Zenon DEF UnmaskPiece
    <3>3. r[k] = TokenReads(s[k + 1], ctx)
      BY <2>2, <2>5, Zenon DEF ReadsAt
    <3> QED
      BY <2>2, <3>1, <3>2, <3>3, TokenSettles
  <2>6. CASE ~TokenAt(s, k) /\ InToken(s, k)
    <3>1. p = <<>> /\ r[k] = <<>>
      BY <2>2, <2>4, <2>6, Zenon DEF UnmaskPiece, ReadsAt
    <3>2. <<>> \in Seq(Char)
      OBVIOUS
    <3> QED
      BY <2>2, <3>1, <3>2, SettledChars
  <2>7. CASE ~TokenAt(s, k) /\ ~InToken(s, k)
    <3>1. p = <<s[k]>> /\ r[k] = <<s[k]>>
      BY <2>2, <2>3, <2>4, <2>7, Zenon DEF UnmaskPiece, ReadsAt
    <3>2. <<s[k]>> \in Seq(Char)
      BY <1>2
    <3> QED
      BY <2>2, <3>1, <3>2, SettledChars
  <2> QED
    BY <2>5, <2>6, <2>7
<1>17. ASSUME NEW k \in A
       PROVE  k + 1 \in (1..n) \ A /\ q[k] = r[k] \o r[k + 1] /\ q[k + 1] = <<>>
  <2>1. k \in 1..n /\ LiteralAt(s, k) /\ k \in Int
    BY <1>7
  <2>2. /\ ~TokenAt(s, k - 1) /\ ~TokenAt(s, k - 2) /\ ~TokenAt(s, k)
        /\ ~TokenAt(s, k + 1) /\ ~LiteralAt(s, k - 1) /\ ~LiteralAt(s, k + 1)
    BY <2>1, TokensApart
  <2>3. k + 1 \in 1..n /\ s[k] \in Literal /\ s[k + 1] = LitEnd /\ (k + 1) - 1 = k /\ (k + 1) - 2 = k - 1
    BY <1>1, <2>1 DEF LiteralAt
  <2>4. k + 1 \notin A
    BY <1>7, <2>2
  <2>5. PICK h \in Handle : h = s[k] /\ h \in Literal
    BY <2>3, CharsDiffer
  <2>6. Token(h) = <<h, LitEnd>> /\ Token(h) \in Seq(Char)
    BY <2>5, TokenIs
  <2>7. q[k] = Token(h)
    <3>1. PICK p : p = ps[k]
      OBVIOUS
    <3>2. ~Covered(s, k)
      BY <2>1, <2>2, CoveredIs
    <3>3. p = UnmaskLiteral(h, ctx, mark, Look) /\ q[k] = Settled(p)
      BY <1>3, <1>12, <2>1, <2>2, <2>5, <3>1, <3>2, Zenon DEF UnmaskPiece
    <3>4. \/ p = Token(h)
          \/ \E x : MayShow(h, ctx, "raw", mark, Look, x) /\ p = <<x>>
      <4>1. h \in Literal /\ Look \in Lookup /\ mark \in BOOLEAN
        BY <2>5, StreamAssumption
      <4> QED
        BY <3>3, <4>1, UnmaskLiteralIs
    <3>5. ASSUME NEW x, MayShow(h, ctx, "raw", mark, Look, x), p = <<x>> PROVE Settled(p) = Token(h)
      <4>1. x \in Item /\ x \notin Char /\ x.of = h
        BY <3>5 DEF MayShow
      <4> QED
        BY <2>5, <3>5, <4>1, SettledOne
    <3> QED
      BY <2>6, <3>3, <3>4, <3>5, SettledChars
  <2>8. q[k + 1] = <<>>
    <3>1. PICK m \in 1..n : m = k + 1
      BY <2>3
    <3>2. m \in Nat /\ 1 <= m /\ m > 1 /\ m - 1 = k
      BY <2>1, <3>1
    <3>3. Covered(s, m)
      BY <2>1, <3>2, CoveredIs
    <3>4. ps[m] = <<>>
      BY <1>3, <2>2, <3>1, <3>3 DEF UnmaskPiece
    <3>5. <<>> \in Seq(Char)
      OBVIOUS
    <3> QED
      BY <1>12, <3>1, <3>4, <3>5, SettledChars
  <2>9. r[k] = <<h>>
    <3>1. ~InToken(s, k)
      BY <2>2 DEF InToken
    <3> QED
      BY <1>6, <2>1, <2>2, <2>5, <3>1 DEF ReadsAt
  <2>10. r[k + 1] = <<LitEnd>>
    <3>1. ~InToken(s, k + 1)
      BY <2>2, <2>3 DEF InToken
    <3>2. r[k + 1] = ReadsAt(s, k + 1, ctx)
      BY <1>6, <2>3
    <3> QED
      BY <2>2, <2>3, <3>1, <3>2 DEF ReadsAt
  <2>11. <<h>> \o <<LitEnd>> = <<h, LitEnd>>
    BY <2>5, TokenIs, TwoSigns
  <2> QED
    BY <2>3, <2>4, <2>6, <2>7, <2>8, <2>9, <2>10, <2>11
<1>18. A \subseteq 1..n
  BY <1>7
<1>19. Shifts(q, r, A, n)
  BY <1>16, <1>17, <1>18 DEF Shifts
<1>20. FlattenSeq(q) = FlattenSeq(r)
  <2>1. PICK x, y, z : x = q /\ y = r /\ z = A
    OBVIOUS
  <2>2. x \in [1..n -> Seq(Sign)] /\ y \in [1..n -> Seq(Sign)] /\ Shifts(x, y, z, n)
    BY <1>14, <1>15, <1>19, <2>1
  <2>3. FlattenSeq(x) = FlattenSeq(y)
    BY <2>2, FlattenShift, Zenon
  <2> QED
    BY <2>1, <2>3
<1>21. FlattenSeq(ps) \in Seq(Item)
  BY <1>10, FlattenType
<1>22. Settled(FlattenSeq(ps)) = FlattenSeq(q)
  BY <1>13, <1>21, SettledIs
<1> QED
  BY <1>5, <1>20, <1>22 DEF r

\* No token of the grammar lies across the end of s when t follows.
Parted(s, t) == \A i \in DOMAIN s : TokenAt(s \o t, i) => TokenAt(s, i)

\* s ends neither in an open bracket nor in one and a handle.
EndsClean(s) ==
    /\ ~(Len(s) > 0 /\ s[Len(s)] = LB)
    /\ ~(Len(s) > 1 /\ s[Len(s) - 1] = LB /\ s[Len(s)] \in Handle)

\* The positions of two texts joined.
LEMMA JoinIs ==
    ASSUME NEW s \in Seq(Char), NEW t \in Seq(Char), NEW n \in Nat, n = Len(s), NEW m \in Nat, m = Len(t),
           NEW u, u = s \o t
    PROVE  /\ u \in Seq(Char) /\ Len(u) = n + m
           /\ \A i \in 1..n : u[i] = s[i]
           /\ \A j \in 1..m : u[n + j] = t[j]
<1>1. /\ u \in Seq(Char) /\ Len(u) = n + m
      /\ \A i \in 1..(n + m) : u[i] = IF i <= n THEN s[i] ELSE t[i - n]
  BY ConcatProperties
<1>2. ASSUME NEW i \in 1..n PROVE u[i] = s[i]
  <2>1. i \in 1..(n + m) /\ i <= n
    OBVIOUS
  <2> QED
    BY <1>1, <2>1
<1>3. ASSUME NEW j \in 1..m PROVE u[n + j] = t[j]
  <2>1. n + j \in 1..(n + m) /\ ~(n + j <= n) /\ (n + j) - n = j
    OBVIOUS
  <2> QED
    BY <1>1, <2>1
<1> QED
  BY <1>1, <1>2, <1>3

\* The same three characters are the same token.
LEMMA SameToken ==
    ASSUME NEW u, NEW s, NEW i, NEW k, u[i] = s[k], u[i + 1] = s[k + 1], u[i + 2] = s[k + 2],
           i + 2 <= Len(u), k + 2 <= Len(s)
    PROVE  TokenAt(u, i) <=> TokenAt(s, k)
  BY Zenon DEF TokenAt

\* Where what follows is a bracket, and where what precedes ends clean, a text may be cut.
LEMMA PartedIs ==
    ASSUME NEW s \in Seq(Char), NEW t \in Seq(Char), t = <<>> \/ t[1] = LB \/ EndsClean(s)
    PROVE  Parted(s, t)
<1>1. PICK n \in Nat, m \in Nat : n = Len(s) /\ m = Len(t)
  OBVIOUS
<1>2. PICK u : u = s \o t
  OBVIOUS
<1>3. Len(u) = n + m /\ (\A i \in 1..n : u[i] = s[i]) /\ (\A j \in 1..m : u[n + j] = t[j])
  BY <1>1, <1>2, JoinIs
<1>4. ASSUME NEW i \in 1..n, TokenAt(u, i) PROVE TokenAt(s, i)
  <2>1. i + 2 <= n + m /\ u[i] = LB /\ u[i + 1] \in Handle \ Literal /\ u[i + 2] = RB
    BY <1>3, <1>4 DEF TokenAt
  <2>2. LB # RB /\ LB \notin Handle
    BY CharsDiffer
  <2>3. u[i] = s[i]
    BY <1>3
  <2>4. CASE i + 2 <= n
    <3>1. i + 1 \in 1..n /\ i + 2 \in 1..n
      BY <2>4
    <3>2. u[i + 1] = s[i + 1] /\ u[i + 2] = s[i + 2]
      BY <1>3, <3>1
    <3> QED
      BY <1>1, <2>1, <2>3, <2>4, <3>2 DEF TokenAt
  <2>5. CASE i + 1 = n
    <3>1. i + 2 = n + 1 /\ 1 \in 1..m /\ n \in 1..n /\ n > 1 /\ i = n - 1
      BY <2>1, <2>5
    <3>2. t[1] = RB /\ s[n] \in Handle /\ s[n - 1] = LB
      BY <1>3, <2>1, <2>3, <2>5, <3>1
    <3>3. t # <<>> /\ t[1] # LB
      BY <1>1, <2>2, <3>1, <3>2
    <3>4. ~EndsClean(s)
      BY <1>1, <3>1, <3>2 DEF EndsClean
    <3> QED
      BY <3>3, <3>4
  <2>6. CASE i = n
    <3>1. i + 1 = n + 1 /\ 1 \in 1..m /\ n > 0
      BY <2>1, <2>6
    <3>2. t[1] \in Handle /\ s[n] = LB
      BY <1>3, <2>1, <2>3, <2>6, <3>1
    <3>3. t # <<>> /\ t[1] # LB
      BY <1>1, <2>2, <3>1, <3>2
    <3>4. ~EndsClean(s)
      BY <1>1, <3>1, <3>2 DEF EndsClean
    <3> QED
      BY <3>3, <3>4
  <2>7. i + 2 <= n \/ i + 1 = n \/ i = n
    OBVIOUS
  <2> QED
    BY <2>4, <2>5, <2>6, <2>7
<1>5. DOMAIN s = 1..n
  BY <1>1
<1> QED
  BY <1>2, <1>4, <1>5 DEF Parted

\* Parted texts read one after the other.
LEMMA ReadsConcat ==
    ASSUME NEW s \in Seq(Char), NEW t \in Seq(Char), NEW ctx, Parted(s, t)
    PROVE  FlattenSeq(ReadsAs(s \o t, ctx)) = FlattenSeq(ReadsAs(s, ctx)) \o FlattenSeq(ReadsAs(t, ctx))
<1>1. PICK n \in Nat, m \in Nat : n = Len(s) /\ m = Len(t)
  OBVIOUS
<1>2. PICK u : u = s \o t
  OBVIOUS
<1>3. /\ u \in Seq(Char) /\ Len(u) = n + m
      /\ (\A i \in 1..n : u[i] = s[i]) /\ (\A j \in 1..m : u[n + j] = t[j])
  BY <1>1, <1>2, JoinIs
<1>4. PICK a, b, w : a = ReadsAs(s, ctx) /\ b = ReadsAs(t, ctx) /\ w = ReadsAs(u, ctx)
  OBVIOUS
<1>5. DOMAIN s = 1..n /\ DOMAIN t = 1..m /\ DOMAIN u = 1..(n + m)
  BY <1>1, <1>3
<1>6. ASSUME NEW i \in 1..n PROVE TokenAt(u, i) <=> TokenAt(s, i)
  <2>1. TokenAt(u, i) => TokenAt(s, i)
    BY <1>2, <1>5 DEF Parted
  <2>2. ASSUME TokenAt(s, i) PROVE TokenAt(u, i)
    <3>1. i + 2 <= n /\ i + 1 \in 1..n /\ i + 2 \in 1..n
      BY <1>1, <2>2 DEF TokenAt
    <3>2. u[i] = s[i] /\ u[i + 1] = s[i + 1] /\ u[i + 2] = s[i + 2] /\ i + 2 <= n + m
      BY <1>3, <3>1
    <3>3. i + 2 <= Len(u) /\ i + 2 <= Len(s)
      BY <1>1, <1>3, <3>1, <3>2
    <3> QED
      BY <2>2, <3>2, <3>3, SameToken, Zenon
  <2> QED
    BY <2>1, <2>2
<1>7. ASSUME NEW j \in Int, j >= 1 PROVE TokenAt(u, n + j) <=> TokenAt(t, j)
  <2>1. (n + j) + 2 <= n + m <=> j + 2 <= m
    OBVIOUS
  <2>2. CASE j + 2 <= m
    <3>1. j \in 1..m /\ j + 1 \in 1..m /\ j + 2 \in 1..m
      BY <1>7, <2>2
    <3>2. (n + j) + 1 = n + (j + 1) /\ (n + j) + 2 = n + (j + 2)
      OBVIOUS
    <3>3. u[n + j] = t[j] /\ u[(n + j) + 1] = t[j + 1] /\ u[(n + j) + 2] = t[j + 2]
      <4>1. \A k \in 1..m : u[n + k] = t[k]
        BY <1>3
      <4>2. u[n + j] = t[j] /\ u[n + (j + 1)] = t[j + 1] /\ u[n + (j + 2)] = t[j + 2]
        BY <3>1, <4>1, Zenon
      <4> QED
        BY <3>2, <4>2, Zenon
    <3>4. (n + j) + 2 <= Len(u) /\ j + 2 <= Len(t)
      <4>1. Len(u) = n + m /\ Len(t) = m
        BY <1>1, <1>3
      <4>2. (n + j) + 2 <= n + m /\ j + 2 <= m
        BY <2>1, <2>2
      <4> QED
        BY <4>1, <4>2, Zenon
    <3> QED
      BY <3>3, <3>4, SameToken, Zenon
  <2>3. CASE ~(j + 2 <= m)
    BY <1>1, <1>3, <2>1, <2>3 DEF TokenAt
  <2> QED
    BY <2>2, <2>3
<1>8. (~TokenAt(u, n) /\ ~TokenAt(u, n - 1)) \/ n = 0 \/ (n = 1 /\ ~TokenAt(u, n))
  <2>1. ~TokenAt(s, n) /\ ~TokenAt(s, n - 1)
    BY <1>1 DEF TokenAt
  <2>2. CASE n > 1
    <3>1. n \in 1..n /\ n - 1 \in 1..n
      BY <2>2
    <3> QED
      BY <1>6, <2>1, <3>1
  <2>3. CASE n = 1
    BY <1>6, <2>1, <2>3
  <2> QED
    BY <2>2, <2>3
<1>9. ASSUME NEW i \in 1..n PROVE w[i] = a[i]
  <2>1. w[i] = ReadsAt(u, i, ctx) /\ a[i] = ReadsAt(s, i, ctx)
    BY <1>4, <1>5 DEF ReadsAs
  <2>2. InToken(u, i) <=> InToken(s, i)
    <3>1. (i > 1 => i - 1 \in 1..n) /\ (i > 2 => i - 2 \in 1..n)
      OBVIOUS
    <3> QED
      BY <1>6, <3>1 DEF InToken
  <2>3. TokenAt(s, i) => u[i + 1] = s[i + 1]
    <3>1. TokenAt(s, i) => i + 1 \in 1..n
      BY <1>1 DEF TokenAt
    <3> QED
      BY <1>3, <3>1
  <2>4. u[i] = s[i] /\ (TokenAt(u, i) <=> TokenAt(s, i))
    BY <1>3, <1>6
  <2> QED
    BY <2>1, <2>2, <2>3, <2>4, Zenon DEF ReadsAt
<1>10. ASSUME NEW j \in 1..m PROVE w[n + j] = b[j]
  <2>1. w[n + j] = ReadsAt(u, n + j, ctx) /\ b[j] = ReadsAt(t, j, ctx)
    BY <1>4, <1>5 DEF ReadsAs
  <2>2. InToken(u, n + j) <=> InToken(t, j)
    <3>1. CASE j > 2
      <4>1. (n + j) - 1 = n + (j - 1) /\ (n + j) - 2 = n + (j - 2) /\ j - 1 \in Int /\ j - 2 \in Int
            /\ j - 1 >= 1 /\ j - 2 >= 1 /\ n + j > 2 /\ j > 1 /\ n + j > 1
        BY <3>1
      <4> QED
        BY <1>7, <3>1, <4>1 DEF InToken
    <3>2. CASE j = 2
      <4>1. (n + j) - 1 = n + 1 /\ (n + j) - 2 = n /\ j - 1 = 1 /\ n + j > 1 /\ (n + j > 2 => n # 0)
        BY <3>2
      <4>2. TokenAt(u, n + 1) <=> TokenAt(t, 1)
        BY <1>7
      <4> QED
        BY <1>8, <3>2, <4>1, <4>2 DEF InToken
    <3>3. CASE j = 1
      <4>1. (n + j) - 1 = n /\ (n + j) - 2 = n - 1 /\ (n + j > 1 => n # 0) /\ (n + j > 2 => n # 0 /\ n # 1)
        BY <3>3
      <4> QED
        BY <1>8, <3>3, <4>1 DEF InToken
    <3> QED
      BY <3>1, <3>2, <3>3
  <2>3. TokenAt(t, j) => u[(n + j) + 1] = t[j + 1]
    <3>1. TokenAt(t, j) => j + 1 \in 1..m /\ (n + j) + 1 = n + (j + 1)
      BY <1>1 DEF TokenAt
    <3> QED
      BY <1>3, <3>1
  <2>4. u[n + j] = t[j] /\ (TokenAt(u, n + j) <=> TokenAt(t, j))
    <3>1. j \in Int /\ j >= 1
      OBVIOUS
    <3> QED
      BY <1>3, <1>7, <3>1
  <2> QED
    BY <2>1, <2>2, <2>3, <2>4, Zenon DEF ReadsAt
<1>11. /\ a \in Seq(Seq(Sign)) /\ Len(a) = n
       /\ b \in Seq(Seq(Sign)) /\ Len(b) = m
       /\ w \in Seq(Seq(Sign)) /\ Len(w) = n + m
  BY <1>1, <1>3, <1>4, ReadsType
<1>12. w = a \o b
  <2>1. /\ a \o b \in Seq(Seq(Sign)) /\ Len(a \o b) = n + m
        /\ \A i \in 1..(n + m) : (a \o b)[i] = IF i <= n THEN a[i] ELSE b[i - n]
    BY <1>11, ConcatProperties
  <2>2. ASSUME NEW i \in 1..(n + m) PROVE w[i] = (a \o b)[i]
    <3>1. CASE i <= n
      BY <1>9, <2>1, <3>1
    <3>2. CASE ~(i <= n)
      <4>1. i - n \in 1..m /\ n + (i - n) = i
        BY <3>2
      <4>2. w[n + (i - n)] = b[i - n]
        BY <1>10, <4>1
      <4> QED
        BY <2>1, <3>2, <4>1, <4>2
    <3> QED
      BY <3>1, <3>2
  <2> QED
    BY <1>11, <2>1, <2>2, SeqEqual
<1>13. FlattenSeq(a \o b) = FlattenSeq(a) \o FlattenSeq(b)
  BY <1>11, FlattenConcat
<1> QED
  BY <1>2, <1>4, <1>12, <1>13

\* A text in which no token of the grammar begins.
Tokenless(s) == \A i \in DOMAIN s : ~TokenAt(s, i)

\* Outside tool inputs, a text without tokens is read as it is.
LEMMA TokenlessReads ==
    ASSUME NEW s \in Seq(Char), Tokenless(s), NEW ctx
    PROVE  FlattenSeq(ReadsAs(s, ctx)) = s
<1>1. PICK n \in Nat : n = Len(s)
  OBVIOUS
<1>2. DOMAIN s = 1..n
  BY <1>1
<1>3. ASSUME NEW i \in 1..n PROVE ReadsAt(s, i, ctx) = <<s[i]>>
  <2>1. (i > 1 => i - 1 \in 1..n) /\ (i > 2 => i - 2 \in 1..n)
    OBVIOUS
  <2>2. ~TokenAt(s, i) /\ ~InToken(s, i)
    BY <1>2, <2>1 DEF Tokenless, InToken
  <2> QED
    BY <2>2 DEF ReadsAt
<1>4. ReadsAs(s, ctx) = [i \in DOMAIN s |-> <<s[i]>>]
  BY <1>2, <1>3 DEF ReadsAs
<1> QED
  BY <1>4, OneByOne

\* How assistant prose and other text read once restored.
LEMMA ProseReads ==
    ASSUME NEW s \in Seq(Char)
    PROVE  /\ Settled(UnmaskAssistant(s, TRUE, Look)) = FlattenSeq(ReadsAs(s, "display"))
           /\ Settled(UnmaskOther(s, Look)) = FlattenSeq(ReadsAs(s, "other"))
<1>1. PICK yes \in BOOLEAN, no \in BOOLEAN : yes = TRUE /\ no = FALSE
  OBVIOUS
<1>2. PICK shown, rest : shown = "display" /\ rest = "other"
  OBVIOUS
<1>3. shown # "tool" /\ rest # "tool"
  BY <1>2
<1>4. /\ Settled(UnmaskInner(s, shown, "raw", yes, Look)) = FlattenSeq(ReadsAs(s, shown))
      /\ Settled(UnmaskInner(s, rest, "raw", no, Look)) = FlattenSeq(ReadsAs(s, rest))
  BY <1>3, UnmaskReads
<1> QED
  BY <1>1, <1>2, <1>4 DEF UnmaskAssistant, UnmaskOther

\* What each kind of block makes of a text, as it reads.
LEMMA WholeIs ==
    ASSUME NEW s \in Seq(Char), NEW kind, kind # "json"
    PROVE  /\ kind = "text" => Whole(kind, s) = FlattenSeq(ReadsAs(s, "display"))
           /\ kind = "compaction" => Whole(kind, s) = FlattenSeq(ReadsAs(s, "other"))
           /\ kind \notin {"text", "compaction"} => Whole(kind, s) = s
<1>1. kind = "text" => Whole(kind, s) = Settled(UnmaskAssistant(s, TRUE, Look))
  BY DEF Whole, Emit
<1>2. kind = "compaction" => Whole(kind, s) = Settled(UnmaskOther(s, Look))
  BY DEF Whole, Emit
<1>3. kind \notin {"text", "compaction"} => Whole(kind, s) = Settled(s)
  BY DEF Whole, Emit
<1> QED
  BY <1>1, <1>2, <1>3, ProseReads, SettledChars

\* Parted texts are transformed one after the other.
LEMMA WholeConcat ==
    ASSUME NEW s \in Seq(Char), NEW t \in Seq(Char), NEW kind, kind # "json",
           kind \in {"text", "compaction"} => Parted(s, t)
    PROVE  Whole(kind, s \o t) = Whole(kind, s) \o Whole(kind, t)
<1>1. PICK u : u = s \o t
  OBVIOUS
<1>2. u \in Seq(Char)
  BY <1>1
<1>3. CASE kind = "text"
  <2>1. PICK ctx : ctx = "display"
    OBVIOUS
  <2>2. FlattenSeq(ReadsAs(s \o t, ctx)) = FlattenSeq(ReadsAs(s, ctx)) \o FlattenSeq(ReadsAs(t, ctx))
    BY <1>3, ReadsConcat
  <2>3. /\ Whole(kind, s) = FlattenSeq(ReadsAs(s, ctx)) /\ Whole(kind, t) = FlattenSeq(ReadsAs(t, ctx))
        /\ Whole(kind, u) = FlattenSeq(ReadsAs(u, ctx))
    BY <1>2, <1>3, <2>1, WholeIs
  <2> QED
    BY <1>1, <2>2, <2>3, Zenon
<1>4. CASE kind = "compaction"
  <2>1. PICK ctx : ctx = "other"
    OBVIOUS
  <2>2. FlattenSeq(ReadsAs(s \o t, ctx)) = FlattenSeq(ReadsAs(s, ctx)) \o FlattenSeq(ReadsAs(t, ctx))
    BY <1>4, ReadsConcat
  <2>3. /\ Whole(kind, s) = FlattenSeq(ReadsAs(s, ctx)) /\ Whole(kind, t) = FlattenSeq(ReadsAs(t, ctx))
        /\ Whole(kind, u) = FlattenSeq(ReadsAs(u, ctx))
    BY <1>2, <1>4, <2>1, WholeIs
  <2> QED
    BY <1>1, <2>2, <2>3, Zenon
<1>5. CASE kind \notin {"text", "compaction"}
  <2>1. Whole(kind, s) = s /\ Whole(kind, t) = t /\ Whole(kind, u) = u
    BY <1>2, <1>5, WholeIs
  <2> QED
    BY <1>1, <2>1, Zenon
<1> QED
  BY <1>3, <1>4, <1>5

\* A text without tokens goes out as it is, and so does a held tail without any.
LEMMA WholeTokenless ==
    ASSUME NEW s \in Seq(Char), Tokenless(s), NEW kind, kind # "json"
    PROVE  Whole(kind, s) = s
  BY WholeIs, TokenlessReads

LEMMA FlushTokenless ==
    ASSUME NEW s \in Seq(Char), Tokenless(s), NEW held, s # <<>> => held # "json"
    PROVE  Settled(Flush(s, held)) = s
<1>1. CASE s = <<>>
  <2>1. Flush(s, held) = <<>>
    BY <1>1, UnmaskEmpty DEF Flush, UnmaskToolInput, UnmaskOther, UnmaskAssistant
  <2> QED
    BY <1>1, <2>1, SettledChars
<1>2. CASE s # <<>>
  <2>1. Flush(s, held) = UnmaskOther(s, Look) \/ Flush(s, held) = UnmaskAssistant(s, TRUE, Look)
    BY <1>2 DEF Flush
  <2>4. /\ Settled(UnmaskAssistant(s, TRUE, Look)) = FlattenSeq(ReadsAs(s, "display"))
        /\ Settled(UnmaskOther(s, Look)) = FlattenSeq(ReadsAs(s, "other"))
    BY ProseReads
  <2>5. \A ctx : FlattenSeq(ReadsAs(s, ctx)) = s
    BY TokenlessReads
  <2>6. PICK u, v, w : u = Flush(s, held) /\ v = UnmaskAssistant(s, TRUE, Look) /\ w = UnmaskOther(s, Look)
    OBVIOUS
  <2>7. Settled(v) = s /\ Settled(w) = s
    BY <2>4, <2>5, <2>6
  <2>8. u = v \/ u = w
    BY <2>1, <2>6
  <2> QED
    BY <2>6, <2>7, <2>8
<1> QED
  BY <1>1, <1>2

\* What a relay holds of prose: nothing, or an open bracket that may still become a token.
HeldTail(c) == c = <<>> \/ (c[1] = LB /\ Tokenless(c))

\* What classify calls partial begins no token.
LEMMA PartialIs ==
    ASSUME NEW s \in Seq(Char), s # <<>>, s[1] = LB, Classify(s) = "partial"
    PROVE  HeldTail(s)
<1>1. ~TokenAt(s, 1)
  BY DEF Classify
<1>2. ~(\E j \in 2..Len(s) : s[j] \notin Handle \cup {LitEnd})
  BY <1>1 DEF Classify
<1>3. ASSUME NEW i \in DOMAIN s PROVE ~TokenAt(s, i)
  <2>1. CASE i = 1
    BY <1>1, <2>1
  <2>2. CASE i # 1
    <3>1. i \in 2..Len(s)
      BY <2>2
    <3>2. s[i] # LB
      BY <1>2, <3>1, CharsDiffer
    <3> QED
      BY <3>2 DEF TokenAt
  <2> QED
    BY <2>1, <2>2
<1> QED
  BY <1>3 DEF HeldTail, Tokenless

\* Where the last bracket of a buffer may still become a token, the buffer is cut there.
LEMMA SplitsAt ==
    ASSUME NEW buf \in Seq(Char), NEW n \in Nat, n = Len(buf), NEW k \in 1..n, buf[k] = LB,
           \A j \in (k + 1)..n : buf[j] # LB, Classify(From(buf, k)) = "partial"
    PROVE  SplitAt(buf) = k
<1> DEFINE brackets == {i \in DOMAIN buf : buf[i] = LB}
           last == CHOOSE i \in brackets : \A j \in brackets : j <= i
<1>1. SplitAt(buf) = IF brackets # {} /\ Classify(From(buf, last)) = "partial" THEN last ELSE Len(buf) + 1
  BY DEF SplitAt
<1>2. \A i : i \in brackets <=> i \in 1..n /\ buf[i] = LB
  OBVIOUS
<1>3. last = CHOOSE i \in brackets : \A j \in brackets : j <= i
  OBVIOUS
<1> HIDE DEF brackets, last
<1>4. k \in brackets /\ \A j \in brackets : j <= k
  <2>1. k \in brackets
    BY <1>2
  <2>2. ASSUME NEW j \in brackets PROVE j <= k
    <3>1. j \in 1..n /\ buf[j] = LB
      BY <1>2
    <3>2. j \notin (k + 1)..n
      BY <3>1
    <3> QED
      BY <3>1, <3>2
  <2> QED
    BY <2>1, <2>2
<1>5. last \in brackets /\ \A j \in brackets : j <= last
  BY <1>3, <1>4
<1>6. last = k
  <2>1. last <= k /\ k <= last /\ last \in 1..n
    BY <1>2, <1>4, <1>5
  <2> QED
    BY <2>1
<1> QED
  BY <1>1, <1>4, <1>6

\* What is held of a buffer is a held tail, and a buffer sent whole ends clean.
LEMMA SplitClean ==
    ASSUME NEW buf \in Seq(Char), NEW cut, cut = SplitAt(buf), NEW rest, rest = From(buf, cut)
    PROVE  HeldTail(rest) /\ (rest = <<>> => EndsClean(buf))
<1>1. PICK n \in Nat : n = Len(buf)
  OBVIOUS
<1>2. cut \in 1..(n + 1) /\ (cut <= n => Classify(rest) = "partial")
  BY <1>1, SplitIs
<1>3. /\ rest \in Seq(Char) /\ Len(rest) = n - cut + 1
      /\ \A k \in 1..(n - cut + 1) : rest[k] = buf[cut + k - 1]
  <2>1. cut \in 1..(Len(buf) + 1)
    BY <1>1, <1>2
  <2>2. /\ From(buf, cut) \in Seq(Char) /\ Len(From(buf, cut)) = Len(buf) - cut + 1
        /\ \A k \in 1..(Len(buf) - cut + 1) : From(buf, cut)[k] = buf[cut + k - 1]
    BY <2>1, CutIs
  <2> QED
    BY <1>1, <2>2, Zenon
<1>4. HeldTail(rest)
  <2>1. CASE cut = n + 1
    <3>1. Len(rest) = 0
      BY <1>2, <1>3, <2>1
    <3> QED
      BY <1>3, <3>1 DEF HeldTail
  <2>2. CASE cut # n + 1
    <3>1. cut <= n /\ cut \in 1..n /\ n - cut + 1 >= 1 /\ cut + 1 - 1 = cut /\ 1 \in 1..(n - cut + 1)
      BY <1>2, <2>2
    <3>2. rest # <<>>
      BY <1>3, <3>1
    <3>3. rest[1] = buf[cut]
      BY <1>3, <3>1
    <3>4. buf[cut] = LB
      <4> DEFINE brackets == {i \in DOMAIN buf : buf[i] = LB}
                 last == CHOOSE i \in brackets : \A j \in brackets : j <= i
      <4>1. cut = IF brackets # {} /\ Classify(From(buf, last)) = "partial" THEN last ELSE n + 1
        BY <1>1 DEF SplitAt
      <4>2. \A i : i \in brackets <=> i \in 1..n /\ buf[i] = LB
        BY <1>1
      <4>3. last = CHOOSE i \in brackets : \A j \in brackets : j <= i
        OBVIOUS
      <4> HIDE DEF brackets, last
      <4>4. cut = last /\ brackets # {}
        BY <2>2, <4>1
      <4>5. \E m \in brackets : \A j \in brackets : j <= m
        <5>1. brackets \subseteq 1..n
          BY <4>2
        <5> QED
          BY <4>4, <5>1, LargestOf
      <4>6. last \in brackets
        BY <4>3, <4>5
      <4> QED
        BY <4>2, <4>4, <4>6
    <3> QED
      BY <1>2, <1>3, <3>1, <3>2, <3>3, <3>4, PartialIs
  <2> QED
    BY <2>1, <2>2
<1>5. MaxTokenLen \in Nat /\ MaxTokenLen >= 3
  BY StreamAssumption
<1>6. ASSUME rest = <<>> PROVE EndsClean(buf)
  <2>1. cut = n + 1
    <3>1. Len(rest) = 0
      BY <1>6
    <3>2. n - cut + 1 = 0
      BY <1>3, <3>1, Zenon
    <3> QED
      BY <1>2, <3>2
  <2>2. ~(n > 0 /\ buf[n] = LB)
    <3> SUFFICES ASSUME n > 0, buf[n] = LB PROVE FALSE
      OBVIOUS
    <3>1. n \in 1..n /\ n \in 1..(n + 1) /\ n - n + 1 = 1
      OBVIOUS
    <3>2. PICK tail : tail = From(buf, n)
      OBVIOUS
    <3>3. Len(tail) = 1
      BY <1>1, <3>1, <3>2, CutIs
    <3>4. ~TokenAt(tail, 1)
      BY <3>3 DEF TokenAt
    <3>5. ~(Len(tail) > MaxTokenLen) /\ ~(\E j \in 2..Len(tail) : tail[j] \notin Handle \cup {LitEnd})
      BY <1>5, <3>3
    <3>6. Classify(tail) = "partial"
      BY <3>4, <3>5 DEF Classify
    <3>7. \A j \in (n + 1)..n : buf[j] # LB
      OBVIOUS
    <3>8. cut = n
      BY <1>1, <3>1, <3>2, <3>6, <3>7, SplitsAt
    <3> QED
      BY <2>1, <3>8
  <2>3. ~(n > 1 /\ buf[n - 1] = LB /\ buf[n] \in Handle)
    <3> SUFFICES ASSUME n > 1, buf[n - 1] = LB, buf[n] \in Handle PROVE FALSE
      OBVIOUS
    <3>1. PICK k \in 1..n : k = n - 1
      OBVIOUS
    <3>2. k \in 1..(n + 1) /\ n - k + 1 = 2 /\ k + 2 - 1 = n /\ k # n + 1 /\ buf[k] = LB /\ 2 \in 1..2
      BY <3>1
    <3>3. PICK tail : tail = From(buf, k)
      OBVIOUS
    <3>4. Len(tail) = 2 /\ \A j \in 1..2 : tail[j] = buf[k + j - 1]
      <4>1. k \in 1..(Len(buf) + 1) /\ Len(buf) - k + 1 = 2
        BY <1>1, <3>2
      <4>2. Len(From(buf, k)) = Len(buf) - k + 1
        BY <4>1, CutIs
      <4>3. \A j \in 1..(Len(buf) - k + 1) : From(buf, k)[j] = buf[k + j - 1]
        BY <4>1, CutIs
      <4> QED
        BY <3>3, <4>1, <4>2, <4>3, Zenon
    <3>5. ~TokenAt(tail, 1)
      BY <3>4 DEF TokenAt
    <3>6. tail[2] \in Handle
      BY <3>2, <3>4
    <3>7. ~(Len(tail) > MaxTokenLen) /\ ~(\E j \in 2..Len(tail) : tail[j] \notin Handle \cup {LitEnd})
      <4>1. ~(Len(tail) > MaxTokenLen)
        BY <1>5, <3>4
      <4>2. \A j \in 2..Len(tail) : j = 2
        BY <3>4
      <4> QED
        BY <3>6, <4>1, <4>2
    <3>8. Classify(tail) = "partial"
      BY <3>5, <3>7 DEF Classify
    <3>9. \A j \in (k + 1)..n : buf[j] # LB
      <4>1. \A j \in (k + 1)..n : j = n
        BY <3>1
      <4>2. buf[n] # LB
        BY CharsDiffer
      <4> QED
        BY <4>1, <4>2
    <3>10. cut = k
      BY <1>1, <3>2, <3>3, <3>8, <3>9, SplitsAt
    <3> QED
      BY <2>1, <3>2, <3>10
  <2> QED
    BY <1>1, <2>2, <2>3 DEF EndsClean
<1> QED
  BY <1>4, <1>6

\* A text that ends clean does so after one that does, or when it begins with a bracket.
LEMMA CleanJoin ==
    ASSUME NEW b \in Seq(Char), NEW buf \in Seq(Char), EndsClean(buf), buf # <<>>,
           EndsClean(b) \/ buf[1] = LB
    PROVE  EndsClean(b \o buf)
<1>1. PICK k \in Nat, n \in Nat : k = Len(b) /\ n = Len(buf)
  OBVIOUS
<1>2. PICK u : u = b \o buf
  OBVIOUS
<1>3. Len(u) = k + n /\ (\A i \in 1..k : u[i] = b[i]) /\ (\A j \in 1..n : u[k + j] = buf[j])
  BY <1>1, <1>2, JoinIs
<1>4. n > 0 /\ n \in 1..n
  BY <1>1
<1>5. u[k + n] = buf[n] /\ buf[n] # LB
  BY <1>1, <1>3, <1>4 DEF EndsClean
<1>6. ~(k + n > 1 /\ u[k + n - 1] = LB /\ u[k + n] \in Handle)
  <2>1. CASE n > 1
    <3>1. n - 1 \in 1..n /\ k + n - 1 = k + (n - 1)
      BY <2>1
    <3>2. u[k + n - 1] = buf[n - 1]
      BY <1>3, <3>1
    <3> QED
      BY <1>1, <1>5, <2>1, <3>2 DEF EndsClean
  <2>2. CASE n = 1
    <3> SUFFICES ASSUME k + n > 1, u[k + n - 1] = LB, u[k + n] \in Handle PROVE FALSE
      OBVIOUS
    <3>1. k \in 1..k /\ k + n - 1 = k /\ k > 0
      BY <2>2
    <3>2. b[k] = LB
      BY <1>3, <3>1
    <3>3. ~EndsClean(b)
      BY <1>1, <3>1, <3>2 DEF EndsClean
    <3>4. buf[1] # LB
      BY <1>5, <2>2, CharsDiffer
    <3> QED
      BY <3>3, <3>4
  <2> QED
    BY <1>4, <2>1, <2>2
<1> QED
  BY <1>2, <1>3, <1>5, <1>6 DEF EndsClean

-----------------------------------------------------------------------------
(* One block, as it reads.                                                 *)

\* What was forwarded of a block reads as its transformed text.
Reads(kind, c, o) ==
    /\ Settled(o) = Whole(kind, Back(o))
    /\ kind \in {"text", "compaction"} => HeldTail(c)

\* A block of prose that holds nothing is not cut at its end, unless it is over.
CutClean(text, kind, g, c) ==
    kind \in {"text", "compaction"} /\ c = <<>> => EndsClean(g) \/ g = text

\* What was forwarded and what is held read as the text received.
LEMMA ReadsWhole ==
    ASSUME NEW text, NEW kind, NEW g, NEW c, NEW held, NEW o,
           kind # "json", Relayed(text, kind, g, c, held, o), Reads(kind, c, o)
    PROVE  /\ Whole(kind, g) = Settled(o) \o c /\ Settled(o) \in Seq(Sign) /\ c \in Seq(Sign)
           /\ Tokenless(c)
<1>1. g \in Seq(Char) /\ c \in Seq(Char) /\ o \in Seq(Item) /\ Back(o) \o c = g
  BY DEF Relayed
<1>2. c # <<>> => kind \in Kind \ {"thinking"}
  BY DEF Relayed
<1>3. PICK b : b = Back(o)
  OBVIOUS
<1>4. b \in Seq(Char)
  BY <1>1, <1>3, BackIs
<1>5. kind \notin {"text", "compaction"} => c = <<>>
  BY <1>2 DEF Kind
<1>6. HeldTail(c)
  BY <1>5 DEF Reads, HeldTail
<1>7. Tokenless(c)
  BY <1>6 DEF HeldTail, Tokenless
<1>8. c = <<>> \/ c[1] = LB
  BY <1>6 DEF HeldTail
<1>9. Parted(b, c)
  BY <1>1, <1>4, <1>8, PartedIs
<1>10. Whole(kind, b \o c) = Whole(kind, b) \o Whole(kind, c)
  BY <1>1, <1>4, <1>9, WholeConcat
<1>11. Whole(kind, c) = c
  BY <1>1, <1>7, WholeTokenless
<1>12. Whole(kind, b) = Settled(o)
  BY <1>3 DEF Reads
<1>13. Settled(o) \in Seq(Sign)
  BY <1>1, SettledIs
<1>14. c \in Seq(Sign)
  BY <1>1, SeqMonotonic DEF Sign
<1> QED
  BY <1>1, <1>3, <1>7, <1>10, <1>11, <1>12, <1>13, <1>14, Zenon

\* A prefix that is the whole text leaves nothing more to come.
LEMMA NoMore ==
    ASSUME NEW g \in Seq(Char), NEW more \in Seq(Char), IsPrefix(g \o more, g)
    PROVE  more = <<>>
<1>1. PICK u : u = g \o more
  OBVIOUS
<1>2. Len(u) = Len(g) + Len(more)
  BY <1>1, ConcatProperties
<1>3. Len(u) <= Len(g)
  BY <1>1 DEF IsPrefix
<1>4. Len(g) \in Nat /\ Len(more) \in Nat
  OBVIOUS
<1>5. Len(more) = 0
  BY <1>2, <1>3, <1>4
<1> QED
  BY <1>5

\* A frame of prose: what is forwarded reads as its part of the whole.
LEMMA ReadsFrame ==
    ASSUME NEW text \in Seq(Char), NEW kind \in {"text", "compaction"}, NEW g, NEW c, NEW held, NEW o,
           NEW more \in Seq(Char), NEW buf, NEW cut, NEW t,
           Relayed(text, kind, g, c, held, o), Reads(kind, c, o), CutClean(text, kind, g, c),
           IsPrefix(g \o more, text), buf = c \o more, cut = SplitAt(buf),
           t = Emit(SubSeq(buf, 1, cut - 1), kind)
    PROVE  /\ t \in Seq(Item) /\ Reads(kind, From(buf, cut), o \o t)
           /\ CutClean(text, kind, g \o more, From(buf, cut))
<1>1. g \in Seq(Char) /\ c \in Seq(Char) /\ o \in Seq(Item)
  BY DEF Relayed
<1>2. Back(o) \o c = g
  BY DEF Relayed
<1>3. buf \in Seq(Char)
  BY <1>1
<1>4. PICK safe, rest : safe = SubSeq(buf, 1, cut - 1) /\ rest = From(buf, cut)
  OBVIOUS
<1>5. cut \in 1..(Len(buf) + 1)
  BY <1>3, SplitIs
<1>6. safe \in Seq(Char) /\ rest \in Seq(Char) /\ safe \o rest = buf
  <2>1. /\ SubSeq(buf, 1, cut - 1) \in Seq(Char) /\ From(buf, cut) \in Seq(Char)
        /\ SubSeq(buf, 1, cut - 1) \o From(buf, cut) = buf
    BY <1>3, <1>5, CutIs
  <2> QED
    BY <1>4, <2>1, Zenon
<1>7. HeldTail(rest) /\ (rest = <<>> => EndsClean(buf))
  BY <1>3, <1>4, SplitClean
<1>8. kind \in Kind /\ kind # "json" /\ t = Emit(safe, kind)
  BY <1>4 DEF Kind
<1>9. Restores(kind, safe, t)
  BY <1>6, <1>8, EmitRestores
<1>10. t \in Seq(Item) /\ Back(t) = safe
  BY <1>9 DEF Restores
<1>11. PICK b : b = Back(o)
  OBVIOUS
<1>12. b \in Seq(Char)
  BY <1>1, <1>11, BackIs
<1>13. Back(o \o t) = b \o safe /\ Settled(o \o t) = Settled(o) \o Settled(t)
  BY <1>1, <1>10, <1>11, BackConcat, SettledConcat
<1>14. Settled(o) = Whole(kind, b) /\ Settled(t) = Whole(kind, safe)
  BY <1>8, <1>11 DEF Reads, Whole
<1>15. HeldTail(c) /\ (c = <<>> => EndsClean(g) \/ g = text)
  BY DEF Reads, CutClean
<1>16. ASSUME c = <<>>, g = text PROVE more = <<>>
  BY <1>1, <1>16, NoMore
<1>17. c = <<>> => b = g
  BY <1>2, <1>11, <1>12, EmptyRight
<1>18. buf # <<>> => EndsClean(b) \/ buf[1] = LB
  <2>1. CASE c = <<>>
    <3>1. g = text => more = <<>>
      BY <1>16, <2>1
    <3>2. buf = more
      BY <2>1
    <3> QED
      BY <1>15, <1>17, <2>1, <3>1, <3>2
  <2>2. CASE c # <<>>
    <3>1. c[1] = LB
      BY <1>15, <2>2 DEF HeldTail
    <3>2. PICK n \in Nat, m \in Nat : n = Len(c) /\ m = Len(more)
      BY <1>1
    <3>3. 1 \in 1..n
      BY <1>1, <2>2, <3>2
    <3>4. buf[1] = c[1]
      BY <1>1, <3>2, <3>3, JoinIs
    <3> QED
      BY <3>1, <3>4
  <2> QED
    BY <2>1, <2>2
<1>19. safe # <<>> => buf # <<>> /\ safe[1] = buf[1]
  <2> SUFFICES ASSUME safe # <<>> PROVE buf # <<>> /\ safe[1] = buf[1]
    OBVIOUS
  <2>1. PICK n \in Nat, m \in Nat : n = Len(safe) /\ m = Len(rest)
    BY <1>6
  <2>2. 1 \in 1..n
    BY <1>6, <2>1
  <2>3. buf[1] = safe[1] /\ Len(buf) = n + m
    BY <1>6, <2>1, <2>2, JoinIs
  <2>4. Len(buf) # 0
    BY <2>2, <2>3
  <2>5. buf # <<>>
    BY <2>4
  <2> QED
    BY <2>3, <2>5
<1>20. Parted(b, safe)
  <2>1. safe = <<>> \/ safe[1] = LB \/ EndsClean(b)
    BY <1>18, <1>19
  <2> QED
    BY <1>6, <1>12, <2>1, PartedIs
<1>21. Whole(kind, b \o safe) = Whole(kind, b) \o Whole(kind, safe)
  BY <1>6, <1>8, <1>12, <1>20, WholeConcat
<1>22. Settled(o \o t) = Whole(kind, Back(o \o t))
  BY <1>13, <1>14, <1>21
<1>23. g \o more = b \o buf
  <2>1. (b \o c) \o more = b \o (c \o more)
    BY <1>1, <1>12, ConcatThree
  <2> QED
    BY <1>2, <1>11, <2>1, Zenon
<1>24. rest = <<>> => EndsClean(g \o more) \/ g \o more = text
  <2> SUFFICES ASSUME rest = <<>> PROVE EndsClean(g \o more) \/ g \o more = text
    OBVIOUS
  <2>1. CASE buf # <<>>
    <3>1. EndsClean(b \o buf)
      BY <1>3, <1>7, <1>12, <1>18, <2>1, CleanJoin
    <3> QED
      BY <1>23, <3>1
  <2>2. CASE buf = <<>>
    <3>1. c = <<>> /\ more = <<>>
      <4>1. PICK n \in Nat, m \in Nat : n = Len(c) /\ m = Len(more)
        BY <1>1
      <4>2. Len(buf) = n + m
        BY <1>1, <4>1, JoinIs
      <4>3. n = 0 /\ m = 0
        BY <2>2, <4>2
      <4>4. \A x \in Seq(Char) : Len(x) = 0 => x = <<>>
        OBVIOUS
      <4> QED
        BY <1>1, <4>1, <4>3, <4>4, Zenon
    <3>2. g \o more = g
      BY <1>1, <3>1, EmptyRight
    <3> QED
      BY <1>15, <3>1, <3>2
  <2> QED
    BY <2>1, <2>2
<1>25. Reads(kind, rest, o \o t) /\ CutClean(text, kind, g \o more, rest)
  BY <1>7, <1>22, <1>24 DEF Reads, CutClean
<1> QED
  BY <1>4, <1>10, <1>25

\* A delta of thinking is forwarded as it is.
LEMMA ReadsThinking ==
    ASSUME NEW text, NEW kind, NEW g, NEW c, NEW held, NEW o, NEW more \in Seq(Char),
           kind = "thinking", Relayed(text, kind, g, c, held, o), Reads(kind, c, o)
    PROVE  more \in Seq(Item) /\ Reads(kind, c, o \o more) /\ CutClean(text, kind, g \o more, c)
<1>1. o \in Seq(Item) /\ more \in Seq(Item)
  BY CharsAreItems DEF Relayed
<1>2. PICK b : b = Back(o)
  OBVIOUS
<1>3. b \in Seq(Char)
  BY <1>1, <1>2, BackIs
<1>4. Back(o \o more) = b \o more /\ Settled(o \o more) = Settled(o) \o more
  <2>1. Back(o \o more) = Back(o) \o Back(more) /\ Settled(o \o more) = Settled(o) \o Settled(more)
    BY <1>1, BackConcat, SettledConcat
  <2>2. Back(more) = more /\ Settled(more) = more
    BY BackChars, SettledChars
  <2> QED
    BY <1>2, <2>1, <2>2, Zenon
<1>5. kind # "json" /\ kind \notin {"text", "compaction"}
  OBVIOUS
<1>6. Whole(kind, b \o more) = Whole(kind, b) \o Whole(kind, more) /\ Whole(kind, more) = more
  <2>1. kind \in {"text", "compaction"} => Parted(b, more)
    BY <1>5
  <2>2. Whole(kind, b \o more) = Whole(kind, b) \o Whole(kind, more)
    BY <1>3, <1>5, <2>1, WholeConcat, Zenon
  <2>3. Whole(kind, more) = more
    BY <1>5, WholeIs
  <2> QED
    BY <2>2, <2>3
<1>7. Settled(o) = Whole(kind, b)
  BY <1>2 DEF Reads
<1>8. Settled(o \o more) = Whole(kind, Back(o \o more))
  BY <1>4, <1>6, <1>7
<1> QED
  BY <1>1, <1>5, <1>8 DEF Reads, CutClean

\* Once what is held went out, all that was received has.
LEMMA ReadsFlush ==
    ASSUME NEW text, NEW kind, NEW g, NEW c, NEW held, NEW o, NEW t,
           kind # "json", Relayed(text, kind, g, c, held, o), Reads(kind, c, o),
           wire # "anthropic" => kind # "compaction", t = Flush(c, held)
    PROVE  /\ t \in Seq(Item) /\ Reads(kind, <<>>, o \o t)
           /\ c = <<>> => o \o t = o
<1>1. g \in Seq(Char) /\ c \in Seq(Char) /\ o \in Seq(Item) /\ Back(o) \o c = g
  BY DEF Relayed
<1>2. c # <<>> => held = kind /\ kind \in Kind \ {"thinking"}
  BY DEF Relayed
<1>3. Restores(kind, c, t)
  BY <1>1, <1>2, FlushRestores
<1>4. t \in Seq(Item) /\ Back(t) = c
  BY <1>3 DEF Restores
<1>5. Whole(kind, g) = Settled(o) \o c /\ Tokenless(c)
  <2>1. kind # "json" /\ Relayed(text, kind, g, c, held, o) /\ Reads(kind, c, o)
    OBVIOUS
  <2> QED
    BY <2>1, ReadsWhole
<1>6. c # <<>> => held # "json"
  BY <1>2
<1>7. Settled(t) = c
  BY <1>1, <1>5, <1>6, FlushTokenless
<1>8. Back(o \o t) = g /\ Settled(o \o t) = Whole(kind, g)
  <2>1. Back(o \o t) = Back(o) \o Back(t) /\ Settled(o \o t) = Settled(o) \o Settled(t)
    BY <1>1, <1>4, BackConcat, SettledConcat
  <2> QED
    BY <1>1, <1>4, <1>5, <1>7, <2>1, Zenon
<1>9. HeldTail(<<>>)
  BY DEF HeldTail
<1>10. Reads(kind, <<>>, o \o t)
  BY <1>8, <1>9 DEF Reads
<1>11. c = <<>> => o \o t = o
  <2>1. c = <<>> => t = <<>>
    BY UnmaskEmpty DEF Flush, UnmaskToolInput, UnmaskOther, UnmaskAssistant
  <2> QED
    BY <1>1, <2>1, EmptyRight
<1> QED
  BY <1>4, <1>10, <1>11

-----------------------------------------------------------------------------
(* The stream, as it reads.                                                *)

\* The blocks that ended in order, as the abstract relay is told.
Ended == IF guard = "completed" THEN Index ELSE stopped

ReadsOK(i) ==
    /\ Reads(script[i].kind, carry[i], out[i])
    /\ \/ i \in stopped \/ guard # "armed"
       \/ CutClean(script[i].text, script[i].kind, got[i], carry[i])

(***************************************************************************)
(* The inductive invariant of the refinement: every block of prose reads   *)
(* as its whole text so far, and one that ended holds nothing.             *)
(***************************************************************************)
RelayInv ==
    /\ StreamInv
    /\ \A i \in Prose : ReadsOK(i) /\ (i \in Ended => carry[i] = <<>>)

\* What a step does to a block of prose: it forwards more, or the block had ended.
Forwards(i) ==
    /\ ReadsOK(i)'
    /\ \E t \in Seq(Item) : out'[i] = out[i] \o t
    /\ i \in Ended => got'[i] = got[i] /\ out'[i] = out[i]
    /\ i \in Ended' => carry'[i] = <<>>

\* What a step of the relays does.
Forwarding ==
    /\ wire' = wire /\ script' = script /\ Ended \subseteq Ended'
    /\ \A i \in Prose : Forwards(i)

\* A block of prose, by the invariant.
LEMMA ProseIs ==
    ASSUME RelayInv, NEW i \in Prose
    PROVE  /\ i \in Index /\ script[i].kind # "json" /\ wire # "chat_early"
           /\ Relayed(script[i].text, script[i].kind, got[i], carry[i], heldKind[i], out[i])
           /\ ReadsOK(i) /\ (i \in Ended => carry[i] = <<>>)
           /\ out[i] \in Seq(Item)
<1>1. i \in Index /\ script[i].kind # "json" /\ wire # "chat_early"
  BY DEF Prose
<1>2. BlockOK(i)
  BY <1>1 DEF RelayInv, StreamInv
<1>3. Relayed(script[i].text, script[i].kind, got[i], carry[i], heldKind[i], out[i])
  BY <1>2 DEF BlockOK
<1>4. out[i] \in Seq(Item)
  BY <1>3 DEF Relayed
<1> QED
  BY <1>1, <1>3, <1>4 DEF RelayInv

\* A block that a step leaves alone.
LEMMA StillForwards ==
    ASSUME RelayInv, NEW i \in Prose, got'[i] = got[i], carry'[i] = carry[i], out'[i] = out[i],
           script' = script, stopped \subseteq stopped', guard # "armed" => guard' # "armed",
           i \in Ended' => carry[i] = <<>>
    PROVE  Forwards(i)
<1>1. PICK text, kind, g, c, o : /\ text = script[i].text /\ kind = script[i].kind
                                 /\ g = got[i] /\ c = carry[i] /\ o = out[i]
  OBVIOUS
<1>2. Reads(kind, c, o) /\ (i \in stopped \/ guard # "armed" \/ CutClean(text, kind, g, c))
  BY <1>1, ProseIs DEF ReadsOK
<1>3. Reads(kind, c, o) /\ (i \in stopped' \/ guard' # "armed" \/ CutClean(text, kind, g, c))
  BY <1>2
<1>4. /\ script'[i].text = text /\ script'[i].kind = kind
      /\ got'[i] = g /\ carry'[i] = c /\ out'[i] = o
  BY <1>1
<1>5. ReadsOK(i)'
  BY <1>3, <1>4 DEF ReadsOK
<1>6. o \in Seq(Item)
  BY <1>1, ProseIs
<1>7. o \o <<>> = o /\ <<>> \in Seq(Item)
  BY <1>6, EmptyRight
<1>8. \E t \in Seq(Item) : out'[i] = out[i] \o t
  BY <1>1, <1>7
<1> QED
  BY <1>5, <1>8 DEF Forwards

\* A block whose held tail goes out.
LEMMA FlushForwards ==
    ASSUME RelayInv, NEW i \in Prose, got'[i] = got[i], carry'[i] = <<>>,
           out'[i] = out[i] \o Flush(carry[i], heldKind[i]), script' = script,
           got[i] = script[i].text \/ i \in stopped' \/ guard' # "armed"
    PROVE  Forwards(i)
<1>1. PICK text, kind, g, c, held, o, t :
         /\ text = script[i].text /\ kind = script[i].kind /\ g = got[i] /\ c = carry[i]
         /\ held = heldKind[i] /\ o = out[i] /\ t = Flush(c, held)
  OBVIOUS
<1>2. kind # "json" /\ Relayed(text, kind, g, c, held, o)
  BY <1>1, ProseIs
<1>3. Reads(kind, c, o)
  BY <1>1, ProseIs DEF ReadsOK
<1>4. wire # "anthropic" => kind # "compaction"
  BY <1>1, ProseIs, NoCompaction DEF RelayInv
<1>5. i \in stopped' \/ guard' # "armed" \/ CutClean(text, kind, g, <<>>)
  BY <1>1 DEF CutClean
<1>6. t \in Seq(Item) /\ Reads(kind, <<>>, o \o t) /\ (c = <<>> => o \o t = o)
  <2>1. t = Flush(c, held)
    BY <1>1
  <2> QED
    BY <1>2, <1>3, <1>4, <2>1, ReadsFlush
<1>12. /\ script'[i].text = text /\ script'[i].kind = kind
       /\ got'[i] = g /\ carry'[i] = <<>> /\ out'[i] = o \o t
  BY <1>1
<1>7. ReadsOK(i)'
  BY <1>5, <1>6, <1>12 DEF ReadsOK
<1>8. i \in Ended => out'[i] = out[i]
  BY <1>1, <1>6, ProseIs
<1> QED
  BY <1>1, <1>6, <1>7, <1>8 DEF Forwards

\* A prefix as long as the text is the text.
LEMMA PrefixFull ==
    ASSUME NEW text \in Seq(Char), NEW g \in Seq(Char), IsPrefix(g, text), Len(g) = Len(text)
    PROVE  g = text
<1>1. SubSeq(g, 1, Len(g)) = SubSeq(text, 1, Len(text))
  BY DEF IsPrefix
<1>2. SubSeq(g, 1, Len(g)) = g /\ SubSeq(text, 1, Len(text)) = text
  OBVIOUS
<1> QED
  BY <1>1, <1>2, Zenon

\* The next n characters of a block of prose, cut where safe_split says.
LEMMA NextReads ==
    ASSUME RelayInv, NEW i \in Prose, NEW n \in Nat, Len(got[i]) + n <= Len(script[i].text),
           script[i].kind \in {"text", "compaction"}, i \notin stopped, guard = "armed",
           NEW buf, buf = Buffer(i, n), NEW cut, cut = SplitAt(buf),
           NEW t, t = Emit(SubSeq(buf, 1, cut - 1), script[i].kind)
    PROVE  /\ t \in Seq(Item) /\ Reads(script[i].kind, From(buf, cut), out[i] \o t)
           /\ CutClean(script[i].text, script[i].kind, got[i] \o More(i, n), From(buf, cut))
           /\ Relayed(script[i].text, script[i].kind, got[i] \o More(i, n), From(buf, cut),
                      script[i].kind, out[i] \o t)
           /\ Len(got[i] \o More(i, n)) = Len(got[i]) + n
<1>1. PICK text, kind, g, c, held, o, more :
         /\ text = script[i].text /\ kind = script[i].kind /\ g = got[i] /\ c = carry[i]
         /\ held = heldKind[i] /\ o = out[i] /\ more = More(i, n)
  OBVIOUS
<1>2. Relayed(text, kind, g, c, held, o) /\ i \in Index
  BY <1>1, ProseIs
<1>3. Reads(kind, c, o) /\ CutClean(text, kind, g, c)
  BY <1>1, ProseIs DEF ReadsOK
<1>4. text \in Seq(Char) /\ kind \in {"text", "compaction"}
  BY <1>1, <1>2, ScriptIs DEF RelayInv
<1>5. g \in Seq(Char) /\ IsPrefix(g, text)
  BY <1>2 DEF Relayed
<1>6. more = SubSeq(text, Len(g) + 1, Len(g) + n) /\ Len(g) + n <= Len(text)
  BY <1>1 DEF More
<1>7. more \in Seq(Char) /\ IsPrefix(g \o more, text) /\ Len(g \o more) = Len(g) + n
  BY <1>4, <1>5, <1>6, PrefixMore
<1>8. buf = c \o more
  BY <1>1 DEF Buffer
<1>9. t = Emit(SubSeq(buf, 1, cut - 1), kind)
  BY <1>1
<1>10. /\ t \in Seq(Item) /\ Reads(kind, From(buf, cut), o \o t)
       /\ CutClean(text, kind, g \o more, From(buf, cut))
  BY <1>2, <1>3, <1>4, <1>7, <1>8, <1>9, ReadsFrame
<1>11. buf \in Seq(Char)
  BY <1>2, BufferIs DEF RelayInv
<1>12. cut \in 1..(Len(buf) + 1) /\ Len(From(buf, cut)) <= MaxTokenLen
  BY <1>11, SplitIs
<1>13. Within(kind, From(buf, cut)) /\ kind \in Kind \ {"thinking"}
  BY <1>4, <1>12 DEF Within, Kind
<1>14. Relayed(text, kind, g \o more, From(buf, cut), kind, o \o t)
  BY <1>2, <1>4, <1>7, <1>8, <1>9, <1>12, <1>13, BlockFrame
<1> QED
  BY <1>1, <1>7, <1>10, <1>14

\* Whatever a step leaves alone in the other blocks.
Alone(i) ==
    \A k \in Index \ {i} : got'[k] = got[k] /\ carry'[k] = carry[k] /\ out'[k] = out[k]

\* A frame of one block.
LEMMA FrameForwards ==
    ASSUME RelayInv, NEW i \in Index, NEW n \in Nat, NEW cut, Frame(i, n, cut),
           script[i].kind # "json" => script[i].kind \in {"text", "compaction"} /\ cut = SplitAt(Buffer(i, n))
    PROVE  Forwarding
<1>1. /\ got' = [got EXCEPT ![i] = got[i] \o More(i, n)]
      /\ out' = [out EXCEPT ![i] = out[i] \o Emit(SubSeq(Buffer(i, n), 1, cut - 1), script[i].kind)]
      /\ carry' = [carry EXCEPT ![i] = From(Buffer(i, n), cut)]
      /\ UNCHANGED <<wire, script, open, stopped, guard>>
  BY DEF Frame
<1>2. guard = "armed" /\ i \notin stopped /\ Len(got[i]) + n <= Len(script[i].text)
  BY DEF Frame
<1>3. DOMAIN got = Index /\ DOMAIN carry = Index /\ DOMAIN out = Index
  BY DEF RelayInv, StreamInv
<1>4. Alone(i)
  BY <1>1, <1>3 DEF Alone
<1>5. Ended = stopped /\ Ended' = stopped
  BY <1>1, <1>2 DEF Ended
<1>6. ASSUME NEW k \in Prose PROVE Forwards(k)
  <2>1. k \in Index /\ (k \in Ended => carry[k] = <<>>) /\ script[k].kind # "json"
    BY ProseIs
  <2>2. CASE k # i
    <3>1. got'[k] = got[k] /\ carry'[k] = carry[k] /\ out'[k] = out[k]
      BY <1>4, <2>1, <2>2 DEF Alone
    <3> QED
      BY <1>1, <1>5, <2>1, <3>1, StillForwards
  <2>3. CASE k = i
    <3>1. PICK buf, t : buf = Buffer(i, n) /\ t = Emit(SubSeq(buf, 1, cut - 1), script[i].kind)
      OBVIOUS
    <3>2. script[i].kind \in {"text", "compaction"} /\ cut = SplitAt(buf)
      BY <2>1, <2>3, <3>1
    <3>3. i \in Prose
      BY <2>3
    <3>4. /\ t \in Seq(Item) /\ Reads(script[i].kind, From(buf, cut), out[i] \o t)
          /\ CutClean(script[i].text, script[i].kind, got[i] \o More(i, n), From(buf, cut))
      BY <1>2, <3>1, <3>2, <3>3, NextReads
    <3>5. /\ got'[i] = got[i] \o More(i, n) /\ out'[i] = out[i] \o t
          /\ carry'[i] = From(buf, cut)
      BY <1>1, <1>3, <3>1
    <3>6. ReadsOK(i)'
      BY <1>1, <3>4, <3>5 DEF ReadsOK
    <3> QED
      BY <1>2, <1>5, <2>3, <3>4, <3>5, <3>6 DEF Forwards
  <2> QED
    BY <2>2, <2>3
<1> QED
  BY <1>1, <1>5, <1>6 DEF Forwarding

\* ContentBlockStart holds nothing yet.
LEMMA StartForwards == ASSUME RelayInv, NEW i \in Index, Start(i) PROVE Forwarding
<1>1. /\ wire = "anthropic" /\ guard = "armed" /\ i \notin open \cup stopped
      /\ carry' = [carry EXCEPT ![i] = <<>>]
      /\ UNCHANGED <<wire, script, got, heldKind, stopped, out, guard>>
  BY DEF Start
<1>2. DOMAIN carry = Index /\ (wire = "anthropic" => \A k \in Index \ open : carry[k] = <<>>)
  BY DEF RelayInv, StreamInv
<1>3. \A k \in Index : carry'[k] = carry[k]
  BY <1>1, <1>2
<1>4. Ended' = Ended
  BY <1>1 DEF Ended
<1>5. ASSUME NEW k \in Prose PROVE Forwards(k)
  <2>1. k \in Index /\ (k \in Ended => carry[k] = <<>>)
    BY ProseIs
  <2>2. got'[k] = got[k] /\ carry'[k] = carry[k] /\ out'[k] = out[k]
    BY <1>1, <1>3, <2>1
  <2> QED
    BY <1>1, <1>4, <2>1, <2>2, StillForwards
<1> QED
  BY <1>1, <1>4, <1>5 DEF Forwarding

\* A delta of a thinking block.
LEMMA ThinkingForwards ==
    ASSUME RelayInv, NEW i \in Index, NEW n \in 1..4, ThinkingDelta(i, n) PROVE Forwarding
<1>1. /\ guard = "armed" /\ i \in open /\ script[i].kind = "thinking"
      /\ got' = [got EXCEPT ![i] = got[i] \o More(i, n)]
      /\ out' = [out EXCEPT ![i] = out[i] \o More(i, n)]
      /\ UNCHANGED <<wire, script, carry, heldKind, open, stopped, guard>>
      /\ Len(got[i]) + n <= Len(script[i].text)
  BY DEF ThinkingDelta
<1>2. DOMAIN got = Index /\ DOMAIN out = Index /\ stopped \subseteq Index \ open
  BY DEF RelayInv, StreamInv
<1>3. Alone(i)
  BY <1>1, <1>2 DEF Alone
<1>4. Ended = stopped /\ Ended' = stopped /\ i \notin stopped
  BY <1>1, <1>2 DEF Ended
<1>5. ASSUME NEW k \in Prose PROVE Forwards(k)
  <2>1. k \in Index /\ (k \in Ended => carry[k] = <<>>)
    BY ProseIs
  <2>2. CASE k # i
    <3>1. got'[k] = got[k] /\ carry'[k] = carry[k] /\ out'[k] = out[k]
      BY <1>3, <2>1, <2>2 DEF Alone
    <3> QED
      BY <1>1, <1>4, <2>1, <3>1, StillForwards
  <2>3. CASE k = i
    <3>1. PICK text, kind, g, c, held, o, more :
             /\ text = script[i].text /\ kind = script[i].kind /\ g = got[i] /\ c = carry[i]
             /\ held = heldKind[i] /\ o = out[i] /\ more = More(i, n)
      OBVIOUS
    <3>2. Relayed(text, kind, g, c, held, o) /\ Reads(kind, c, o)
      BY <2>3, <3>1, ProseIs DEF ReadsOK
    <3>3. text \in Seq(Char)
      BY <3>1, ScriptIs DEF RelayInv
    <3>4. more = SubSeq(text, Len(g) + 1, Len(g) + n) /\ Len(g) + n <= Len(text) /\ n \in Nat
      BY <1>1, <3>1 DEF More
    <3>5. g \in Seq(Char) /\ IsPrefix(g, text)
      BY <3>2 DEF Relayed
    <3>6. more \in Seq(Char)
      BY <3>3, <3>4, <3>5, PrefixMore
    <3>7. kind = "thinking"
      BY <1>1, <3>1
    <3>8. more \in Seq(Item) /\ Reads(kind, c, o \o more) /\ CutClean(text, kind, g \o more, c)
      BY <3>2, <3>6, <3>7, ReadsThinking
    <3>9. /\ got'[i] = g \o more /\ out'[i] = o \o more /\ carry'[i] = c
          /\ script'[i].text = text /\ script'[i].kind = kind
      BY <1>1, <1>2, <3>1
    <3>10. ReadsOK(i)'
      BY <3>8, <3>9 DEF ReadsOK
    <3>11. \E t \in Seq(Item) : out'[i] = out[i] \o t
      BY <3>1, <3>8, <3>9
    <3> QED
      BY <1>4, <2>3, <3>10, <3>11 DEF Forwards
  <2> QED
    BY <2>2, <2>3
<1> QED
  BY <1>1, <1>4, <1>5 DEF Forwarding

\* ContentBlockStop: the held tail is the end of the block.
LEMMA StopForwards == ASSUME RelayInv, NEW i \in Index, Stop(i) PROVE Forwarding
<1>1. /\ guard = "armed" /\ got[i] = script[i].text
      /\ out' = [out EXCEPT ![i] = out[i] \o Flush(carry[i], heldKind[i])]
      /\ carry' = [carry EXCEPT ![i] = <<>>]
      /\ stopped' = stopped \cup {i}
      /\ UNCHANGED <<wire, script, got, guard>>
  BY DEF Stop
<1>2. DOMAIN carry = Index /\ DOMAIN out = Index
  BY DEF RelayInv, StreamInv
<1>3. Alone(i)
  BY <1>1, <1>2 DEF Alone
<1>4. Ended = stopped /\ Ended' = stopped \cup {i}
  BY <1>1 DEF Ended
<1>5. ASSUME NEW k \in Prose PROVE Forwards(k)
  <2>1. k \in Index /\ (k \in Ended => carry[k] = <<>>)
    BY ProseIs
  <2>2. CASE k # i
    <3>1. got'[k] = got[k] /\ carry'[k] = carry[k] /\ out'[k] = out[k]
      BY <1>3, <2>1, <2>2 DEF Alone
    <3>2. (k \in Ended' => carry[k] = <<>>) /\ stopped \subseteq stopped' /\ (guard # "armed" => guard' # "armed")
      BY <1>1, <1>4, <2>1, <2>2
    <3> QED
      BY <1>1, <3>1, <3>2, StillForwards
  <2>3. CASE k = i
    <3>1. /\ got'[k] = got[k] /\ carry'[k] = <<>> /\ out'[k] = out[k] \o Flush(carry[k], heldKind[k])
          /\ got[k] = script[k].text
      BY <1>1, <1>2, <2>3
    <3> QED
      BY <1>1, <3>1, FlushForwards
  <2> QED
    BY <2>2, <2>3
<1> QED
  BY <1>1, <1>4, <1>5 DEF Forwarding

\* What ends the stream for every block.
LEMMA DrainForwards ==
    ASSUME RelayInv, out' = FlushAll(out, carry, heldKind), carry' = [i \in Index |-> <<>>],
           UNCHANGED <<wire, script, got>>, Ended \subseteq Ended',
           stopped' = Index \/ guard' # "armed"
    PROVE  Forwarding
<1>1. ASSUME NEW k \in Prose PROVE Forwards(k)
  <2>1. k \in Index
    BY ProseIs
  <2>2. /\ got'[k] = got[k] /\ carry'[k] = <<>> /\ script' = script
        /\ out'[k] = out[k] \o Flush(carry[k], heldKind[k])
    BY <2>1 DEF FlushAll
  <2>3. k \in stopped' \/ guard' # "armed"
    BY <2>1
  <2> QED
    BY <2>2, <2>3, FlushForwards
<1> QED
  BY <1>1 DEF Forwarding

LEMMA SentinelForwards == ASSUME RelayInv, Sentinel PROVE Forwarding
<1>1. /\ out' = FlushAll(out, carry, heldKind) /\ carry' = [i \in Index |-> <<>>]
      /\ UNCHANGED <<wire, script, got, guard>> /\ stopped' = Index /\ guard = "armed"
  BY DEF Sentinel
<1>2. stopped \subseteq Index
  BY DEF RelayInv, StreamInv
<1>3. Ended \subseteq Ended'
  BY <1>1, <1>2 DEF Ended
<1> QED
  BY <1>1, <1>3, DrainForwards

LEMMA EndForwards == ASSUME RelayInv, EndOfStream PROVE Forwarding
<1>1. /\ out' = FlushAll(out, carry, heldKind) /\ carry' = [i \in Index |-> <<>>]
      /\ UNCHANGED <<wire, script, got, stopped>> /\ guard = "armed" /\ guard' = "completed"
  BY DEF EndOfStream
<1>2. stopped \subseteq Index
  BY DEF RelayInv, StreamInv
<1>3. Ended \subseteq Ended' /\ guard' # "armed"
  BY <1>1, <1>2 DEF Ended
<1> QED
  BY <1>1, <1>3, DrainForwards

\* A break, or a step of something else.
LEMMA BreakForwards == ASSUME RelayInv, Break \/ UNCHANGED svars PROVE Forwarding
<1>1. /\ UNCHANGED <<wire, script, got, carry, out, stopped>>
      /\ guard' = guard \/ (guard = "armed" /\ guard' \in {"upstream_error", "aborted"})
  BY DEF Break, svars
<1>2. Ended' = Ended /\ (guard # "armed" => guard' # "armed")
  BY <1>1 DEF Ended
<1>3. ASSUME NEW k \in Prose PROVE Forwards(k)
  <2>1. k \in Ended => carry[k] = <<>>
    BY ProseIs
  <2> QED
    BY <1>1, <1>2, <2>1, StillForwards
<1> QED
  BY <1>1, <1>2, <1>3 DEF Forwarding

\* Items forwarded in two parts.
LEMMA JoinItems ==
    ASSUME NEW y \in Seq(Item), NEW t \in Seq(Item), NEW last \in Seq(Item)
    PROVE  (y \o t) \o last = y \o (t \o last) /\ t \o last \in Seq(Item)
  BY ConcatAssociative, ConcatProperties

\* The last chunk of a choice, which comes when every other choice is complete.
LEMMA ChatTerminalForwards ==
    ASSUME RelayInv, NEW i \in Index, NEW n \in 0..2, NEW finish \in BOOLEAN, ChatTerminal(i, n, finish)
    PROVE  Forwarding
<1>1. PICK buf, cut, kind : buf = Buffer(i, n) /\ cut = SplitAt(buf) /\ kind = script[i].kind
  OBVIOUS
<1>2. PICK t, rest : t = Emit(SubSeq(buf, 1, cut - 1), kind) /\ rest = From(buf, cut)
  OBVIOUS
<1>3. PICK o, c, kinds : /\ o = [out EXCEPT ![i] = out[i] \o t]
                         /\ c = [carry EXCEPT ![i] = rest]
                         /\ kinds = [heldKind EXCEPT ![i] = kind]
  OBVIOUS
<1>4. /\ wire \in {"chat", "chat_early"} /\ kind \in Kind /\ guard = "armed" /\ i \notin stopped
      /\ got' = [got EXCEPT ![i] = got[i] \o More(i, n)]
      /\ out' = FlushAll(o, c, kinds) /\ carry' = [k \in Index |-> <<>>]
      /\ stopped' = IF finish THEN stopped \cup {i} ELSE stopped
      /\ UNCHANGED <<wire, script, open, guard>>
  BY <1>1, <1>2, <1>3 DEF ChatTerminal, FlushedAfter
<1>5. /\ Len(got[i]) + n <= Len(script[i].text) /\ n \in Nat
      /\ finish => Len(got[i]) + n = Len(script[i].text)
      /\ wire = "chat" => finish /\ \A k \in Index \ {i} : got[k] = script[k].text
  BY DEF ChatTerminal
<1>6. /\ DOMAIN got = Index /\ DOMAIN carry = Index /\ DOMAIN out = Index
      /\ heldKind \in [Index -> Kind \cup {None}]
  BY DEF RelayInv, StreamInv
<1>7. Ended = stopped /\ Ended' = stopped' /\ stopped \subseteq stopped'
  BY <1>4 DEF Ended
<1>8. ASSUME NEW k \in Prose PROVE Forwards(k)
  <2>1. k \in Index /\ wire = "chat" /\ script[k].kind # "json"
    BY <1>4, ProseIs
  <2>2. finish /\ \A j \in Index \ {i} : got[j] = script[j].text
    BY <1>5, <2>1
  <2>3. CASE k # i
    <3>1. /\ got'[k] = got[k] /\ carry'[k] = <<>> /\ got[k] = script[k].text
          /\ out'[k] = out[k] \o Flush(carry[k], heldKind[k])
      BY <1>3, <1>4, <1>6, <2>1, <2>2, <2>3 DEF FlushAll
    <3> QED
      BY <1>4, <3>1, FlushForwards
  <2>4. CASE k = i
    <3>1. i \in Prose /\ kind \in {"text", "compaction"}
      <4>1. kind # "json" /\ kind # "thinking"
        BY <1>1, <1>4, <2>1, <2>4, ScriptIs, StreamAssumption DEF RelayInv, Kind
      <4> QED
        BY <1>4, <2>4, <4>1 DEF Kind
    <3>2. PICK text, g, x : text = script[i].text /\ g = got[i] \o More(i, n) /\ x = out[i] \o t
      OBVIOUS
    <3>3. /\ t \in Seq(Item) /\ Reads(kind, rest, x) /\ Relayed(text, kind, g, rest, kind, x)
          /\ Len(g) = Len(text)
      <4>1. /\ t \in Seq(Item) /\ Reads(script[i].kind, From(buf, cut), out[i] \o t)
            /\ Relayed(script[i].text, script[i].kind, got[i] \o More(i, n), From(buf, cut),
                      script[i].kind, out[i] \o t)
            /\ Len(got[i] \o More(i, n)) = Len(got[i]) + n
        BY <1>1, <1>2, <1>4, <1>5, <3>1, NextReads
      <4> QED
        BY <1>1, <1>2, <1>5, <2>2, <3>2, <4>1
    <3>4. text \in Seq(Char)
      BY <3>2, ScriptIs DEF RelayInv
    <3>5. g = text
      <4>1. g \in Seq(Char) /\ IsPrefix(g, text)
        BY <3>3 DEF Relayed
      <4> QED
        BY <3>3, <3>4, <4>1, PrefixFull
    <3>6. PICK last : last = Flush(rest, kind)
      OBVIOUS
    <3>7. kind # "json" /\ (wire # "anthropic" => kind # "compaction")
      BY <1>1, <3>1, NoCompaction DEF RelayInv
    <3>8. last \in Seq(Item) /\ Reads(kind, <<>>, x \o last)
      BY <3>3, <3>6, <3>7, ReadsFlush
    <3>9. CutClean(text, kind, g, <<>>)
      BY <3>5 DEF CutClean
    <3>10. /\ got'[i] = g /\ carry'[i] = <<>> /\ out'[i] = x \o last
           /\ script'[i].text = text /\ script'[i].kind = kind
      BY <1>1, <1>3, <1>4, <1>6, <3>2, <3>6 DEF FlushAll
    <3>11. ReadsOK(i)'
      BY <3>8, <3>9, <3>10 DEF ReadsOK
    <3>12. \E u \in Seq(Item) : out'[i] = out[i] \o u
      <4>1. PICK y : y = out[i]
        OBVIOUS
      <4>2. y \in Seq(Item)
        BY <3>1, <4>1, ProseIs
      <4>3. (y \o t) \o last = y \o (t \o last) /\ t \o last \in Seq(Item)
        BY <3>3, <3>8, <4>2, JoinItems
      <4> QED
        BY <3>2, <3>10, <4>1, <4>3
    <3> QED
      BY <1>4, <1>7, <2>4, <3>10, <3>11, <3>12 DEF Forwards
  <2> QED
    BY <2>3, <2>4
<1> QED
  BY <1>4, <1>7, <1>8 DEF Forwarding

-----------------------------------------------------------------------------
(* The refinement.                                                         *)

\* Every step of the relays forwards.
LEMMA StepForwards == ASSUME RelayInv, [StreamNext]_svars PROVE Forwarding
<1>1. CASE \E i \in Index : Start(i) \/ Stop(i)
  BY <1>1, StartForwards, StopForwards
<1>2. CASE \E i \in Index, n \in 1..4 : Delta(i, n)
  <2>1. PICK i \in Index, n \in 1..4 : Delta(i, n)
    BY <1>2
  <2>2. PICK buf, cut, kind : buf = Buffer(i, n) /\ kind = script[i].kind /\ cut = HoldAt(buf, kind)
    OBVIOUS
  <2>3. Frame(i, n, cut) /\ kind \in Kind \ {"thinking"} /\ n \in Nat
    BY <2>1, <2>2 DEF Delta
  <2>4. buf \in Seq(Char)
    BY <2>2, <2>3, BufferIs DEF Frame, RelayInv
  <2>5. kind # "json" => kind \in {"text", "compaction"} /\ cut = SplitAt(buf)
    BY <2>2, <2>3, <2>4, HoldIs DEF Kind
  <2> QED
    BY <2>2, <2>3, <2>5, FrameForwards
<1>3. CASE \E i \in Index, n \in 1..4 : ThinkingDelta(i, n)
  BY <1>3, ThinkingForwards
<1>4. CASE \E i \in Index, n \in 1..4 : ChatDelta(i, n) \/ ResponsesDelta(i, n)
  <2>1. PICK i \in Index, n \in 1..4 : ChatDelta(i, n) \/ ResponsesDelta(i, n)
    BY <1>4
  <2>2. PICK cut : cut = SplitAt(Buffer(i, n))
    OBVIOUS
  <2>3. wire # "anthropic" /\ script[i].kind \in Kind /\ Frame(i, n, cut) /\ n \in Nat
    BY <2>1, <2>2 DEF ChatDelta, ResponsesDelta
  <2>4. script[i].kind # "json" => script[i].kind \in {"text", "compaction"}
    BY <2>3, ScriptIs, StreamAssumption DEF RelayInv, Kind
  <2> QED
    BY <2>2, <2>3, <2>4, FrameForwards
<1>5. CASE \E i \in Index, n \in 0..2, finish \in BOOLEAN : ChatTerminal(i, n, finish)
  BY <1>5, ChatTerminalForwards
<1>6. CASE Sentinel
  BY <1>6, SentinelForwards
<1>7. CASE EndOfStream
  BY <1>7, EndForwards
<1>8. CASE Break \/ UNCHANGED svars
  BY <1>8, BreakForwards
<1> QED
  BY <1>1, <1>2, <1>3, <1>4, <1>5, <1>6, <1>7, <1>8 DEF StreamNext

\* A step that forwards keeps the invariant, and the blocks of prose.
LEMMA RelayNextInv == ASSUME RelayInv, [StreamNext]_svars PROVE RelayInv' /\ Prose' = Prose
<1>1. Forwarding
  BY StepForwards
<1>2. Prose' = Prose
  BY <1>1 DEF Prose, Forwarding
<1>3. StreamInv'
  BY StreamNextInv DEF RelayInv
<1>4. ASSUME NEW i \in Prose' PROVE ReadsOK(i)' /\ (i \in Ended' => carry'[i] = <<>>)
  BY <1>1, <1>2 DEF Forwarding, Forwards
<1> QED
  BY <1>2, <1>3, <1>4 DEF RelayInv

\* Nothing received reads as nothing.
LEMMA RelayInitInv == ASSUME StreamInit PROVE RelayInv
<1>1. StreamInv
  BY StreamInitInv
<1>2. /\ got = [i \in Index |-> <<>>] /\ carry = got /\ out = got
      /\ stopped = {} /\ guard = "armed"
  BY DEF StreamInit
<1>3. ASSUME NEW i \in Prose PROVE ReadsOK(i) /\ (i \in Ended => carry[i] = <<>>)
  <2>1. PICK e, kind : e = <<>> /\ kind = script[i].kind
    OBVIOUS
  <2>2. i \in Index /\ kind # "json"
    BY <2>1 DEF Prose
  <2>3. got[i] = e /\ carry[i] = e /\ out[i] = e
    BY <1>2, <2>1, <2>2
  <2>4. e \in Seq(Char) /\ Tokenless(e) /\ HeldTail(e) /\ EndsClean(e)
    BY <2>1 DEF Tokenless, HeldTail, EndsClean
  <2>5. Back(e) = e /\ Settled(e) = e /\ Whole(kind, e) = e
    BY <2>2, <2>4, BackChars, SettledChars, WholeTokenless
  <2>6. Reads(kind, e, e)
    BY <2>4, <2>5 DEF Reads
  <2>7. CutClean(script[i].text, kind, e, e)
    BY <2>4 DEF CutClean
  <2>8. ReadsOK(i)
    BY <2>1, <2>3, <2>6, <2>7 DEF ReadsOK
  <2> QED
    BY <2>1, <2>3, <2>8
<1> QED
  BY <1>1, <1>3 DEF RelayInv

\* A text begins what it is continued to.
LEMMA BeginsJoin ==
    ASSUME NEW S, NEW a \in Seq(S), NEW b \in Seq(S)
    PROVE  IsPrefix(a, a \o b) /\ (b = <<>> => a \o b = a)
<1>1. PICK u : u = a \o b
  OBVIOUS
<1>2. u \in Seq(S) /\ Len(u) = Len(a) + Len(b) /\ \A j \in 1..Len(a) : u[j] = a[j]
  BY <1>1
<1>3. SubSeq(a, 1, Len(a)) = SubSeq(u, 1, Len(a))
  BY <1>2
<1>4. Len(a) <= Len(u)
  BY <1>2
<1>5. b = <<>> => a \o b = a
  OBVIOUS
<1> QED
  BY <1>1, <1>3, <1>4, <1>5 DEF IsPrefix

\* What one block of prose shows the abstract relay, before and after a step.
LEMMA BlockPasses ==
    ASSUME RelayInv, RelayInv', Prose' = Prose, Forwarding, NEW i \in Prose,
           NEW kind, kind = script[i].kind
    PROVE  /\ IsPrefix(Settled(out[i]), Settled(out'[i]))
           /\ IsPrefix(Settled(out'[i]), Whole(kind, got'[i]))
           /\ i \in Ended => Whole(kind, got'[i]) = Whole(kind, got[i]) /\ Settled(out'[i]) = Settled(out[i])
           /\ i \in Ended' => Settled(out'[i]) = Whole(kind, got'[i])
<1>1. PICK text, g, c, held, o : /\ text = script[i].text /\ g = got'[i] /\ c = carry'[i]
                                 /\ held = heldKind'[i] /\ o = out'[i]
  OBVIOUS
<1>2. script' = script /\ Forwards(i)
  BY DEF Forwarding
<1>3. i \in Index /\ kind # "json" /\ out[i] \in Seq(Item)
  BY ProseIs
<1>4. Relayed(text, kind, g, c, held, o)
  <2>1. BlockOK(i)'
    BY <1>3 DEF RelayInv, StreamInv
  <2> QED
    BY <1>1, <1>2, <2>1 DEF BlockOK
<1>5. Reads(kind, c, o)
  BY <1>1, <1>2 DEF Forwards, ReadsOK
<1>6. Whole(kind, g) = Settled(o) \o c /\ Settled(o) \in Seq(Sign) /\ c \in Seq(Sign)
  BY <1>3, <1>4, <1>5, ReadsWhole
<1>7. PICK t \in Seq(Item) : o = out[i] \o t
  BY <1>1, <1>2 DEF Forwards
<1>8. Settled(o) = Settled(out[i]) \o Settled(t) /\ Settled(out[i]) \in Seq(Sign) /\ Settled(t) \in Seq(Sign)
  BY <1>3, <1>7, SettledConcat, SettledIs
<1>9. IsPrefix(Settled(out[i]), Settled(o)) /\ IsPrefix(Settled(o), Whole(kind, g))
  <2>1. PICK a, b, d, w : a = Settled(out[i]) /\ b = Settled(t) /\ d = Settled(o) /\ w = Whole(kind, g)
    OBVIOUS
  <2>2. /\ a \in Seq(Sign) /\ b \in Seq(Sign) /\ c \in Seq(Sign) /\ d \in Seq(Sign)
        /\ d = a \o b /\ w = d \o c
    BY <1>6, <1>8, <2>1
  <2>3. IsPrefix(a, a \o b) /\ IsPrefix(d, d \o c)
    BY <2>2, BeginsJoin
  <2> QED
    BY <2>1, <2>2, <2>3, Zenon
<1>10. i \in Ended' => Settled(o) = Whole(kind, g)
  <2>1. i \in Ended' => c = <<>>
    BY <1>1, <1>2 DEF Forwards
  <2> QED
    BY <1>6, <2>1, BeginsJoin
<1>11. i \in Ended => got'[i] = got[i] /\ out'[i] = out[i]
  BY <1>2 DEF Forwards
<1> QED
  BY <1>1, <1>9, <1>10, <1>11

\* A step of the relays is a step of the abstract relay.
LEMMA RelayPasses == ASSUME RelayInv, [StreamNext]_svars PROVE Promise!Pass
<1>1. RelayInv' /\ Prose' = Prose
  BY RelayNextInv
<1>2. Forwarding
  BY StepForwards
<1>3. script' = script /\ Ended \subseteq Ended'
  BY <1>2 DEF Forwarding
<1>4. Prose \subseteq Index
  BY DEF Prose
<1> DEFINE arrived == [i \in Index |-> IF i \in Prose THEN Whole(script[i].kind, got[i]) ELSE <<>>]
           forwarded == [i \in Index |-> IF i \in Prose THEN Settled(out[i]) ELSE <<>>]
<1>5. ASSUME NEW b \in Index
      PROVE  /\ IsPrefix(forwarded[b], forwarded'[b]) /\ IsPrefix(forwarded'[b], arrived'[b])
             /\ b \in Ended => arrived'[b] = arrived[b] /\ forwarded'[b] = forwarded[b]
             /\ b \in Ended' => forwarded'[b] = arrived'[b]
  <2>1. CASE b \in Prose
    <3>1. PICK kind : kind = script[b].kind
      OBVIOUS
    <3>2. /\ IsPrefix(Settled(out[b]), Settled(out'[b]))
          /\ IsPrefix(Settled(out'[b]), Whole(kind, got'[b]))
          /\ b \in Ended => Whole(kind, got'[b]) = Whole(kind, got[b]) /\ Settled(out'[b]) = Settled(out[b])
          /\ b \in Ended' => Settled(out'[b]) = Whole(kind, got'[b])
      BY <1>1, <1>2, <2>1, <3>1, BlockPasses
    <3>3. b \in Prose' /\ script'[b].kind = kind
      BY <1>1, <1>3, <2>1, <3>1
    <3>4. /\ forwarded[b] = Settled(out[b]) /\ forwarded'[b] = Settled(out'[b])
          /\ arrived[b] = Whole(kind, got[b]) /\ arrived'[b] = Whole(kind, got'[b])
      BY <2>1, <3>1, <3>3
    <3> QED
      BY <3>2, <3>4
  <2>2. CASE b \notin Prose
    <3>1. b \notin Prose'
      BY <1>1, <2>2
    <3>2. forwarded[b] = <<>> /\ forwarded'[b] = <<>> /\ arrived[b] = <<>> /\ arrived'[b] = <<>>
      BY <2>2, <3>1
    <3>3. IsPrefix(<<>>, <<>>)
      BY DEF IsPrefix
    <3> QED
      BY <3>2, <3>3
  <2> QED
    BY <2>1, <2>2
<1>6. PICK p, q, x, y : p = forwarded /\ q = forwarded' /\ x = arrived /\ y = arrived'
  OBVIOUS
<1>7. ASSUME NEW b \in Index
      PROVE  /\ IsPrefix(p[b], q[b]) /\ IsPrefix(q[b], y[b])
             /\ b \in Ended => y[b] = x[b] /\ q[b] = p[b]
             /\ b \in Ended' => q[b] = y[b]
  BY <1>5, <1>6
<1>8. \A s, t : Promise!IsPrefix(s, t) <=> IsPrefix(s, t)
  BY DEF Promise!IsPrefix, IsPrefix
<1> QED
  BY <1>3, <1>6, <1>7, <1>8 DEF Promise!Pass, Ended

\* Nothing received is where the abstract relay begins.
LEMMA RelayStarts == ASSUME StreamInit PROVE Promise!RelayInit
<1>1. /\ got = [i \in Index |-> <<>>] /\ out = got /\ stopped = {} /\ guard = "armed"
  BY DEF StreamInit
<1>2. ASSUME NEW i \in Prose PROVE Whole(script[i].kind, got[i]) = <<>> /\ Settled(out[i]) = <<>>
  <2>1. PICK e : e = <<>>
    OBVIOUS
  <2>2. i \in Index /\ script[i].kind # "json"
    BY DEF Prose
  <2>3. e \in Seq(Char) /\ Tokenless(e)
    BY <2>1 DEF Tokenless
  <2>4. got[i] = e /\ out[i] = e
    BY <1>1, <2>1, <2>2
  <2> QED
    BY <2>1, <2>2, <2>3, <2>4, SettledChars, WholeTokenless
<1>3. [i \in Index |-> IF i \in Prose THEN Whole(script[i].kind, got[i]) ELSE <<>>] = [i \in Index |-> <<>>]
  BY <1>2
<1>4. [i \in Index |-> IF i \in Prose THEN Settled(out[i]) ELSE <<>>] = [i \in Index |-> <<>>]
  BY <1>2
<1> QED
  BY <1>1, <1>3, <1>4 DEF Promise!RelayInit

\* The relays of sse.rs, the chat and the responses modules implement Relay, for any
\* scripts, handles and rules: what was forwarded of a block that is not tool input is at
\* every moment a beginning of what the engine would have made of all the text received,
\* had it come in one frame, and is all of it once the block stopped or the stream
\* completed (buffered, classify, split_safe, ContentBlockStop, drain).  Custom literal
\* tokens count as put back, and a back end that finishes a choice while others still
\* stream is left out (Prose).
THEOREM RelayIsWhole == StreamSpec => RelaysWholeText
<1>1. StreamInit => RelayInv /\ Promise!RelayInit
  BY RelayInitInv, RelayStarts
<1>2. RelayInv /\ [StreamNext]_svars => RelayInv'
  BY RelayNextInv
<1>3. RelayInv /\ [StreamNext]_svars => [Promise!Pass]_(Promise!rvars)
  BY RelayPasses
<1> QED
  BY <1>1, <1>2, <1>3, PTL DEF StreamSpec, RelaysWholeText, Promise!RelaySpec

-----------------------------------------------------------------------------
(* The walk over a body. *)

\* The first of a set of positions, zero when there is none.
LEMMA FirstIs ==
    ASSUME NEW n \in Nat, NEW T, T \subseteq 1..n
    PROVE  \/ T = {} /\ FirstOf(T) = 0
           \/ T # {} /\ FirstOf(T) \in T /\ \A j \in T : FirstOf(T) <= j
<1>1. CASE T = {}
  BY <1>1 DEF FirstOf
<1>2. CASE T # {}
  <2>1. T \in SUBSET Nat
    OBVIOUS
  <2>2. \E i \in T : \A j \in T : i <= j
    BY <1>2, <2>1, SmallestOf
  <2> QED
    BY <1>2, <2>2 DEF FirstOf
<1> QED
  BY <1>1, <1>2

\* A path is a sequence of names with the shape of its wire.
LEMMA WalkIs ==
    ASSUME NEW w \in Wire, NEW p \in Paths[w]
    PROVE  p \in Seq(STRING) /\ Len(p) \in Nat /\ Len(p) > 0 /\ DOMAIN p = 1..Len(p) /\ Shape(w, p)
<1>1. p \in Seq(STRING) /\ p # <<>> /\ Shape(w, p)
  BY WalkAssumption
<1> QED
  BY <1>1

\* The three treatments are what they say.
LEMMA TreatmentIs ==
    /\ \A s : Mask(s).do = "mask" /\ Mask(s).on = s
    /\ Scan.do = "scan" /\ Skip.do = "skip"
  BY DEF Mask, Scan, Skip

\* value_safe of the OpenAI walkers skips base64 data only, and keeps its surface.
LEMMA ValueSafeIs ==
    ASSUME NEW p \in Seq(STRING), NEW contract, NEW surface
    PROVE  \/ ValueSafe(p, contract, surface) = Mask(surface)
           \/ ValueSafe(p, contract, surface) = Scan
           \/ ValueSafe(p, contract, surface) = Skip /\ \E j \in DOMAIN p : p[j] = "data64"
<1> DEFINE T == {j \in DOMAIN p : p[j] \in contract \cup {"data64"}}
           i == FirstOf(T)
<1>1. PICK n \in Nat : n = Len(p)
  OBVIOUS
<1>2. T \subseteq 1..n
  BY <1>1
<1>3. ValueSafe(p, contract, surface) =
          IF i = 0 THEN Mask(surface) ELSE IF p[i] = "data64" THEN Skip ELSE Scan
  BY DEF ValueSafe
<1>4. i = 0 \/ i \in T
  <2> HIDE DEF T
  <2> QED
    BY <1>2, FirstIs
<1> QED
  BY <1>3, <1>4

\* The rest of a path.
LEMMA RestIs ==
    ASSUME NEW p \in Seq(STRING), NEW k \in Nat, 1 <= k, k <= Len(p)
    PROVE  /\ SubSeq(p, k, Len(p)) \in Seq(STRING) /\ Len(SubSeq(p, k, Len(p))) = Len(p) + 1 - k
           /\ \A j \in 1..(Len(p) + 1 - k) : SubSeq(p, k, Len(p))[j] = p[k + j - 1]
<1>1. Len(p) \in Nat /\ k <= Len(p) + 1
  OBVIOUS
<1> QED
  BY <1>1, SubSeqIs

\* A linked string is masked unless it is inline data.
LEMMA LinkedIs ==
    ASSUME NEW p, NEW surface
    PROVE  \/ Linked(p, surface) = Mask(surface)
           \/ Linked(p, surface) = Skip /\ p[Len(p)] = "data64"
  BY DEF Linked

\* The address of a Url source.
IsUrl(q) == Len(q) = 3 /\ q[2] = "source" /\ q[3] = "url"

\* The content of a tool's result: its texts and links are masked as its own.
LEMMA ToolResultIs ==
    ASSUME NEW q
    PROVE  \/ ToolResult(q) = Mask("tool_result")
           \/ ToolResult(q) = Skip /\ q \notin {<<>>, <<"text", "text">>} \cup Links
<1>1. CASE q \in {<<>>, <<"text", "text">>}
  <2>1. q = <<>> \/ q[1] = "text"
    BY <1>1
  <2> QED
    BY <1>1, <2>1 DEF ToolResult
<1>2. CASE q \notin {<<>>, <<"text", "text">>} /\ q[1] \in {"image", "document"}
  <2>1. ToolResult(q) = SourceOf(q, "tool_result")
    <3>1. PICK r : r = SourceOf(q, "tool_result")
      OBVIOUS
    <3>2. ~(q \in {<<>>, <<"text", "text">>}) /\ q # <<>>
      BY <1>2
    <3> QED
      BY <1>2, <3>1, <3>2 DEF ToolResult
  <2>2. CASE IsUrl(q)
    BY <2>1, <2>2 DEF SourceOf, IsUrl
  <2>3. CASE ~IsUrl(q)
    <3>1. ToolResult(q) = Skip
      BY <2>1, <2>3 DEF SourceOf, IsUrl
    <3>2. q \notin Links
      BY <2>3 DEF Links, IsUrl
    <3> QED
      BY <1>2, <3>1, <3>2
  <2> QED
    BY <2>2, <2>3
<1>3. CASE q \notin {<<>>, <<"text", "text">>} /\ q[1] \notin {"image", "document"}
  <2>1. ToolResult(q) = Skip
    BY <1>3 DEF ToolResult
  <2>2. q \notin Links
    BY <1>3 DEF Links
  <2> QED
    BY <1>3, <2>1, <2>2
<1> QED
  BY <1>1, <1>2, <1>3

\* One block: each of its texts is masked as the surface of its kind, and what the walk leaves
\* alone is none of them.
LEMMA BlockIs ==
    ASSUME NEW q, NEW role
    PROVE  \/ q[1] = "extra" /\ Block(q, role) = Scan
           \/ q[1] # "extra" /\ ~BlockText(q) /\ Block(q, role) = Skip
           \/ q[1] = "text" /\ Block(q, role) = Mask(RoleSurface("anthropic", role))
           \/ q[1] = "tool_use" /\ Block(q, role) = Mask("tool_input")
           \/ q[1] = "tool_result" /\ Block(q, role) = Mask("tool_result")
           \/ q[1] \in {"image", "document"} /\ Block(q, role) = Mask("user")
           \/ q[1] = "compaction" /\ Block(q, role) = Mask("assistant")
<1>1. /\ q = <<"text", "text">> => q[1] = "text"
      /\ q = <<"compaction", "content">> => q[1] = "compaction"
      /\ q \in Links => q[1] \in {"image", "document"} /\ IsUrl(q)
  BY DEF Links, IsUrl
<1>2. CASE q[1] = "text"
  <2>1. CASE q = <<"text", "text">>
    BY <1>2, <2>1 DEF Block
  <2>2. CASE q # <<"text", "text">>
    <3>1. Block(q, role) = Skip
      BY <1>1, <1>2, <2>2 DEF Block
    <3> QED
      BY <1>1, <1>2, <2>2, <3>1 DEF BlockText
  <2> QED
    BY <2>1, <2>2
<1>3. CASE q[1] = "tool_use"
  <2>1. CASE q[2] = "input"
    BY <1>1, <1>3, <2>1 DEF Block
  <2>2. CASE q[2] # "input"
    <3>1. Block(q, role) = Skip
      BY <1>1, <1>3, <2>2 DEF Block
    <3> QED
      BY <1>1, <1>3, <2>2, <3>1 DEF BlockText
  <2> QED
    BY <2>1, <2>2
<1>4. CASE q[1] = "tool_result"
  <2>1. CASE q[2] = "content"
    <3>1. PICK r : r = SubSeq(q, 3, Len(q))
      OBVIOUS
    <3>2. Block(q, role) = ToolResult(r)
      BY <1>1, <1>4, <2>1, <3>1 DEF Block
    <3>3. ToolResult(r) = Skip => ToolResult(r) = Mask("tool_result") \/ ~BlockText(q)
      <4>1. BlockText(q) => r \in {<<>>, <<"text", "text">>} \cup Links
        BY <1>1, <1>4, <3>1 DEF BlockText
      <4> QED
        BY <4>1, ToolResultIs
    <3> QED
      BY <1>4, <3>2, <3>3, ToolResultIs
  <2>2. CASE q[2] # "content"
    <3>1. Block(q, role) = Skip
      BY <1>1, <1>4, <2>2 DEF Block
    <3> QED
      BY <1>1, <1>4, <2>2, <3>1 DEF BlockText
  <2> QED
    BY <2>1, <2>2
<1>5. CASE q[1] \in {"image", "document"}
  <2>1. Block(q, role) = SourceOf(q, "user")
    BY <1>1, <1>5 DEF Block
  <2>2. CASE IsUrl(q)
    BY <1>5, <2>1, <2>2 DEF SourceOf, IsUrl
  <2>3. CASE ~IsUrl(q)
    BY <1>1, <1>5, <2>1, <2>3 DEF SourceOf, BlockText, IsUrl
  <2> QED
    BY <2>2, <2>3
<1>6. CASE q[1] = "compaction"
  <2>1. CASE q = <<"compaction", "content">>
    BY <1>6, <2>1 DEF Block
  <2>2. CASE q # <<"compaction", "content">>
    <3>1. Block(q, role) = Skip
      BY <1>1, <1>6, <2>2 DEF Block
    <3> QED
      BY <1>1, <1>6, <2>2, <3>1 DEF BlockText
  <2> QED
    BY <2>1, <2>2
<1>7. CASE q[1] = "extra"
  BY <1>1, <1>7 DEF Block
<1>8. CASE q[1] \notin {"text", "tool_use", "tool_result", "image", "document", "compaction", "extra"}
  <2>1. Block(q, role) = Skip
    BY <1>1, <1>8 DEF Block
  <2> QED
    BY <1>1, <1>8, <2>1 DEF BlockText
<1> QED
  BY <1>2, <1>3, <1>4, <1>5, <1>6, <1>7, <1>8

\* The typed walk of a body of Anthropic's.
LEMMA AnthropicSkips ==
    ASSUME NEW p \in Paths["anthropic"], AnthropicWalk(p).do = "skip"
    PROVE  Opaque(p) \/ Unread(p)
<1>1. PICK n \in Nat : n = Len(p)
  BY WalkIs DEF Wire
<1>2. p \in Seq(STRING) /\ n > 0 /\ DOMAIN p = 1..n /\ AnthropicShape(p)
  BY <1>1, WalkIs DEF Wire, Shape
<1>3. CASE p[1] = "messages"
  <2>1. n > 3
    BY <1>1, <1>2, <1>3 DEF AnthropicShape
  <2>2. PICK q : q = SubSeq(p, 3, Len(p))
    OBVIOUS
  <2>3. q[1] = p[3]
    BY <1>1, <1>2, <2>1, <2>2, RestIs
  <2>4. Block(q, p[2]).do = "skip"
    BY <1>3, <2>2 DEF AnthropicWalk
  <2>5. q[1] # "extra" /\ ~BlockText(q)
    BY <2>4, BlockIs, TreatmentIs
  <2> QED
    BY <1>3, <2>2, <2>3, <2>5 DEF Unread
<1>4. CASE p[1] = "tools"
  <2>1. n > 1 /\ p[2] \in {"description", "input_schema", "extra", "cache_control", "name", "type"}
    BY <1>1, <1>2, <1>4 DEF AnthropicShape
  <2>2. p[2] \in {"cache_control", "name", "type"}
    BY <1>4, <2>1, TreatmentIs DEF AnthropicWalk
  <2>3. \E j \in DOMAIN p : j > 1 /\ p[j - 1] = "tools" /\ p[j] \in {"cache_control", "name", "type"}
    <3>1. 2 \in DOMAIN p /\ 2 - 1 = 1
      BY <1>2, <2>1
    <3> QED
      BY <1>4, <2>2, <3>1
  <2> QED
    BY <2>3 DEF Opaque
<1>5. CASE p[1] = "metadata"
  BY <1>5, TreatmentIs DEF AnthropicWalk, Opaque
<1>6. CASE p[1] = "context_management"
  <2>1. ContextManagement(Tail(p)).do = "skip"
    BY <1>6 DEF AnthropicWalk
  <2>2. PICK j \in DOMAIN Tail(p) : Tail(p)[j] \in ProtocolKeys
    BY <2>1, TreatmentIs DEF ContextManagement
  <2>3. j \in 1..(n - 1) /\ Tail(p)[j] = p[j + 1]
    BY <1>1, <1>2
  <2>4. 1 \in DOMAIN p /\ j + 1 \in DOMAIN p /\ 1 < j + 1
    BY <1>2, <2>3
  <2>5. \E i, k \in DOMAIN p : i < k /\ p[i] = "context_management" /\ p[k] \in ProtocolKeys
    BY <1>6, <2>2, <2>3, <2>4
  <2> QED
    BY <2>5 DEF Opaque
<1>7. CASE p[1] = "model"
  BY <1>7 DEF Opaque
<1>8. CASE p[1] \in {"system", "output_config", "extra"}
  BY <1>8, TreatmentIs DEF AnthropicWalk
<1> QED
  BY <1>2, <1>3, <1>4, <1>5, <1>6, <1>7, <1>8 DEF AnthropicShape

\* Inline data is opaque.
LEMMA Data64Opaque ==
    ASSUME NEW p \in Seq(STRING), NEW j \in DOMAIN p, p[j] = "data64"
    PROVE  Opaque(p)
<1>1. "data64" \in ToSet(p)
  BY DEF ToSet
<1> QED
  BY <1>1 DEF Opaque

\* The fallback walk masks, or does what the first name that decides says.
LEMMA FallbackIs ==
    ASSUME NEW p \in Seq(STRING)
    PROVE  \/ /\ \A j \in DOMAIN p : ~Decides(p, j)
              /\ FallbackWalk(p).do = "mask"
           \/ \E i \in DOMAIN p : /\ Decides(p, i) /\ \A j \in DOMAIN p : Decides(p, j) => i <= j
                                 /\ FallbackWalk(p) = FallbackFrom(p, i)
<1> DEFINE T == {j \in DOMAIN p : Decides(p, j)}
<1>1. PICK n \in Nat : n = Len(p)
  OBVIOUS
<1>2. PICK i : i = FirstOf(T)
  OBVIOUS
<1>3. FallbackWalk(p) = IF i = 0 THEN Mask(IF "tools" \in ToSet(p) THEN "system" ELSE "user") ELSE FallbackFrom(p, i)
  BY <1>2 DEF FallbackWalk
<1>4. T \subseteq 1..n
  BY <1>1
<1>5. (T = {} /\ i = 0) \/ (i \in T /\ \A j \in T : i <= j)
  <2> HIDE DEF T
  <2> QED
    BY <1>2, <1>4, FirstIs
<1>6. CASE T = {} /\ i = 0
  BY <1>3, <1>6, TreatmentIs
<1>7. CASE i \in T /\ \A j \in T : i <= j
  <2>1. i # 0
    BY <1>1, <1>7
  <2> QED
    BY <1>3, <1>7, <2>1
<1> QED
  BY <1>5, <1>6, <1>7

\* A tool's part stands under "tools".
LEMMA OfToolIs ==
    ASSUME NEW p \in Seq(STRING), NEW j \in DOMAIN p, OfTool(p, j)
    PROVE  j > 1 /\ p[j - 1] = "tools"
<1>1. j \in Nat
  OBVIOUS
<1>2. PICK k \in 1..(j - 1) : \A m \in k..(j - 1) : p[m] = "tools"
  BY DEF OfTool
<1> QED
  BY <1>1, <1>2

\* What the fallback walk leaves alone is opaque.
LEMMA FallbackSkips ==
    ASSUME NEW p \in Paths["anthropic"], FallbackWalk(p).do = "skip"
    PROVE  Opaque(p)
<1>1. PICK n \in Nat : n = Len(p)
  BY WalkIs DEF Wire
<1>2. p \in Seq(STRING) /\ n > 0 /\ DOMAIN p = 1..n
  BY <1>1, WalkIs DEF Wire
<1>3. PICK i \in DOMAIN p : FallbackWalk(p) = FallbackFrom(p, i)
  BY <1>2, FallbackIs, TreatmentIs
<1>4. CASE p[i] = "data64"
  BY <1>2, <1>3, <1>4, Data64Opaque
<1>5. CASE ToolTag(p, i)
  <2>1. i > 1 /\ p[i - 1] = "tools"
    BY <1>2, <1>3, <1>5, OfToolIs DEF ToolTag
  <2> QED
    BY <1>3, <1>5, <2>1 DEF Opaque, ToolTag
<1>6. CASE p[i] # "data64" /\ ~ToolTag(p, i) /\ p[i] = "context_management"
  <2>1. PICK q : q = SubSeq(p, i + 1, Len(p))
    OBVIOUS
  <2>2. ContextManagement(q).do = "skip"
    BY <1>3, <1>6, <2>1 DEF FallbackFrom
  <2>3. PICK j \in DOMAIN q : q[j] \in ProtocolKeys
    BY <2>2, TreatmentIs DEF ContextManagement
  <2>4. i \in 1..n
    BY <1>2, <1>3
  <2>5. i < n
    <3> SUFFICES ASSUME i = n PROVE FALSE
      BY <2>4
    <3>1. SubSeq(p, n + 1, n) = <<>>
      BY <1>2
    <3> QED
      BY <1>1, <2>1, <2>3, <3>1
  <2>6. Len(q) = n - i /\ q \in Seq(STRING) /\ \A m \in 1..(n - i) : q[m] = p[i + m]
    <3>1. /\ i + 1 \in Nat /\ 1 <= i + 1 /\ i + 1 <= Len(p)
      BY <1>1, <2>4, <2>5
    <3>2. /\ SubSeq(p, i + 1, Len(p)) \in Seq(STRING) /\ Len(SubSeq(p, i + 1, Len(p))) = Len(p) + 1 - (i + 1)
          /\ \A m \in 1..(Len(p) + 1 - (i + 1)) : SubSeq(p, i + 1, Len(p))[m] = p[(i + 1) + m - 1]
      BY <1>2, <3>1, RestIs
    <3>3. Len(p) + 1 - (i + 1) = n - i
      BY <1>1, <2>4
    <3>4. /\ q \in Seq(STRING) /\ Len(q) = n - i
          /\ \A m \in 1..(n - i) : q[m] = p[(i + 1) + m - 1]
      BY <2>1, <3>2, <3>3
    <3>5. \A m \in 1..(n - i) : (i + 1) + m - 1 = i + m
      BY <2>4
    <3> QED
      BY <3>4, <3>5
  <2>7. j \in 1..(n - i) /\ p[i + j] \in ProtocolKeys
    BY <2>3, <2>6
  <2>8. i + j \in DOMAIN p /\ i < i + j
    BY <1>2, <2>4, <2>7
  <2>9. \E a, b \in DOMAIN p : a < b /\ p[a] = "context_management" /\ p[b] \in ProtocolKeys
    BY <1>3, <1>6, <2>7, <2>8
  <2> QED
    BY <2>9 DEF Opaque
<1> QED
  BY <1>3, <1>4, <1>5, <1>6, TreatmentIs DEF FallbackFrom

\* So is inline data further down a path.
LEMMA LaterData64 ==
    ASSUME NEW p \in Seq(STRING), NEW k \in Nat, 1 <= k, k <= Len(p), NEW q, q = SubSeq(p, k, Len(p)),
           NEW j \in DOMAIN q, q[j] = "data64"
    PROVE  Opaque(p)
<1>1. Len(p) \in Nat
  OBVIOUS
<1>2. q \in Seq(STRING) /\ Len(q) = Len(p) + 1 - k
  BY RestIs
<1>3. \A m \in 1..(Len(p) + 1 - k) : q[m] = p[k + m - 1]
  BY RestIs
<1>4. j \in 1..(Len(p) + 1 - k)
  BY <1>2
<1>5. k + j - 1 \in DOMAIN p
  BY <1>1, <1>4
<1>6. p[k + j - 1] = "data64"
  BY <1>3, <1>4
<1> QED
  BY <1>5, <1>6, Data64Opaque

\* What the chat walk leaves alone is opaque.
LEMMA ChatSkips ==
    ASSUME NEW p \in Paths["chat"], ChatWalk(p).do = "skip"
    PROVE  Opaque(p)
<1>1. PICK n \in Nat : n = Len(p)
  BY WalkIs DEF Wire
<1>2. p \in Seq(STRING) /\ n > 0 /\ DOMAIN p = 1..n /\ ChatShape(p)
  BY <1>1, WalkIs DEF Wire, Shape
<1>3. CASE p[1] = "messages"
  <2>1. /\ n > 2 /\ p[2] \in Roles
        /\ \/ p[3] \in {"content", "name", "extra"}
           \/ p[3] = "image_url" /\ n > 3
           \/ p[3] = "tool_call_id" /\ n = 3
           \/ p[3] = "tool_calls" /\ n = 4 /\ p[4] \in Ids \cup {"arguments"}
    BY <1>1, <1>2, <1>3 DEF ChatShape
  <2>2. PICK q : q = SubSeq(p, 3, Len(p))
    OBVIOUS
  <2>3. q \in Seq(STRING) /\ Len(q) = n - 2
    BY <1>1, <1>2, <2>1, <2>2, RestIs
  <2>4. q[1] = p[3] /\ (n > 3 => q[2] = p[4]) /\ q[n - 2] = p[n]
    BY <1>1, <1>2, <2>1, <2>2, RestIs
  <2>5. ChatMessage(q, p[2]).do = "skip"
    BY <1>3, <2>2 DEF ChatWalk
  <2>6. ASSUME NEW surface, ValueSafe(q, ChatContract, surface).do = "skip" PROVE Opaque(p)
    <3>1. PICK j \in DOMAIN q : q[j] = "data64"
      BY <2>3, <2>6, ValueSafeIs, TreatmentIs
    <3> QED
      BY <1>1, <1>2, <2>1, <2>2, <3>1, LaterData64
  <2>7. ASSUME n \in {3, 4}, p[n] \in Ids, p[n - 1] \notin {"input", "extra"} PROVE Opaque(p)
    <3>1. Len(p) > 1 /\ p[Len(p)] \in Ids /\ p[Len(p) - 1] \notin {"input", "extra"}
      BY <1>1, <2>7
    <3> QED
      BY <3>1 DEF Opaque
  <2>8. CASE p[3] \in {"content", "name"}
    BY <2>4, <2>5, <2>8, TreatmentIs DEF ChatMessage
  <2>9. CASE p[3] = "extra"
    BY <2>4, <2>5, <2>6, <2>9 DEF ChatMessage
  <2>10. CASE p[3] = "image_url"
    <3>1. CASE q[2] = "extra"
      BY <2>4, <2>5, <2>6, <2>10, <3>1 DEF ChatMessage
    <3>2. CASE q[2] # "extra"
      <4>1. ChatMessage(q, p[2]) = Linked(q, RoleSurface("chat", p[2]))
        BY <2>4, <2>10, <3>2 DEF ChatMessage
      <4>2. q[Len(q)] = "data64"
        BY <2>5, <4>1, LinkedIs, TreatmentIs
      <4>3. n \in DOMAIN p /\ p[n] = "data64"
        BY <1>2, <2>3, <2>4, <4>2
      <4> QED
        BY <1>2, <4>3, Data64Opaque
    <3> QED
      BY <3>1, <3>2
  <2>11. CASE p[3] = "tool_call_id"
    <3>1. n = 3 /\ p[3] \in Ids
      BY <2>1, <2>11 DEF Ids
    <3>2. p[2] \notin {"input", "extra"}
      BY <2>1 DEF Roles
    <3> QED
      BY <2>7, <3>1, <3>2
  <2>12. CASE p[3] = "tool_calls"
    <3>1. n = 4 /\ p[4] \in Ids
      BY <2>1, <2>4, <2>5, <2>12, TreatmentIs DEF ChatMessage
    <3> QED
      BY <2>7, <2>12, <3>1
  <2> QED
    BY <2>1, <2>8, <2>9, <2>10, <2>11, <2>12
<1>4. CASE p[1] = "extra"
  <2>1. ValueSafe(p, ChatContract, "user").do = "skip"
    BY <1>4 DEF ChatWalk
  <2>2. PICK j \in DOMAIN p : p[j] = "data64"
    BY <1>2, <2>1, ValueSafeIs, TreatmentIs
  <2> QED
    BY <1>2, <2>2, Data64Opaque
<1>5. CASE p[1] \in {"user", "model"}
  BY <1>5 DEF Opaque
<1>6. CASE p[1] \in {"tools", "response_format", "tool_choice", "guided_regex", "guided_grammar",
                     "guided_choice"}
  BY <1>6, TreatmentIs DEF ChatWalk
<1> QED
  BY <1>2, <1>3, <1>4, <1>5, <1>6 DEF ChatShape

\* A part of a message of the Responses API: base64 data and files are skipped.
LEMMA PartIs ==
    ASSUME NEW q \in Seq(STRING), q # <<>>, NEW surface
    PROVE  \/ ResponsesPart(q, surface) = Scan
           \/ ResponsesPart(q, surface) \in {Mask(surface), Mask("assistant")}
           \/ ResponsesPart(q, surface) = Skip /\ (q[1] = "file" \/ \E j \in DOMAIN q : q[j] = "data64")
<1>1. PICK n \in Nat : n = Len(q)
  OBVIOUS
<1>2. n > 0 /\ DOMAIN q = 1..n
  BY <1>1
<1>3. CASE n > 1 /\ q[2] = "extra"
  <2>1. PICK on : on = IF q[1] = "refusal" THEN "assistant" ELSE surface
    OBVIOUS
  <2>2. ResponsesPart(q, surface) = ValueSafe(Tail(q), ResponsesContract, on)
    BY <1>1, <1>3, <2>1 DEF ResponsesPart
  <2>3. PICK t : t = Tail(q)
    OBVIOUS
  <2>4. t \in Seq(STRING) /\ DOMAIN t = 1..(n - 1) /\ \A j \in 1..(n - 1) : t[j] = q[j + 1]
    BY <1>1, <1>2, <2>3
  <2>5. CASE ValueSafe(t, ResponsesContract, on) = Skip /\ \E j \in DOMAIN t : t[j] = "data64"
    <3>1. PICK j \in DOMAIN t : t[j] = "data64"
      BY <2>5
    <3>2. j + 1 \in DOMAIN q /\ q[j + 1] = "data64"
      BY <1>2, <2>4, <3>1
    <3> QED
      BY <2>2, <2>3, <2>5, <3>2
  <2>6. CASE ValueSafe(t, ResponsesContract, on) = Mask(on)
    BY <2>1, <2>2, <2>3, <2>6
  <2>7. CASE ValueSafe(t, ResponsesContract, on) = Scan
    BY <2>2, <2>3, <2>7
  <2> QED
    BY <2>4, <2>5, <2>6, <2>7, ValueSafeIs
<1>4. CASE ~(n > 1 /\ q[2] = "extra")
  <2>1. CASE q[1] = "output_text"
    BY <1>1, <1>4, <2>1 DEF ResponsesPart
  <2>2. CASE q[1] = "refusal"
    BY <1>1, <1>4, <2>2 DEF ResponsesPart
  <2>3. CASE q[1] = "image"
    <3>1. ResponsesPart(q, surface) = Linked(q, surface)
      BY <1>1, <1>4, <2>3 DEF ResponsesPart
    <3>2. Len(q) \in DOMAIN q
      BY <1>1, <1>2
    <3> QED
      BY <3>1, <3>2, LinkedIs
  <2>4. CASE q[1] = "file"
    BY <1>1, <1>4, <2>4 DEF ResponsesPart
  <2>5. CASE q[1] \notin {"output_text", "refusal", "image", "file"}
    <3>1. ResponsesPart(q, surface) = ValueSafe(q, ResponsesContract, surface)
      BY <1>1, <1>4, <2>5 DEF ResponsesPart
    <3> QED
      BY <3>1, ValueSafeIs
  <2> QED
    BY <2>1, <2>2, <2>3, <2>4, <2>5
<1> QED
  BY <1>3, <1>4

\* Where the fields of an input item of the Responses API are masked, scanned and skipped.
LEMMA InputIs ==
    ASSUME NEW p \in Paths["responses"], p[1] = "input"
    PROVE  \/ ResponsesWalk(p) = Scan
           \/ ResponsesWalk(p) = Skip /\ Opaque(p)
           \/ \E s : /\ ResponsesWalk(p) = Mask(s)
                     /\ s = "user" => ~NotTheUsers(p)
<1>1. PICK n \in Nat : n = Len(p)
  BY WalkIs DEF Wire
<1>2. p \in Seq(STRING) /\ n > 0 /\ DOMAIN p = 1..n /\ ResponsesShape(p)
  BY <1>1, WalkIs DEF Wire, Shape
<1>3. PICK q : q = Tail(p)
  OBVIOUS
<1>4. q \in Seq(STRING) /\ Len(q) = n - 1 /\ \A j \in 1..(n - 1) : q[j] = p[j + 1]
  BY <1>1, <1>2, <1>3
<1>5. ResponsesWalk(p) = ResponsesInput(q)
  BY <1>3 DEF ResponsesWalk
<1>6. CASE n = 1
  <2>1. q = <<>>
    BY <1>4, <1>6
  <2>2. ResponsesWalk(p) = Mask("user")
    BY <1>5, <2>1 DEF ResponsesInput
  <2>3. ~NotTheUsers(p)
    BY <1>1, <1>6 DEF NotTheUsers
  <2> QED
    BY <2>2, <2>3
<1>7. CASE n > 1
  <2>1. q # <<>> /\ q[1] = p[2] /\ (n > 2 => q[2] = p[3]) /\ (n > 3 => q[3] = p[4])
    BY <1>4, <1>7
  <2>2. /\ p[2] = "message" => n > 3
        /\ p[2] \in {"function_call", "function_call_output"} =>
               /\ n > 2 /\ p[3] \in Ids \cup {"arguments", "output", "extra"}
               /\ p[3] \in Ids => n = 3
    BY <1>1, <1>2, <1>7 DEF ResponsesShape
  <2>3. CASE p[2] = "message"
    <3>1. PICK role, surface : role = p[3] /\ surface = RoleSurface("responses", role)
      OBVIOUS
    <3>2. PICK r : r = SubSeq(q, 3, Len(q))
      OBVIOUS
    <3>3. n > 3 /\ Len(q) >= 3
      BY <1>4, <2>2, <2>3
    <3>4. r \in Seq(STRING) /\ Len(r) = n - 3
      BY <1>4, <3>2, <3>3, RestIs
    <3>5. \A j \in 1..(n - 3) : r[j] = q[3 + j - 1]
      BY <1>4, <3>2, <3>3, RestIs
    <3>6. r # <<>> /\ r[1] = p[4]
      BY <2>1, <3>3, <3>4, <3>5
    <3>7. ResponsesWalk(p) = ResponsesPart(r, surface)
      BY <1>5, <2>1, <2>3, <3>1, <3>2, <3>3 DEF ResponsesInput
    <3>8. NotTheUsers(p) => surface # "user"
      <4>1. NotTheUsers(p) => role \in {"assistant", "system", "developer", "tool"}
        BY <2>3, <3>1 DEF NotTheUsers
      <4> QED
        BY <3>1, <4>1 DEF RoleSurface
    <3>9. CASE ResponsesPart(r, surface) = Skip /\ (r[1] = "file" \/ \E j \in DOMAIN r : r[j] = "data64")
      <4>1. CASE r[1] = "file"
        <5>1. p[1] = "input" /\ Len(p) > 3 /\ p[2] = "message" /\ p[4] = "file"
          BY <1>1, <2>3, <3>3, <3>6, <4>1
        <5> QED
          BY <3>7, <3>9, <5>1 DEF Opaque
      <4>2. CASE \E j \in DOMAIN r : r[j] = "data64"
        <5>1. PICK j \in DOMAIN r : r[j] = "data64"
          BY <4>2
        <5>2. j \in 1..(n - 3) /\ p[j + 3] = "data64"
          <6>1. j \in 1..(n - 3)
            BY <3>4, <5>1
          <6>2. r[j] = q[j + 2] /\ q[j + 2] = p[j + 3]
            BY <1>4, <3>5, <6>1
          <6> QED
            BY <5>1, <6>1, <6>2
        <5>3. j + 3 \in DOMAIN p
          BY <1>2, <5>2
        <5> QED
          BY <1>2, <3>7, <3>9, <5>2, <5>3, Data64Opaque
      <4> QED
        BY <3>9, <4>1, <4>2
    <3>10. CASE ResponsesPart(r, surface) \in {Mask(surface), Mask("assistant")}
      BY <3>7, <3>8, <3>10
    <3>11. CASE ResponsesPart(r, surface) = Scan
      BY <3>7, <3>11
    <3> QED
      BY <3>4, <3>6, <3>9, <3>10, <3>11, PartIs
  <2>4. CASE p[2] \in {"function_call", "function_call_output"}
    <3>1. PICK surface : surface = IF p[2] = "function_call" THEN "tool_input" ELSE "tool_result"
      OBVIOUS
    <3>2. ResponsesWalk(p) = CASE p[3] \in {"arguments", "output"} -> Mask(surface)
                               [] p[3] = "extra" -> ValueSafe(Tail(q), ResponsesContract, surface)
                               [] OTHER -> Skip
      BY <1>5, <2>1, <2>2, <2>4, <3>1 DEF ResponsesInput
    <3>3. surface # "user"
      BY <3>1
    <3>4. CASE p[3] \in {"arguments", "output"}
      BY <3>2, <3>3, <3>4
    <3>5. CASE p[3] = "extra"
      <4>1. PICK t : t = Tail(q)
        OBVIOUS
      <4>2. t \in Seq(STRING) /\ Len(t) = n - 2 /\ \A j \in 1..(n - 2) : t[j] = q[j + 1]
        BY <1>4, <2>2, <2>4, <4>1
      <4>3. ResponsesWalk(p) = ValueSafe(t, ResponsesContract, surface)
        BY <3>2, <3>5, <4>1
      <4>4. CASE ValueSafe(t, ResponsesContract, surface) = Skip /\ \E j \in DOMAIN t : t[j] = "data64"
        <5>1. PICK j \in DOMAIN t : t[j] = "data64"
          BY <4>4
        <5>2. j \in 1..(n - 2)
          BY <2>2, <2>4, <4>2, <5>1
        <5>3. p[j + 2] = "data64" /\ j + 2 \in DOMAIN p
          BY <1>2, <1>4, <4>2, <5>1, <5>2
        <5> QED
          BY <1>2, <4>3, <4>4, <5>3, Data64Opaque
      <4>5. CASE ValueSafe(t, ResponsesContract, surface) \in {Mask(surface), Scan}
        BY <3>3, <4>3, <4>5
      <4> QED
        BY <4>2, <4>4, <4>5, ValueSafeIs
    <3>6. CASE p[3] \in Ids /\ n = 3
      <4>1. Len(p) > 1 /\ p[Len(p)] \in Ids /\ p[Len(p) - 1] \notin {"input", "extra"}
        BY <1>1, <2>4, <3>6
      <4>2. Opaque(p)
        BY <4>1 DEF Opaque
      <4>3. ResponsesWalk(p) = Skip
        BY <3>2, <3>6 DEF Ids
      <4> QED
        BY <4>2, <4>3
    <3> QED
      BY <2>2, <2>4, <3>4, <3>5, <3>6
  <2>5. CASE p[2] \notin {"message", "function_call", "function_call_output"}
    <3>1. ResponsesWalk(p) = ValueSafe(q, ResponsesContract, "user")
      BY <1>5, <2>1, <2>5 DEF ResponsesInput
    <3>2. ~NotTheUsers(p)
      BY <2>5 DEF NotTheUsers
    <3>3. CASE ValueSafe(q, ResponsesContract, "user") = Skip /\ \E j \in DOMAIN q : q[j] = "data64"
      <4>1. PICK j \in DOMAIN q : q[j] = "data64"
        BY <3>3
      <4>2. j + 1 \in DOMAIN p /\ p[j + 1] = "data64"
        BY <1>2, <1>4, <4>1
      <4> QED
        BY <1>2, <3>1, <3>3, <4>2, Data64Opaque
    <3>4. CASE ValueSafe(q, ResponsesContract, "user") \in {Mask("user"), Scan}
      BY <3>1, <3>2, <3>4
    <3> QED
      BY <1>4, <3>3, <3>4, ValueSafeIs
  <2> QED
    BY <2>3, <2>4, <2>5
<1> QED
  BY <1>2, <1>6, <1>7

\* What the responses walk leaves alone is opaque.
LEMMA ResponsesSkips ==
    ASSUME NEW p \in Paths["responses"], ResponsesWalk(p).do = "skip"
    PROVE  Opaque(p)
<1>1. p \in Seq(STRING) /\ ResponsesShape(p)
  BY WalkIs DEF Wire, Shape
<1>2. CASE p[1] = "input"
  BY <1>2, InputIs, TreatmentIs
<1>3. CASE p[1] \in {"metadata", "extra"}
  <2>1. ValueSafe(p, ResponsesContract, "user").do = "skip"
    BY <1>3 DEF ResponsesWalk
  <2>2. PICK j \in DOMAIN p : p[j] = "data64"
    BY <1>1, <2>1, ValueSafeIs, TreatmentIs
  <2> QED
    BY <1>1, <2>2, Data64Opaque
<1>4. CASE p[1] \in {"user", "model"}
  BY <1>4 DEF Opaque
<1>5. CASE p[1] \in {"instructions", "tools", "text", "response_format", "tool_choice", "reasoning"}
  BY <1>5, TreatmentIs DEF ResponsesWalk
<1> QED
  BY <1>1, <1>2, <1>3, <1>4, <1>5 DEF ResponsesShape

\* Whatever is neither masked nor scanned passes by design, or the typed walk of Anthropic's
\* does not read it.
LEMMA WalkSkips ==
    ASSUME NEW w \in Wire, NEW fits \in BOOLEAN, NEW p \in Paths[w], Walk(w, fits, p).do = "skip"
    PROVE  Opaque(p) \/ (w = "anthropic" /\ fits /\ Unread(p))
<1>1. CASE w = "chat"
  BY <1>1, ChatSkips DEF Walk
<1>2. CASE w = "responses"
  BY <1>2, ResponsesSkips DEF Walk
<1>3. CASE w = "anthropic" /\ fits
  BY <1>3, AnthropicSkips DEF Walk
<1>4. CASE w = "anthropic" /\ ~fits
  BY <1>4, FallbackSkips DEF Walk
<1> QED
  BY <1>1, <1>2, <1>3, <1>4 DEF Wire

\* The mask of one surface is not another's.
LEMMA MaskIs ==
    ASSUME NEW s, NEW t, t = Mask(s)
    PROVE  t.do = "mask" /\ t.on = s
  BY DEF Mask

\* The surface of what the user did not write is never the user's, which alone
\* honours the bypass markers: the messages walk.
LEMMA AnthropicSurface ==
    ASSUME NEW p \in Paths["anthropic"], NotTheUsers(p), AnthropicWalk(p).do = "mask"
    PROVE  AnthropicWalk(p).on # "user"
<1>1. PICK n \in Nat : n = Len(p)
  BY WalkIs DEF Wire
<1>2. p \in Seq(STRING) /\ n > 0 /\ DOMAIN p = 1..n /\ AnthropicShape(p)
  BY <1>1, WalkIs DEF Wire, Shape
<1>3. CASE p[1] = "messages"
  <2>1. n > 3 /\ p[2] \in {"user", "assistant"} /\ p[3] # "tool_calls"
    BY <1>1, <1>2, <1>3 DEF AnthropicShape
  <2>2. PICK q : q = SubSeq(p, 3, Len(p))
    OBVIOUS
  <2>3. q[1] = p[3]
    BY <1>1, <1>2, <2>1, <2>2, RestIs
  <2>4. PICK t : t = Block(q, p[2])
    OBVIOUS
  <2>5. AnthropicWalk(p) = t
    BY <1>3, <2>2, <2>4 DEF AnthropicWalk
  <2>6. p[3] \notin {"image", "document"}
    BY <1>3 DEF NotTheUsers
  <2>7. p[2] = "assistant" \/ p[3] \in {"tool_use", "tool_result", "compaction"}
    BY <1>3, <2>1 DEF NotTheUsers
  <2>8. t = Scan \/ t = Skip \/ \E s : t = Mask(s) /\ s # "user"
    <3>1. CASE p[3] = "text"
      <4>1. RoleSurface("anthropic", p[2]) = "assistant"
        BY <2>7, <3>1 DEF RoleSurface
      <4> QED
        BY <2>3, <2>4, <3>1, <4>1, BlockIs
    <3>2. CASE p[3] # "text"
      BY <2>3, <2>4, <2>6, <3>2, BlockIs
    <3> QED
      BY <3>1, <3>2
  <2> QED
    BY <2>5, <2>8, MaskIs, TreatmentIs
<1>4. CASE p[1] = "system"
  <2>1. AnthropicWalk(p) = Scan \/ AnthropicWalk(p) = Mask("system")
    BY <1>4 DEF AnthropicWalk
  <2> QED
    BY <2>1, MaskIs, TreatmentIs
<1>5. CASE p[1] \notin {"messages", "system"}
  BY <1>2, <1>5 DEF NotTheUsers, AnthropicShape
<1> QED
  BY <1>3, <1>4, <1>5

\* The chat walk.
LEMMA ChatSurface ==
    ASSUME NEW p \in Paths["chat"], NotTheUsers(p), ChatWalk(p).do = "mask"
    PROVE  ChatWalk(p).on # "user"
<1>1. PICK n \in Nat : n = Len(p)
  BY WalkIs DEF Wire
<1>2. p \in Seq(STRING) /\ n > 0 /\ DOMAIN p = 1..n /\ ChatShape(p)
  BY <1>1, WalkIs DEF Wire, Shape
<1>3. CASE p[1] = "messages"
  <2>1. /\ n > 2 /\ p[2] \in Roles
        /\ \/ p[3] \in {"content", "name", "extra"}
           \/ p[3] = "image_url" /\ n > 3
           \/ p[3] = "tool_call_id"
           \/ p[3] = "tool_calls" /\ n = 4
    BY <1>1, <1>2, <1>3 DEF ChatShape
  <2>2. PICK q : q = SubSeq(p, 3, Len(p))
    OBVIOUS
  <2>3. q \in Seq(STRING)
    BY <1>1, <1>2, <2>1, <2>2, RestIs
  <2>4. q[1] = p[3] /\ (n > 3 => q[2] = p[4])
    BY <1>1, <1>2, <2>1, <2>2, RestIs
  <2>5. PICK t : t = ChatMessage(q, p[2])
    OBVIOUS
  <2>6. ChatWalk(p) = t
    BY <1>3, <2>2, <2>5 DEF ChatWalk
  <2>7. p[3] # "name"
    BY <1>3 DEF NotTheUsers
  <2>8. p[3] = "tool_calls" \/ p[2] \in {"assistant", "system", "developer", "tool"}
    BY <1>3, <2>1 DEF NotTheUsers
  <2>9. PICK s : s = RoleSurface("chat", p[2])
    OBVIOUS
  <2>10. p[3] # "tool_calls" => s # "user"
    BY <2>8, <2>9 DEF RoleSurface
  <2>11. t = Scan \/ t = Skip \/ \E r : t = Mask(r) /\ r # "user"
    <3>1. CASE p[3] = "content"
      <4>1. t = Mask(s)
        BY <2>4, <2>5, <2>9, <3>1 DEF ChatMessage
      <4> QED
        BY <2>10, <3>1, <4>1
    <3>2. CASE p[3] = "extra"
      <4>1. t = ValueSafe(q, ChatContract, s)
        BY <2>4, <2>5, <2>9, <3>2 DEF ChatMessage
      <4> QED
        BY <2>3, <2>10, <3>2, <4>1, ValueSafeIs
    <3>3. CASE p[3] = "image_url"
      <4>1. t = IF q[2] = "extra" THEN ValueSafe(q, ChatContract, s) ELSE Linked(q, s)
        BY <2>4, <2>5, <2>9, <3>3 DEF ChatMessage
      <4>2. s # "user"
        BY <2>10, <3>3
      <4> QED
        BY <2>3, <4>1, <4>2, ValueSafeIs, LinkedIs
    <3>4. CASE p[3] = "tool_call_id"
      BY <2>4, <2>5, <3>4 DEF ChatMessage
    <3>5. CASE p[3] = "tool_calls"
      <4>1. t = IF q[2] = "arguments" THEN Mask("tool_input") ELSE Skip
        BY <2>4, <2>5, <3>5 DEF ChatMessage
      <4> QED
        BY <4>1
    <3> QED
      BY <2>1, <2>7, <3>1, <3>2, <3>3, <3>4, <3>5
  <2> QED
    BY <2>6, <2>11, MaskIs, TreatmentIs
<1>4. CASE p[1] # "messages"
  BY <1>2, <1>4 DEF NotTheUsers, ChatShape
<1> QED
  BY <1>3, <1>4

\* The responses walk.
LEMMA ResponsesSurface ==
    ASSUME NEW p \in Paths["responses"], NotTheUsers(p), ResponsesWalk(p).do = "mask"
    PROVE  ResponsesWalk(p).on # "user"
<1>1. p \in Seq(STRING) /\ ResponsesShape(p)
  BY WalkIs DEF Wire, Shape
<1>2. CASE p[1] = "input"
  BY <1>2, InputIs, MaskIs, TreatmentIs
<1>3. CASE p[1] = "instructions"
  <2>1. ResponsesWalk(p) = Mask("system")
    BY <1>3 DEF ResponsesWalk
  <2> QED
    BY <2>1, MaskIs
<1>4. CASE p[1] \notin {"input", "instructions"}
  BY <1>1, <1>4 DEF NotTheUsers, ResponsesShape
<1> QED
  BY <1>2, <1>3, <1>4

\* Through the typed walks what the user did not write is masked as something else.
LEMMA WalkSurface ==
    ASSUME NEW w \in Wire, NEW p \in Paths[w], NotTheUsers(p), Walk(w, TRUE, p).do = "mask"
    PROVE  Walk(w, TRUE, p).on # "user"
<1>1. CASE w = "chat"
  BY <1>1, ChatSurface DEF Walk
<1>2. CASE w = "responses"
  BY <1>2, ResponsesSurface DEF Walk
<1>3. CASE w = "anthropic"
  BY <1>3, AnthropicSurface DEF Walk
<1> QED
  BY <1>1, <1>2, <1>3 DEF Wire

\* The fallback masks what the typed walk masks, contract keys and binary data aside.
LEMMA FallbackMasks ==
    ASSUME NEW p \in Paths["anthropic"], AnthropicWalk(p).do = "mask",
           ToSet(p) \cap (AnthropicContract \cup {"data64"}) = {},
           \A j \in DOMAIN p \ {1} : p[j] \notin {"tools", "context_management"}
    PROVE  FallbackWalk(p).do = "mask"
<1>1. PICK n \in Nat : n = Len(p)
  BY WalkIs DEF Wire
<1>2. p \in Seq(STRING) /\ n > 0 /\ DOMAIN p = 1..n /\ AnthropicShape(p)
  BY <1>1, WalkIs DEF Wire, Shape
<1>3. ASSUME NEW i \in DOMAIN p, Decides(p, i)
      PROVE  FallbackFrom(p, i).do = "mask"
  <2>1. p[i] \notin AnthropicContract \cup {"data64"}
    BY DEF ToSet
  <2>2. ~ToolTag(p, i)
    <3> SUFFICES ASSUME ToolTag(p, i) PROVE FALSE
      OBVIOUS
    <3>1. i > 1 /\ p[i - 1] = "tools" /\ p[i] \in {"cache_control", "name", "type"}
      BY <1>2, OfToolIs DEF ToolTag
    <3>2. i = 2
      <4>1. i - 1 \in DOMAIN p
        BY <1>2, <3>1
      <4> QED
        BY <1>2, <3>1, <4>1
    <3>3. p[1] = "tools" /\ p[2] \in {"cache_control", "name", "type"}
      BY <3>1, <3>2
    <3>4. AnthropicWalk(p) = Skip
      BY <3>3 DEF AnthropicWalk
    <3> QED
      BY <3>4, TreatmentIs
  <2>3. p[i] = "context_management"
    BY <1>3, <2>1, <2>2 DEF Decides
  <2>4. i = 1
    BY <2>3
  <2>5. FallbackFrom(p, i) = ContextManagement(SubSeq(p, 2, Len(p)))
    <3>1. p[i] # "data64"
      BY <2>3
    <3>2. i + 1 = 2
      BY <2>4
    <3> QED
      BY <2>2, <2>3, <3>1, <3>2 DEF FallbackFrom
  <2>6. AnthropicWalk(p) = ContextManagement(Tail(p))
    BY <2>3, <2>4 DEF AnthropicWalk
  <2>7. SubSeq(p, 2, Len(p)) = Tail(p)
    BY <1>2
  <2> QED
    BY <2>5, <2>6, <2>7
<1> QED
  BY <1>2, <1>3, FallbackIs

-----------------------------------------------------------------------------
(* A body on its way through the walk.                                     *)

\* What a walked leaf has become: t is how the walk treats it, kn whether the secrets' rules were
\* there when the body came, no whether masking is off.
Met(t, kn, no, leaf, done) ==
    /\ t.do = "scan" => ~(kn /\ leaf.what = "secret")
    /\ t.do = "mask" /\ ~leaf.key =>
           /\ leaf.what = "secret" /\ kn => done = "token"
           /\ leaf.what = "pii" /\ ~no => done = "token"
           /\ leaf.what = "marked" /\ ~no /\ t.on # "user" => done = "token"

\* A leaf from i on at which the walk is refused.
Refused(i) == \E j \in DOMAIN body : i <= j /\ Treat(body[j]).do = "scan" /\ Hit(body[j])

WalkInv ==
    /\ WalkTypeOK
    /\ sent \in Seq({"token", "verbatim"})
    /\ body = <<>> \/ body \in Bodies(api)
    /\ at <= Len(body) + 1
    /\ phase \in {"idle", "prewarm"} => at = 1
    /\ \A i \in 1..(at - 1) : Met(Treat(body[i]), knew, off, body[i], sent[i])
    /\ warm = "given_up" => phase \in {"walk", "done"} /\ (phase = "walk" => Refused(at))
    /\ status = "sent" => phase = "reply" /\ at > Len(body)

\* A body is a short sequence of leaves with the paths of its wire.
LEMMA BodyIs ==
    ASSUME NEW w \in Wire, NEW b, b = <<>> \/ b \in Bodies(w)
    PROVE  /\ Len(b) \in Nat /\ Len(b) <= MaxLeaves /\ DOMAIN b = 1..Len(b)
           /\ \A i \in DOMAIN b : /\ b[i].path \in Paths[w] /\ b[i].what \in What
                                  /\ b[i].key \in BOOLEAN
<1>1. MaxLeaves \in Nat
  BY WalkAssumption
<1>2. CASE b = <<>>
  BY <1>1, <1>2
<1>3. CASE b \in Bodies(w)
  <2>1. PICK n \in 1..MaxLeaves : b \in [1..n -> LeavesOf(w)]
    BY <1>3 DEF Bodies
  <2>2. n \in Nat /\ n <= MaxLeaves
    BY <1>1, <2>1
  <2>3. DOMAIN b = 1..n /\ b \in Seq(LeavesOf(w)) /\ Len(b) = n
    BY <2>1, <2>2, SeqIs
  <2>4. \A i \in 1..n : b[i] \in LeavesOf(w)
    BY <2>1
  <2>5. \A x \in LeavesOf(w) : x.path \in Paths[w] /\ x.what \in What /\ x.key \in BOOLEAN
    BY DEF LeavesOf, What
  <2> QED
    BY <2>2, <2>3, <2>4, <2>5
<1> QED
  BY <1>2, <1>3

\* Nothing walked yet.
LEMMA WalkInitInv == WalkInit => WalkInv
<1> SUFFICES ASSUME WalkInit PROVE WalkInv
  OBVIOUS
<1>1. MaxLeaves \in Nat
  BY WalkAssumption
<1>2. sent = <<>> /\ body = <<>> /\ at = 1 /\ Len(sent) = 0 /\ DOMAIN sent = {}
  BY DEF WalkInit
<1>3. at \in 1..(MaxLeaves + 1) /\ Len(sent) = at - 1 /\ \A i \in DOMAIN sent : sent[i] \in {"token", "verbatim"}
  BY <1>1, <1>2
<1>4. WalkTypeOK
  BY <1>3 DEF WalkInit, WalkTypeOK
<1> QED
  BY <1>2, <1>4 DEF WalkInit, WalkInv

\* A request comes in.
LEMMA ReceiveInv == WalkInv /\ Receive => WalkInv'
<1> SUFFICES ASSUME WalkInv, Receive PROVE WalkInv'
  OBVIOUS
<1>1. at = 1 /\ at' = 1 /\ sent' = sent /\ api' = api /\ status # "sent"
  BY DEF WalkInv, Receive
<1>2. WalkTypeOK'
  BY <1>1 DEF WalkInv, WalkTypeOK, Receive
<1>3. body' \in Bodies(api)
  BY DEF Receive
<1>4. Len(body') \in Nat
  BY <1>3, BodyIs DEF WalkInv, WalkTypeOK
<1>5. warm' # "given_up"
  BY DEF Receive, WalkInv
<1>6. status' # "sent"
  BY <1>1 DEF Receive
<1> QED
  BY <1>1, <1>2, <1>3, <1>4, <1>5, <1>6 DEF WalkInv

\* The prewarm pass answers, or gives up.
LEMMA PrewarmInv == WalkInv /\ Prewarm => WalkInv'
<1> SUFFICES ASSUME WalkInv, Prewarm PROVE WalkInv'
  OBVIOUS
<1>1. at = 1 /\ at' = 1 /\ status # "sent" /\ UNCHANGED <<api, typed, body, off, registered, knew, sent, status>>
  BY DEF WalkInv, Prewarm
<1>2. WalkTypeOK'
  BY <1>1 DEF WalkInv, WalkTypeOK, Prewarm
<1>3. warm' = "given_up" => \E leaf \in ToSet(body) : Treat(leaf).do = "scan" /\ Hit(leaf)
  BY DEF Prewarm
<1>4. DOMAIN body = 1..Len(body) /\ Len(body) \in Nat
  BY BodyIs DEF WalkInv, WalkTypeOK
<1>5. warm' = "given_up" => Refused(at)
  BY <1>1, <1>3, <1>4 DEF Refused, ToSet
<1>6. Refused(at)' <=> Refused(at)
  BY <1>1 DEF Refused, Treat, Hit
<1> QED
  BY <1>1, <1>2, <1>5, <1>6 DEF WalkInv, Prewarm

\* One leaf masked as the walk says keeps what Met promises.
LEMMA LeafMet ==
    ASSUME WalkInv, NEW leaf, NEW t, NEW done, leaf.key \in BOOLEAN, leaf.what \in What,
           done = IF t.do = "mask" THEN MaskLeaf(leaf, t.on) ELSE "verbatim",
           ~(t.do = "scan" /\ Hit(leaf))
    PROVE  Met(t, knew, off, leaf, done)
<1>1. knew => registered
  BY DEF WalkInv, WalkTypeOK
<1>2. t.do = "scan" => ~(knew /\ leaf.what = "secret")
  BY <1>1 DEF Hit
<1>3. ASSUME t.do = "mask", ~leaf.key
      PROVE  /\ leaf.what = "secret" /\ knew => done = "token"
             /\ leaf.what = "pii" /\ ~off => done = "token"
             /\ leaf.what = "marked" /\ ~off /\ t.on # "user" => done = "token"
  BY <1>1, <1>3 DEF MaskLeaf
<1> QED
  BY <1>2, <1>3 DEF Met

\* One leaf is walked: it is masked, scanned or left alone.
LEMMA WalkLeafInv == WalkInv /\ WalkLeaf => WalkInv'
<1> SUFFICES ASSUME WalkInv, WalkLeaf PROVE WalkInv'
  OBVIOUS
<1>1. phase = "walk" /\ at <= Len(body) /\ UNCHANGED <<api, typed, body, off, registered, knew, warm, reply>>
  BY DEF WalkLeaf
<1>2. Len(body) \in Nat /\ Len(body) <= MaxLeaves /\ DOMAIN body = 1..Len(body)
  BY BodyIs DEF WalkInv, WalkTypeOK
<1>3. MaxLeaves \in Nat /\ at \in Nat /\ at >= 1
  BY WalkAssumption DEF WalkInv, WalkTypeOK
<1>4. at \in DOMAIN body
  BY <1>1, <1>2, <1>3
<1>5. PICK leaf, t : leaf = body[at] /\ t = Treat(leaf)
  OBVIOUS
<1>6. leaf.key \in BOOLEAN /\ leaf.what \in What
  BY <1>4, <1>5, BodyIs DEF WalkInv, WalkTypeOK
<1>7. \A i : Treat(body[i])' = Treat(body[i])
  BY <1>1 DEF Treat
<1>8. CASE t.do = "scan" /\ Hit(leaf)
  <2>1. phase' = "done" /\ status' = "409" /\ UNCHANGED <<at, sent>>
    BY <1>5, <1>8 DEF WalkLeaf
  <2>2. WalkTypeOK'
    BY <1>1, <2>1 DEF WalkInv, WalkTypeOK
  <2> QED
    BY <1>1, <1>7, <2>1, <2>2 DEF WalkInv
<1>9. CASE ~(t.do = "scan" /\ Hit(leaf))
  <2>1. PICK done : done = IF t.do = "mask" THEN MaskLeaf(leaf, t.on) ELSE "verbatim"
    OBVIOUS
  <2>2. sent' = Append(sent, done) /\ at' = at + 1 /\ UNCHANGED <<phase, status>>
    BY <1>5, <1>9, <2>1 DEF WalkLeaf
  <2>3. done \in {"token", "verbatim"}
    BY <1>6, <2>1 DEF MaskLeaf, What
  <2>4. sent \in Seq({"token", "verbatim"}) /\ Len(sent) = at - 1
    BY DEF WalkInv, WalkTypeOK
  <2>5. /\ sent' \in Seq({"token", "verbatim"}) /\ Len(sent') = at' - 1
        /\ sent'[at] = done /\ \A i \in 1..(at - 1) : sent'[i] = sent[i]
    BY <1>3, <2>2, <2>3, <2>4
  <2>6. at' <= Len(body') + 1 /\ at' \in 1..(MaxLeaves + 1)
    BY <1>1, <1>2, <1>3, <2>2
  <2>7. WalkTypeOK'
    <3>1. \A i \in DOMAIN sent' : sent'[i] \in {"token", "verbatim"}
      BY <2>5
    <3> QED
      BY <1>1, <2>2, <2>5, <2>6, <3>1 DEF WalkInv, WalkTypeOK
  <2>8. Met(t, knew, off, leaf, done)
    BY <1>6, <1>9, <2>1, LeafMet
  <2>9. \A i \in 1..(at' - 1) : Met(Treat(body[i]), knew, off, body[i], sent'[i])
    <3> SUFFICES ASSUME NEW i \in 1..(at' - 1) PROVE Met(Treat(body[i]), knew, off, body[i], sent'[i])
      OBVIOUS
    <3>1. CASE i = at
      BY <1>5, <2>5, <2>8, <3>1
    <3>2. CASE i # at
      <4>1. i \in 1..(at - 1)
        BY <1>3, <2>2, <3>2
      <4> QED
        BY <2>5, <4>1 DEF WalkInv
    <3> QED
      BY <3>1, <3>2
  <2>10. (\A i \in 1..(at - 1) : Met(Treat(body[i]), knew, off, body[i], sent[i]))'
    BY <1>1, <1>7, <2>9
  <2>11. Refused(at) => Refused(at)'
    <3> SUFFICES ASSUME Refused(at) PROVE Refused(at)'
      OBVIOUS
    <3>1. PICK j \in DOMAIN body : at <= j /\ Treat(body[j]).do = "scan" /\ Hit(body[j])
      BY DEF Refused
    <3>2. j # at
      BY <1>5, <1>9, <3>1
    <3>3. at + 1 <= j
      BY <1>2, <1>3, <3>1, <3>2
    <3>4. Hit(body[j])' /\ Treat(body[j])' = Treat(body[j])
      BY <1>1, <1>7, <3>1 DEF Hit
    <3> QED
      BY <1>1, <2>2, <3>1, <3>3, <3>4 DEF Refused
  <2>12. status' # "sent"
    BY <1>1, <2>2 DEF WalkInv
  <2> QED
    BY <1>1, <1>3, <2>2, <2>5, <2>6, <2>7, <2>10, <2>11, <2>12 DEF WalkInv
<1> QED
  BY <1>8, <1>9

\* The walked body is sent.
LEMMA ForwardInv == WalkInv /\ Forward => WalkInv'
<1> SUFFICES ASSUME WalkInv, Forward PROVE WalkInv'
  OBVIOUS
<1>1. /\ phase = "walk" /\ at > Len(body) /\ phase' = "reply" /\ status' = "sent"
      /\ UNCHANGED <<api, typed, body, off, registered, knew, at, warm, sent, reply>>
  BY DEF Forward
<1>2. WalkTypeOK'
  BY <1>1 DEF WalkInv, WalkTypeOK
<1>3. Len(body) \in Nat /\ DOMAIN body = 1..Len(body) /\ at \in Int
  BY BodyIs DEF WalkInv, WalkTypeOK
<1>4. ~Refused(at)
  BY <1>1, <1>3 DEF Refused
<1>5. \A i : Treat(body[i])' = Treat(body[i])
  BY <1>1 DEF Treat
<1> QED
  BY <1>1, <1>2, <1>4, <1>5 DEF WalkInv

\* The upstream answers.
LEMMA AnsweredInv == WalkInv /\ Answered => WalkInv'
<1> SUFFICES ASSUME WalkInv, Answered PROVE WalkInv'
  OBVIOUS
<1>1. MaxLeaves \in Nat
  BY WalkAssumption
<1>2. /\ phase' = "restore" /\ status' = "none" /\ body' = <<>> /\ at' = 1 /\ sent' = <<>>
      /\ warm' = "none" /\ off' = FALSE /\ knew' = FALSE /\ typed' = TRUE
      /\ UNCHANGED <<api, registered, reply>>
  BY DEF Answered
<1>3. Len(sent') = 0 /\ DOMAIN sent' = {} /\ Len(body') = 0 /\ sent' \in Seq({"token", "verbatim"})
  BY <1>2
<1>4. /\ at' \in 1..(MaxLeaves + 1) /\ Len(sent') = at' - 1
      /\ \A i \in DOMAIN sent' : sent'[i] \in {"token", "verbatim"}
  BY <1>1, <1>2, <1>3
<1>5. api \in Wire /\ registered \in BOOLEAN
  BY DEF WalkInv, WalkTypeOK
<1>6. WalkTypeOK'
  BY <1>2, <1>4, <1>5 DEF WalkTypeOK
<1> QED
  BY <1>2, <1>3, <1>6 DEF WalkInv

\* A secret is registered while a request is on its way.
LEMMA RegisterInv == WalkInv /\ Register => WalkInv'
<1> SUFFICES ASSUME WalkInv, Register PROVE WalkInv'
  OBVIOUS
<1>1. /\ ~registered /\ registered' = TRUE
      /\ UNCHANGED <<api, typed, body, off, knew, phase, at, warm, sent, status, reply>>
  BY DEF Register
<1>2. WalkTypeOK'
  BY <1>1 DEF WalkInv, WalkTypeOK
<1>3. \A i : Treat(body[i])' = Treat(body[i])
  BY <1>1 DEF Treat
<1>4. Refused(at) => Refused(at)'
  BY <1>1 DEF Refused, Hit
<1> QED
  BY <1>1, <1>2, <1>3, <1>4 DEF WalkInv

\* A part of the reply comes in.
LEMMA RespondInv == WalkInv /\ Respond => WalkInv'
<1> SUFFICES ASSUME WalkInv, Respond PROVE WalkInv'
  OBVIOUS
<1>1. /\ phase = "restore" /\ phase' = "done"
      /\ UNCHANGED <<api, typed, body, off, registered, knew, at, warm, sent, status>>
  BY DEF Respond
<1>2. WalkTypeOK'
  BY <1>1 DEF WalkInv, WalkTypeOK
<1>3. \A i : Treat(body[i])' = Treat(body[i])
  BY <1>1 DEF Treat
<1> QED
  BY <1>1, <1>2, <1>3 DEF WalkInv

\* A leaf of a body that was sent has been walked.
LEMMA SentIs ==
    ASSUME WalkInv, status = "sent", NEW i \in DOMAIN body
    PROVE  /\ body[i].path \in Paths[api] /\ api \in Wire /\ typed \in BOOLEAN
           /\ Treat(body[i]) = Walk(api, typed, body[i].path)
           /\ Met(Treat(body[i]), knew, off, body[i], sent[i])
<1>1. Len(body) \in Nat /\ DOMAIN body = 1..Len(body) /\ body[i].path \in Paths[api]
  BY BodyIs DEF WalkInv, WalkTypeOK
<1>2. at > Len(body) /\ at \in Int
  BY DEF WalkInv, WalkTypeOK
<1>3. i \in 1..(at - 1)
  BY <1>1, <1>2
<1> QED
  BY <1>1, <1>3 DEF WalkInv, WalkTypeOK, Treat

\* A walk masks, scans or skips.
Does(t) == t.do \in {"mask", "scan", "skip"}

\* Every treatment is one of the three: the small walks.
LEMMA SimpleDoes ==
    /\ Does(Scan) /\ Does(Skip) /\ \A s : Does(Mask(s))
    /\ \A p, s : Does(Linked(p, s))
    /\ \A p : Does(ContextManagement(p))
    /\ \A p \in Seq(STRING) : \A contract, s : Does(ValueSafe(p, contract, s))
<1>1. Does(Scan) /\ Does(Skip) /\ \A s : Does(Mask(s))
  BY DEF Does, Scan, Skip, Mask
<1>2. \A p, s : Does(Linked(p, s))
  BY <1>1 DEF Linked
<1>3. \A p : Does(ContextManagement(p))
  BY <1>1 DEF ContextManagement
<1>4. ASSUME NEW p \in Seq(STRING), NEW contract, NEW s PROVE Does(ValueSafe(p, contract, s))
  BY <1>1, ValueSafeIs
<1> QED
  BY <1>1, <1>2, <1>3, <1>4

\* The messages walk and the fallback walk.
LEMMA AnthropicDoes == ASSUME NEW p PROVE Does(AnthropicWalk(p)) /\ Does(FallbackWalk(p))
<1>1. ASSUME NEW q, NEW role PROVE Does(Block(q, role))
  BY BlockIs, SimpleDoes
<1>2. Does(AnthropicWalk(p))
  <2>1. CASE p[1] = "messages"
    BY <1>1, <2>1 DEF AnthropicWalk
  <2>2. CASE p[1] = "tools"
    <3>1. CASE p[2] = "description"
      BY <2>2, <3>1, SimpleDoes DEF AnthropicWalk
    <3>2. CASE p[2] \in {"input_schema", "extra"}
      BY <2>2, <3>2, SimpleDoes DEF AnthropicWalk
    <3>3. CASE p[2] \notin {"description", "input_schema", "extra"}
      BY <2>2, <3>3, SimpleDoes DEF AnthropicWalk
    <3> QED
      BY <3>1, <3>2, <3>3
  <2>3. CASE p[1] = "context_management"
    BY <2>3, SimpleDoes DEF AnthropicWalk
  <2>4. CASE p[1] \in {"system", "metadata", "output_config", "extra"}
    BY <2>4, SimpleDoes DEF AnthropicWalk
  <2>5. CASE p[1] \notin {"messages", "tools", "context_management", "system", "metadata", "output_config", "extra"}
    BY <2>5, SimpleDoes DEF AnthropicWalk
  <2> QED
    BY <2>1, <2>2, <2>3, <2>4, <2>5
<1>3. ASSUME NEW i PROVE Does(FallbackFrom(p, i))
  <2>1. CASE p[i] = "data64" \/ ToolTag(p, i)
    <3>1. p[i] # "context_management"
      BY <2>1 DEF ToolTag
    <3> QED
      BY <2>1, <3>1, SimpleDoes DEF FallbackFrom
  <2>2. CASE ~(p[i] = "data64" \/ ToolTag(p, i)) /\ p[i] = "context_management"
    BY <2>2, SimpleDoes DEF FallbackFrom
  <2>3. CASE ~(p[i] = "data64" \/ ToolTag(p, i)) /\ p[i] # "context_management"
    BY <2>3, SimpleDoes DEF FallbackFrom
  <2> QED
    BY <2>1, <2>2, <2>3
<1>4. Does(FallbackWalk(p))
  <2>1. PICK i : i = FirstOf({j \in DOMAIN p : Decides(p, j)})
    OBVIOUS
  <2>2. FallbackWalk(p) = IF i = 0 THEN Mask(IF "tools" \in ToSet(p) THEN "system" ELSE "user") ELSE FallbackFrom(p, i)
    BY <2>1 DEF FallbackWalk
  <2> QED
    BY <1>3, <2>2, SimpleDoes
<1> QED
  BY <1>2, <1>4

\* The chat walk.
LEMMA ChatDoes == ASSUME NEW p \in Paths["chat"] PROVE Does(ChatWalk(p))
<1>1. PICK n \in Nat : n = Len(p)
  BY WalkIs DEF Wire
<1>2. p \in Seq(STRING) /\ n > 0 /\ ChatShape(p)
  BY <1>1, WalkIs DEF Wire, Shape
<1>3. ASSUME NEW q \in Seq(STRING), NEW role PROVE Does(ChatMessage(q, role))
  <2>1. CASE q[1] \in {"content", "name"}
    BY <2>1, SimpleDoes DEF ChatMessage
  <2>2. CASE q[1] = "image_url"
    <3>1. ChatMessage(q, role) = IF q[2] = "extra" THEN ValueSafe(q, ChatContract, RoleSurface("chat", role))
                                 ELSE Linked(q, RoleSurface("chat", role))
      BY <2>2 DEF ChatMessage
    <3> QED
      BY <3>1, SimpleDoes
  <2>3. CASE q[1] = "tool_call_id"
    <3>1. ChatMessage(q, role) = IF role = "tool" THEN Mask("tool_result") ELSE Skip
      BY <2>3 DEF ChatMessage
    <3> QED
      BY <3>1, SimpleDoes
  <2>4. CASE q[1] = "tool_calls"
    <3>1. ChatMessage(q, role) = IF q[2] = "arguments" THEN Mask("tool_input") ELSE Skip
      BY <2>4 DEF ChatMessage
    <3> QED
      BY <3>1, SimpleDoes
  <2>5. CASE q[1] \notin {"content", "name", "image_url", "tool_call_id", "tool_calls"}
    BY <2>5, SimpleDoes DEF ChatMessage
  <2> QED
    BY <2>1, <2>2, <2>3, <2>4, <2>5
<1>4. CASE p[1] = "messages"
  <2>1. n > 2
    BY <1>1, <1>2, <1>4 DEF ChatShape
  <2>2. SubSeq(p, 3, Len(p)) \in Seq(STRING)
    BY <1>1, <1>2, <2>1, RestIs
  <2> QED
    BY <1>3, <1>4, <2>2 DEF ChatWalk
<1>5. CASE p[1] # "messages"
  BY <1>2, <1>5, SimpleDoes DEF ChatWalk, ChatShape
<1> QED
  BY <1>4, <1>5

\* The responses walk.
LEMMA ResponsesDoes == ASSUME NEW p \in Paths["responses"] PROVE Does(ResponsesWalk(p))
<1>1. p \in Seq(STRING)
  BY WalkIs DEF Wire
<1>2. CASE p[1] = "input"
  BY <1>2, InputIs, SimpleDoes
<1>3. CASE p[1] # "input"
  BY <1>1, <1>3, SimpleDoes DEF ResponsesWalk
<1> QED
  BY <1>2, <1>3

\* Whatever the walk, a leaf is masked, scanned, opaque or unread.
LEMMA DoIs ==
    ASSUME NEW w \in Wire, NEW fits \in BOOLEAN, NEW p \in Paths[w]
    PROVE  Walk(w, fits, p).do \in {"mask", "scan"} \/ Opaque(p) \/ (w = "anthropic" /\ fits /\ Unread(p))
<1>1. PICK t : t = Walk(w, fits, p)
  OBVIOUS
<1>2. Does(t)
  <2>1. CASE w = "chat"
    BY <1>1, <2>1, ChatDoes DEF Walk
  <2>2. CASE w = "responses"
    BY <1>1, <2>2, ResponsesDoes DEF Walk
  <2>3. CASE w = "anthropic"
    BY <1>1, <2>3, AnthropicDoes DEF Walk
  <2> QED
    BY <2>1, <2>2, <2>3 DEF Wire
<1> QED
  BY <1>1, <1>2, WalkSkips DEF Does

\* A registered secret is not sent, by what the walked leaves have become.
LEMMA HomeIs == WalkInv => RegisteredStaysHome
<1> SUFFICES ASSUME WalkInv, status = "sent", knew, NEW i \in DOMAIN body,
                    body[i].what = "secret", ~body[i].key, ~Opaque(body[i].path),
                    ~(api = "anthropic" /\ typed /\ Unread(body[i].path))
             PROVE  sent[i] = "token"
  BY DEF RegisteredStaysHome
<1>1. Treat(body[i]).do \in {"mask", "scan"}
  BY SentIs, DoIs
<1> QED
  BY <1>1, SentIs DEF Met

\* The fallback walk looks at what the wire's own walk looks at.
LEMMA CoversIs == WalkInv => FallbackCovers
<1> SUFFICES ASSUME WalkInv, api = "anthropic", ~typed, status = "sent", ~off, NEW i \in DOMAIN body,
                    body[i].what = "pii", ~body[i].key, AnthropicWalk(body[i].path).do = "mask",
                    ToSet(body[i].path) \cap (AnthropicContract \cup {"data64"}) = {},
                    \A j \in DOMAIN body[i].path \ {1} : body[i].path[j] \notin {"tools", "context_management"}
             PROVE  sent[i] = "token"
  BY DEF FallbackCovers
<1>1. PICK p : p = body[i].path
  OBVIOUS
<1>2. p \in Paths["anthropic"] /\ Treat(body[i]) = FallbackWalk(p)
  BY <1>1, SentIs DEF Walk
<1>3. FallbackWalk(p).do = "mask"
  BY <1>1, <1>2, FallbackMasks
<1> QED
  BY <1>2, <1>3, SentIs DEF Met

\* Only the user's own words may pass a rule of theirs.
LEMMA BypassIs == WalkInv => OnlyUsersBypass
<1> SUFFICES ASSUME WalkInv, status = "sent", ~off, typed, NEW i \in DOMAIN body,
                    body[i].what = "marked", ~body[i].key, sent[i] = "verbatim",
                    Treat(body[i]).do = "mask", NotTheUsers(body[i].path)
             PROVE  FALSE
  BY DEF OnlyUsersBypass
<1>1. typed = TRUE
  BY DEF WalkInv, WalkTypeOK
<1>2. Treat(body[i]).on # "user"
  BY <1>1, SentIs, WalkSurface
<1> QED
  BY <1>2, SentIs DEF Met

\* What the prewarm pass gave up on is refused.
LEMMA GivenUpIs == WalkInv => GivenUpIsRefused
  BY DEF WalkInv, GivenUpIsRefused

-----------------------------------------------------------------------------
(* The parts of a reply: flattened pieces again.                           *)

\* A partial flattening is a prefix of every later one.
Flats(S, ss, n, f) ==
    ss \in Seq(Seq(S)) /\ n \in Nat /\ n = Len(ss) /\ Grows(f, ss, n) /\ \A i \in 0..n : f[i] \in Seq(S)
Agrees(f, g) == \A k \in DOMAIN f : k \in DOMAIN g /\ g[k] = f[k]

\* Partial flattenings are prefixes of the whole.
LEMMA FlatPrefix ==
    ASSUME NEW S, NEW ss, NEW n, NEW f, Flats(S, ss, n, f), NEW i \in 0..n
    PROVE  Agrees(f[i], f[n])
<1> SUFFICES ASSUME NEW k \in DOMAIN f[i] PROVE k \in DOMAIN f[n] /\ f[n][k] = f[i][k]
  BY DEF Agrees
<1>0. ss \in Seq(Seq(S)) /\ n \in Nat /\ n = Len(ss) /\ Grows(f, ss, n) /\ \A x \in 0..n : f[x] \in Seq(S)
  BY DEF Flats
<1> DEFINE Bad == {x \in i..n : ~(k \in DOMAIN f[x] /\ f[x][k] = f[i][k])}
<1>1. Bad = {}
  <2> SUFFICES ASSUME Bad # {} PROVE FALSE
    OBVIOUS
  <2>1. Bad \in SUBSET Nat
    BY <1>0
  <2>2. PICK x \in Bad : \A y \in Bad : x <= y
    BY <2>1, SmallestOf
  <2>3. x \in i..n /\ x # i
    BY <2>2
  <2>4. x \in 1..n /\ x - 1 \in i..n /\ x - 1 \in 0..n /\ ~(x <= x - 1)
    BY <1>0, <2>3
  <2>5. x - 1 \notin Bad
    BY <2>2, <2>4
  <2>6. k \in DOMAIN f[x - 1] /\ f[x - 1][k] = f[i][k]
    BY <2>4, <2>5
  <2>7. PICK a \in Seq(S) : a = f[x - 1]
    BY <1>0, <2>4
  <2>8. PICK b \in Seq(S) : b = ss[x]
    BY <1>0, <2>4
  <2>9. f[x] = a \o b
    BY <1>0, <2>4, <2>7, <2>8 DEF Grows
  <2>10. k \in 1..Len(a)
    BY <2>6, <2>7
  <2>11. k \in DOMAIN (a \o b) /\ (a \o b)[k] = a[k]
    BY <2>10
  <2>12. x \notin Bad
    BY <2>6, <2>7, <2>9, <2>11
  <2> QED
    BY <2>2, <2>12
<1>2. n \in i..n /\ n \notin Bad
  BY <1>0, <1>1
<1> QED
  BY <1>2

\* What a piece contains, the flattened text contains.
LEMMA FlattenHas ==
    ASSUME NEW S, NEW ss \in Seq(Seq(S)), NEW i \in DOMAIN ss, NEW k \in DOMAIN ss[i]
    PROVE  \E j \in DOMAIN FlattenSeq(ss) : FlattenSeq(ss)[j] = ss[i][k]
<1>1. PICK n \in Nat : n = Len(ss)
  OBVIOUS
<1>2. PICK f : Grows(f, ss, n) /\ \A x \in 0..n : f[x] \in Seq(S)
  BY <1>1, FlattenGrows
<1>3. FlattenSeq(ss) = f[n]
  BY <1>1, <1>2, FlattenIs
<1>4. i \in 1..n /\ i - 1 \in 0..n /\ i \in 0..n /\ n \in i..n
  BY <1>1
<1>5. PICK a \in Seq(S) : a = f[i - 1]
  BY <1>2, <1>4
<1>6. PICK b \in Seq(S) : b = ss[i]
  BY <1>4
<1>7. f[i] = a \o b
  BY <1>2, <1>4, <1>5, <1>6 DEF Grows
<1>8. k \in 1..Len(b) /\ Len(a) \in Nat
  BY <1>6
<1>9. Len(a) + k \in DOMAIN f[i] /\ f[i][Len(a) + k] = ss[i][k]
  BY <1>6, <1>7, <1>8
<1>10. Flats(S, ss, n, f)
  BY <1>1, <1>2 DEF Flats
<1>11. Agrees(f[i], f[n])
  BY <1>4, <1>10, FlatPrefix
<1> QED
  BY <1>3, <1>9, <1>11 DEF Agrees

-----------------------------------------------------------------------------
(* A string as it stands in JSON source.                                   *)

Escaped == {Quote, Backslash}
EncMap == [x \in Char |-> IF x \in Escaped THEN <<Backslash, x>> ELSE <<x>>]

\* JSON escaping spells every character as a text.
LEMMA EncSpells == Spells(EncMap, Char, Char)
<1> SUFFICES ASSUME NEW x \in Char PROVE EncMap[x] \in Seq(Char)
  BY DEF Spells
<1>1. Backslash \in Char
  BY DEF Char
<1> QED
  BY <1>1 DEF EncMap

\* A JSON string: the escaped characters between two quotes.
LEMMA EncodedIs ==
    ASSUME NEW s \in Seq(Char)
    PROVE  /\ Spell(EncMap, s) \in Seq(Char)
           /\ Encoded(s) = <<Quote>> \o Spell(EncMap, s) \o <<Quote>>
           /\ Encoded(s) \in Seq(Char)
<1>1. [i \in DOMAIN s |-> IF s[i] \in {Quote, Backslash} THEN <<Backslash, s[i]>> ELSE <<s[i]>>]
      = [i \in DOMAIN s |-> EncMap[s[i]]]
  BY DEF EncMap, Escaped
<1>2. Encoded(s) = <<Quote>> \o Spell(EncMap, s) \o <<Quote>>
  BY <1>1 DEF Encoded, Spell
<1>3. Spell(EncMap, s) \in Seq(Char)
  BY EncSpells, SpellType
<1>4. <<Quote>> \in Seq(Char)
  BY DEF Char
<1> QED
  BY <1>2, <1>3, <1>4

\* The character at i of s ends at L[i] of e, a position on from the last, or two when it is escaped.
Placed(s, L, e) ==
    /\ L[0] = 1 /\ e[1] = Quote
    /\ Len(e) = L[Len(s)] + 1 /\ e[Len(e)] = Quote
    /\ \A i \in 0..Len(s) : L[i] \in Nat /\ L[i] >= 1
    /\ \A i \in 1..Len(s) :
           /\ L[i] = L[i - 1] + IF s[i] \in Escaped THEN 2 ELSE 1
           /\ e[L[i]] = s[i]
           /\ s[i] \in Escaped => e[L[i - 1] + 1] = Backslash

\* The characters of a string have places in its JSON source.
LEMMA Places ==
    ASSUME NEW s \in Seq(Char)
    PROVE  \E L : Placed(s, L, Encoded(s))
<1>1. PICK n \in Nat : n = Len(s)
  OBVIOUS
<1>2. PICK ss : ss = [i \in DOMAIN s |-> EncMap[s[i]]]
  OBVIOUS
<1>3. DOMAIN s = 1..n
  BY <1>1
<1>4. [i \in DOMAIN s |-> EncMap[s[i]]] \in Seq(Seq(Char))
  BY EncSpells, PiecesType
<1>5. ss \in Seq(Seq(Char)) /\ DOMAIN ss = 1..n
  BY <1>2, <1>3, <1>4
<1>6. Len(ss) = n
  BY <1>1, <1>5
<1>7. \A i \in 1..n : ss[i] = IF s[i] \in Escaped THEN <<Backslash, s[i]>> ELSE <<s[i]>>
  BY <1>2, <1>3 DEF EncMap
<1>8. PICK f : Grows(f, ss, n) /\ \A i \in 0..n : f[i] \in Seq(Char)
  BY <1>5, <1>6, FlattenGrows
<1>9. Spell(EncMap, s) = f[n]
  <2>1. FlattenSeq(ss) = f[n]
    BY <1>5, <1>6, <1>8, FlattenIs
  <2> QED
    BY <1>2, <2>1 DEF Spell
<1>10. PICK c : c = f[n]
  OBVIOUS
<1>11. c \in Seq(Char)
  BY <1>8, <1>10
<1>12. PICK e : e = Encoded(s)
  OBVIOUS
<1>13. /\ Len(e) = Len(c) + 2 /\ e[1] = Quote /\ e[Len(c) + 2] = Quote
       /\ \A k \in 1..Len(c) : e[k + 1] = c[k]
  <2>1. e = <<Quote>> \o c \o <<Quote>>
    BY <1>9, <1>10, <1>12, EncodedIs
  <2>2. Quote \in Char
    BY DEF Char
  <2> QED
    BY <1>11, <2>1, <2>2
<1>14. PICK L : L = [i \in 0..n |-> Len(f[i]) + 1]
  OBVIOUS
<1>15. \A i \in 0..n : L[i] = Len(f[i]) + 1 /\ Len(f[i]) \in Nat
  BY <1>8, <1>14
<1>16. L[0] = 1
  <2>1. f[0] = <<>> /\ 0 \in 0..n
    BY <1>8 DEF Grows
  <2> QED
    BY <1>15, <2>1
<1>17. ASSUME NEW i \in 1..n
       PROVE  /\ L[i] = L[i - 1] + IF s[i] \in Escaped THEN 2 ELSE 1
              /\ e[L[i]] = s[i]
              /\ s[i] \in Escaped => e[L[i - 1] + 1] = Backslash
  <2>1. i - 1 \in 0..n /\ i \in 0..n /\ n \in i..n
    OBVIOUS
  <2>2. PICK a \in Seq(Char) : a = f[i - 1]
    BY <1>8, <2>1
  <2>3. PICK b \in Seq(Char) : b = ss[i]
    BY <1>5
  <2>4. f[i] = a \o b
    BY <1>8, <2>2, <2>3 DEF Grows
  <2>5. b = IF s[i] \in Escaped THEN <<Backslash, s[i]>> ELSE <<s[i]>>
    BY <1>7, <2>3
  <2>6. L[i - 1] = Len(a) + 1 /\ Len(a) \in Nat
    BY <1>15, <2>1, <2>2
  <2>7. L[i] = Len(a) + Len(b) + 1
    <3>1. Len(a \o b) = Len(a) + Len(b)
      OBVIOUS
    <3>2. L[i] = Len(f[i]) + 1
      BY <1>15, <2>1
    <3> QED
      BY <2>4, <3>1, <3>2
  <2>8. ASSUME NEW k \in 1..Len(b) PROVE e[Len(a) + k + 1] = b[k]
    <3>1. Len(a) + k \in DOMAIN f[i] /\ f[i][Len(a) + k] = b[k]
      BY <2>4, <2>6, <2>8
    <3>2. PICK x : x = Len(a) + k
      OBVIOUS
    <3>3. x \in DOMAIN f[i]
      BY <3>1, <3>2
    <3>4. Flats(Char, ss, n, f)
      BY <1>5, <1>6, <1>8 DEF Flats
    <3>5. x \in DOMAIN f[n] /\ f[n][x] = f[i][x]
      BY <2>1, <3>3, <3>4, FlatPrefix DEF Agrees
    <3>6. x \in 1..Len(c)
      BY <1>10, <1>11, <3>5
    <3>7. e[x + 1] = c[x]
      BY <1>13, <3>6
    <3> QED
      BY <1>10, <3>1, <3>2, <3>5, <3>7
  <2>9. CASE s[i] \in Escaped
    <3>1. Len(b) = 2 /\ b[1] = Backslash /\ b[2] = s[i]
      BY <2>5, <2>9
    <3>2. e[Len(a) + 1 + 1] = Backslash /\ e[Len(a) + 2 + 1] = s[i]
      BY <2>8, <3>1
    <3>3. L[i] = Len(a) + 2 + 1 /\ L[i - 1] + 1 = Len(a) + 1 + 1
      BY <2>6, <2>7, <3>1
    <3> QED
      BY <2>6, <2>9, <3>2, <3>3
  <2>10. CASE s[i] \notin Escaped
    <3>1. Len(b) = 1 /\ b[1] = s[i]
      BY <2>5, <2>10
    <3>2. e[Len(a) + 1 + 1] = s[i]
      BY <2>8, <3>1
    <3>3. L[i] = Len(a) + 1 + 1
      BY <2>7, <3>1
    <3> QED
      BY <2>6, <2>10, <3>2, <3>3
  <2> QED
    BY <2>9, <2>10
<1>18. Len(e) = L[n] + 1 /\ e[Len(e)] = Quote
  <2>1. n \in 0..n
    OBVIOUS
  <2> QED
    BY <1>10, <1>13, <1>15, <2>1
<1>19. \A i \in 0..n : L[i] \in Nat /\ L[i] >= 1
  BY <1>15
<1>20. Placed(s, L, e)
  BY <1>1, <1>13, <1>16, <1>17, <1>18, <1>19 DEF Placed
<1> QED
  BY <1>12, <1>20

\* Where a character stands, and the backslash before an escaped one.
LEMMA PlacedIs ==
    ASSUME NEW s \in Seq(Char), NEW L, NEW e, Placed(s, L, e), NEW i \in 1..Len(s)
    PROVE  /\ L[i] = L[i - 1] + 1 \/ L[i] = L[i - 1] + 2
           /\ s[i] \notin Escaped => L[i] = L[i - 1] + 1
           /\ s[i] \in Escaped => L[i] = L[i - 1] + 2 /\ e[L[i - 1] + 1] = Backslash
           /\ L[i] \in Nat /\ L[i - 1] \in Nat /\ L[i - 1] >= 1 /\ e[L[i]] = s[i]
<1>1. i \in 0..Len(s) /\ i - 1 \in 0..Len(s)
  OBVIOUS
<1>2. L[i] \in Nat /\ L[i - 1] \in Nat /\ L[i - 1] >= 1
  BY <1>1 DEF Placed
<1>3. /\ L[i] = L[i - 1] + IF s[i] \in Escaped THEN 2 ELSE 1
      /\ e[L[i]] = s[i] /\ (s[i] \in Escaped => e[L[i - 1] + 1] = Backslash)
  BY DEF Placed
<1> QED
  BY <1>2, <1>3

\* Every character between the quotes belongs to a character of the string.
LEMMA PlacedCover ==
    ASSUME NEW s \in Seq(Char), NEW L, NEW e, Placed(s, L, e), NEW j \in Nat, 2 <= j, j < Len(e)
    PROVE  \E i \in 1..Len(s) : L[i - 1] < j /\ j <= L[i]
<1>1. PICK n \in Nat : n = Len(s)
  OBVIOUS
<1>2. L[0] = 1 /\ Len(e) = L[n] + 1 /\ \A i \in 0..n : L[i] \in Nat
  BY <1>1 DEF Placed
<1> DEFINE T == {i \in 0..n : j <= L[i]}
<1>3. n \in T /\ T \in SUBSET Nat
  <2>1. n \in 0..n /\ L[n] \in Nat
    BY <1>2
  <2> QED
    BY <1>2, <2>1
<1>4. PICK i \in T : \A y \in T : i <= y
  BY <1>3, SmallestOf
<1>5. i # 0
  BY <1>2, <1>4
<1>6. i \in 1..n /\ i - 1 \in 0..n /\ ~(i <= i - 1)
  BY <1>4, <1>5
<1>7. i - 1 \notin T
  BY <1>4, <1>6
<1>8. L[i - 1] < j
  BY <1>2, <1>6, <1>7
<1> QED
  BY <1>1, <1>4, <1>6, <1>8

\* A character that is neither a quote nor a backslash is one of the string's.
LEMMA PlainAt ==
    ASSUME NEW s \in Seq(Char), NEW L, NEW e, Placed(s, L, e), NEW j \in Nat, 1 <= j, j <= Len(e),
           e[j] \notin Escaped
    PROVE  \E i \in 1..Len(s) : L[i] = j /\ L[i - 1] = j - 1 /\ s[i] = e[j]
<1>1. j # 1 /\ j # Len(e)
  BY DEF Placed, Escaped
<1>0. Len(e) \in Nat
  <2>1. Len(s) \in 0..Len(s)
    OBVIOUS
  <2> QED
    BY <2>1 DEF Placed
<1>2. 2 <= j /\ j < Len(e)
  BY <1>0, <1>1
<1>3. PICK i \in 1..Len(s) : L[i - 1] < j /\ j <= L[i]
  BY <1>2, PlacedCover
<1>4. CASE j = L[i - 1] + 1 /\ s[i] \in Escaped
  BY <1>4, PlacedIs DEF Escaped
<1>5. CASE ~(j = L[i - 1] + 1 /\ s[i] \in Escaped)
  <2>0. L[i] \in Nat /\ L[i - 1] \in Nat
    BY PlacedIs
  <2>a. s[i] \notin Escaped => L[i] = L[i - 1] + 1
    BY PlacedIs
  <2>b. s[i] \in Escaped => L[i] = L[i - 1] + 2
    BY PlacedIs
  <2>1. L[i] = j
    <3>1. CASE s[i] \in Escaped
      <4>1. j # L[i - 1] + 1
        BY <1>5, <3>1
      <4>2. L[i] = L[i - 1] + 2
        BY <2>b, <3>1
      <4> QED
        BY <1>3, <2>0, <4>1, <4>2
    <3>2. CASE s[i] \notin Escaped
      <4>1. L[i] = L[i - 1] + 1
        BY <2>a, <3>2
      <4> QED
        BY <1>3, <2>0, <4>1
    <3> QED
      BY <3>1, <3>2
  <2>2. s[i] = e[j]
    BY <2>1, PlacedIs
  <2>3. L[i] = L[i - 1] + 1 /\ L[i - 1] \in Nat
    BY <2>2, PlacedIs
  <2> QED
    BY <2>1, <2>2, <2>3
<1> QED
  BY <1>4, <1>5

\* One character of the string stands at a place.
LEMMA PlaceOne ==
    ASSUME NEW s \in Seq(Char), NEW L, NEW e, Placed(s, L, e), NEW a \in 1..Len(s), NEW b \in 1..Len(s),
           L[b - 1] = L[a]
    PROVE  b = a + 1
<1>1. PICK n \in Nat : n = Len(s)
  OBVIOUS
<1>2. \A x \in 0..n : L[x] \in Nat
  BY <1>1 DEF Placed
<1>3. \A x \in 1..n : L[x - 1] < L[x]
  <2> SUFFICES ASSUME NEW x \in 1..n PROVE L[x - 1] < L[x]
    OBVIOUS
  <2>1. x \in 1..Len(s)
    BY <1>1
  <2>2. L[x] = L[x - 1] + 1 \/ L[x] = L[x - 1] + 2
    BY <2>1, PlacedIs
  <2>3. L[x - 1] \in Nat
    BY <2>1, PlacedIs
  <2> QED
    BY <2>2, <2>3
<1>4. ASSUME NEW u \in 0..n, NEW v \in 0..n, u < v PROVE L[u] < L[v]
  <2> DEFINE Bad == {x \in 0..n : u < x /\ ~(L[u] < L[x])}
  <2>1. Bad = {}
    <3> SUFFICES ASSUME Bad # {} PROVE FALSE
      OBVIOUS
    <3>1. PICK x \in Bad : \A y \in Bad : x <= y
      BY SmallestOf, Bad \in SUBSET Nat
    <3>2. x \in 1..n /\ x - 1 \in 0..n /\ u <= x - 1 /\ ~(x <= x - 1)
      BY <3>1
    <3>3. x - 1 \notin Bad
      BY <3>1, <3>2
    <3>4. L[u] <= L[x - 1]
      <4>1. CASE u = x - 1
        <5>1. L[u] = L[x - 1] /\ L[u] \in Nat
          BY <1>2, <4>1
        <5> QED
          BY <5>1
      <4>2. CASE u # x - 1
        <5>1. u < x - 1
          BY <3>2, <4>2
        <5>2. L[u] < L[x - 1]
          BY <3>2, <3>3, <5>1
        <5>3. L[u] \in Nat /\ L[x - 1] \in Nat
          BY <1>2, <3>2
        <5> QED
          BY <5>2, <5>3
      <4> QED
        BY <4>1, <4>2
    <3>5. L[x - 1] < L[x] /\ L[x] \in Nat /\ L[x - 1] \in Nat /\ L[u] \in Nat
      BY <1>2, <1>3, <3>2
    <3> QED
      BY <3>1, <3>4, <3>5
  <2> QED
    BY <1>4, <2>1
<1>5. a \in 0..n /\ b - 1 \in 0..n /\ a \in Nat /\ b \in Nat
  BY <1>1
<1>6. ~(a < b - 1) /\ ~(b - 1 < a)
  BY <1>2, <1>4, <1>5
<1> QED
  BY <1>5, <1>6

\* A token in the source is a token of the string.
LEMMA TokenInside ==
    ASSUME NEW s \in Seq(Char), NEW L, NEW e, Placed(s, L, e), NEW j \in 1..Len(e), TokenAt(e, j)
    PROVE  \E i \in 1..Len(s) : /\ TokenAt(s, i) /\ s[i + 1] = e[j + 1]
                                /\ L[i - 1] = j - 1 /\ L[i + 2] = j + 2
<1>1. j + 2 <= Len(e) /\ e[j] = LB /\ e[j + 1] \in Handle \ Literal /\ e[j + 2] = RB
  BY DEF TokenAt
<1>2. e[j] \notin Escaped /\ e[j + 1] \notin Escaped /\ e[j + 2] \notin Escaped
  BY <1>1, CharsDiffer DEF Escaped
<1>3. Len(e) \in Nat /\ j \in Nat /\ j >= 1
  <2>1. Len(s) \in 0..Len(s)
    OBVIOUS
  <2>2. Len(e) \in Nat
    BY <2>1 DEF Placed
  <2> QED
    BY <2>2
<1>4. PICK a \in 1..Len(s) : L[a] = j /\ L[a - 1] = j - 1 /\ s[a] = e[j]
  <2>1. PICK x \in Nat : x = j
    BY <1>3
  <2>2. 1 <= x /\ x <= Len(e) /\ e[x] \notin Escaped
    BY <1>1, <1>2, <1>3, <2>1
  <2>3. PICK a \in 1..Len(s) : L[a] = x /\ L[a - 1] = x - 1 /\ s[a] = e[x]
    BY <2>2, PlainAt
  <2> QED
    BY <2>1, <2>3
<1>5. PICK b \in 1..Len(s) : L[b] = j + 1 /\ L[b - 1] = j /\ s[b] = e[j + 1]
  <2>1. PICK x \in Nat : x = j + 1
    BY <1>3
  <2>2. 1 <= x /\ x <= Len(e) /\ e[x] \notin Escaped
    BY <1>1, <1>2, <1>3, <2>1
  <2>3. PICK b \in 1..Len(s) : L[b] = x /\ L[b - 1] = x - 1 /\ s[b] = e[x]
    BY <2>2, PlainAt
  <2> QED
    BY <1>3, <2>1, <2>3
<1>6. PICK c \in 1..Len(s) : L[c] = j + 2 /\ L[c - 1] = j + 1 /\ s[c] = e[j + 2]
  <2>1. PICK x \in Nat : x = j + 2
    BY <1>3
  <2>2. 1 <= x /\ x <= Len(e) /\ e[x] \notin Escaped
    BY <1>1, <1>2, <1>3, <2>1
  <2>3. PICK c \in 1..Len(s) : L[c] = x /\ L[c - 1] = x - 1 /\ s[c] = e[x]
    BY <2>2, PlainAt
  <2> QED
    BY <1>3, <2>1, <2>3
<1>7. b = a + 1
  BY <1>4, <1>5, PlaceOne
<1>8. c = b + 1
  BY <1>5, <1>6, PlaceOne
<1>9. c = a + 2 /\ a + 2 <= Len(s)
  BY <1>7, <1>8
<1>10. s[a] = LB /\ s[a + 1] = e[j + 1] /\ s[a + 2] = RB
  BY <1>1, <1>4, <1>5, <1>6, <1>7, <1>9
<1>11. TokenAt(s, a)
  BY <1>1, <1>9, <1>10 DEF TokenAt
<1> QED
  BY <1>4, <1>6, <1>9, <1>10, <1>11

-----------------------------------------------------------------------------
\* An even run of backslashes ends at b.
EvenAt(e, b) ==
    \E m \in Nat : /\ 1 <= b - 2 * m /\ e[b - 2 * m] # Backslash
                   /\ \A x \in (b - 2 * m + 1)..b : e[x] = Backslash

\* After a whole character the run of backslashes is even: a quote there ends the string.
LEMMA EvenRuns ==
    ASSUME NEW s \in Seq(Char), NEW L, NEW e, Placed(s, L, e), NEW i \in 0..Len(s)
    PROVE  EvenAt(e, L[i])
<1>1. PICK n \in Nat : n = Len(s)
  OBVIOUS
<1> DEFINE Bad == {x \in 0..n : ~EvenAt(e, L[x])}
<1>2. Bad = {}
  <2> SUFFICES ASSUME Bad # {} PROVE FALSE
    OBVIOUS
  <2>1. PICK x \in Bad : \A y \in Bad : x <= y
    BY SmallestOf, Bad \in SUBSET Nat
  <2>2. ASSUME NEW b \in Nat, b >= 1, e[b] # Backslash PROVE EvenAt(e, b)
    <3>1. b - 2 * 0 = b /\ \A y \in (b + 1)..b : FALSE
      OBVIOUS
    <3>2. 0 \in Nat /\ 1 <= b - 2 * 0 /\ e[b - 2 * 0] # Backslash /\ \A y \in (b - 2 * 0 + 1)..b : e[y] = Backslash
      BY <2>2, <3>1
    <3> QED
      BY <3>2 DEF EvenAt
  <2>3. x # 0
    <3>1. L[0] = 1 /\ e[1] = Quote /\ Quote # Backslash
      BY CharsDiffer DEF Placed
    <3>2. EvenAt(e, L[0])
      BY <2>2, <3>1
    <3> QED
      BY <2>1, <3>2
  <2>4. x \in 1..Len(s) /\ x - 1 \in 0..n /\ ~(x <= x - 1)
    BY <1>1, <2>1, <2>3
  <2>5. x - 1 \notin Bad
    BY <2>1, <2>4
  <2>6. EvenAt(e, L[x - 1])
    BY <2>4, <2>5
  <2>a. L[x] \in Nat /\ L[x - 1] \in Nat /\ L[x - 1] >= 1 /\ e[L[x]] = s[x]
    BY <2>4, PlacedIs
  <2>b. L[x] = L[x - 1] + 1 \/ L[x] = L[x - 1] + 2
    BY <2>4, PlacedIs
  <2>7. L[x] \in Nat /\ L[x - 1] \in Nat /\ L[x - 1] >= 1 /\ e[L[x]] = s[x] /\ L[x] >= 1
    BY <2>a, <2>b
  <2>8. CASE s[x] # Backslash
    <3>1. EvenAt(e, L[x])
      BY <2>2, <2>7, <2>8
    <3> QED
      BY <2>1, <3>1
  <2>9. CASE s[x] = Backslash
    <3>1. L[x] = L[x - 1] + 2 /\ e[L[x - 1] + 1] = Backslash /\ e[L[x]] = Backslash
      BY <2>4, <2>9, PlacedIs DEF Escaped
    <3>2. PICK a \in Nat : a = L[x - 1]
      BY <2>7
    <3>3. PICK m \in Nat : /\ 1 <= a - 2 * m /\ e[a - 2 * m] # Backslash
                           /\ \A y \in (a - 2 * m + 1)..a : e[y] = Backslash
      BY <2>6, <3>2 DEF EvenAt
    <3>4. PICK k \in Nat : k = m + 1
      OBVIOUS
    <3>5. (a + 2) - 2 * k = a - 2 * m
      BY <3>4
    <3>6. \A y \in (a - 2 * m + 1)..(a + 2) : e[y] = Backslash
      <4> SUFFICES ASSUME NEW y \in (a - 2 * m + 1)..(a + 2) PROVE e[y] = Backslash
        OBVIOUS
      <4>1. y \in (a - 2 * m + 1)..a \/ y = a + 1 \/ y = a + 2
        BY <3>3
      <4> QED
        BY <3>1, <3>2, <3>3, <4>1
    <3>7. /\ 1 <= (a + 2) - 2 * k /\ e[(a + 2) - 2 * k] # Backslash
          /\ \A y \in ((a + 2) - 2 * k + 1)..(a + 2) : e[y] = Backslash
      BY <3>3, <3>5, <3>6
    <3>8. EvenAt(e, a + 2)
      BY <3>7 DEF EvenAt
    <3>9. L[x] = a + 2
      BY <3>1, <3>2
    <3> QED
      BY <2>1, <3>8, <3>9
  <2> QED
    BY <2>8, <2>9
<1>3. i \notin Bad
  BY <1>2
<1> QED
  BY <1>1, <1>3

\* A quote after an even run and one more backslash is escaped.
LEMMA OddRun ==
    ASSUME NEW e, NEW b \in Nat, EvenAt(e, b), e[b + 1] = Backslash
    PROVE  ~IsUnescapedQuote(e, b + 2)
<1>1. PICK m \in Nat : /\ 1 <= b - 2 * m /\ e[b - 2 * m] # Backslash
                       /\ \A x \in (b - 2 * m + 1)..b : e[x] = Backslash
  BY DEF EvenAt
<1>2. PICK k \in Nat : k = b - 2 * m
  BY <1>1
<1>3. k >= 1 /\ k <= b /\ e[k] # Backslash /\ \A x \in (k + 1)..b : e[x] = Backslash
  BY <1>1, <1>2
<1>4. PICK q \in Nat : q = b + 2
  OBVIOUS
<1> DEFINE before == {y \in 0..(q - 1) : \A x \in (y + 1)..(q - 1) : e[x] = Backslash}
<1>5. k \in before
  <2>1. k \in 0..(q - 1)
    BY <1>3, <1>4
  <2>2. \A x \in (k + 1)..(q - 1) : x \in (k + 1)..b \/ x = b + 1
    BY <1>3, <1>4
  <2>3. \A x \in (k + 1)..(q - 1) : e[x] = Backslash
    BY <1>3, <2>2
  <2> QED
    BY <2>1, <2>3
<1>6. \A y \in before : k <= y
  <2> SUFFICES ASSUME NEW y \in before, y < k PROVE FALSE
    OBVIOUS
  <2>1. k \in (y + 1)..(q - 1)
    BY <1>3, <1>4
  <2> QED
    BY <1>3, <2>1
<1>7. (CHOOSE y \in before : \A x \in before : y <= x) = k
  <2>1. \E y \in before : \A x \in before : y <= x
    BY <1>5, <1>6
  <2>2. PICK c : c = CHOOSE y \in before : \A x \in before : y <= x
    OBVIOUS
  <2>3. c \in before /\ \A x \in before : c <= x
    BY <2>1, <2>2
  <2>4. c <= k /\ k <= c /\ c \in Nat
    BY <1>5, <1>6, <2>3
  <2> QED
    BY <2>2, <2>4
<1>8. (q - 1 - k) = 2 * m + 1
  BY <1>1, <1>2, <1>4
<1>9. (2 * m + 1) % 2 # 0
  OBVIOUS
<1>10. IsUnescapedQuote(e, q) => (q - 1 - (CHOOSE y \in before : \A x \in before : y <= x)) % 2 = 0
  BY DEF IsUnescapedQuote
<1> QED
  BY <1>4, <1>7, <1>8, <1>9, <1>10

\* The arguments string is a JSON string: only a token that is all of it counts as a whole value.
LEMMA QuotedIs ==
    ASSUME NEW s \in Seq(Char), NEW L, NEW e, Placed(s, L, e), NEW j \in 1..Len(e), TokenAt(e, j),
           WholeValueMode(e, j, "raw") # "none", e \in Seq(Char)
    PROVE  /\ WholeValueMode(e, j, "raw") = "quoted"
           /\ Len(s) = 3 /\ TokenAt(s, 1) /\ s[2] = e[j + 1]
<1>1. PICK i \in 1..Len(s) : /\ TokenAt(s, i) /\ s[i + 1] = e[j + 1]
                             /\ L[i - 1] = j - 1 /\ L[i + 2] = j + 2
  BY TokenInside
<1>2. e[j] = LB /\ j + 2 <= Len(e)
  BY DEF TokenAt
<1>3. e[1] = Quote /\ Quote # LB /\ Quote # Blank /\ Quote # Backslash /\ Len(e) \in Nat
  BY CharsDiffer DEF Placed
<1>4. j # 1 /\ j \in Nat /\ 1 \in DOMAIN e /\ 1 \notin j..(j + 2)
  BY <1>2, <1>3
<1>5. ~(\A x \in DOMAIN e \ (j..(j + 2)) : e[x] = Blank)
  BY <1>3, <1>4
<1>6. /\ WholeValueMode(e, j, "raw") = "quoted"
      /\ j > 1 /\ j + 3 <= Len(e) /\ IsUnescapedQuote(e, j - 1) /\ e[j + 3] = Quote
  BY <1>5 DEF WholeValueMode
<1>7. i = 1
  <2> SUFFICES ASSUME i # 1 PROVE FALSE
    OBVIOUS
  <2>1. PICK k : k = i - 1
    OBVIOUS
  <2>2. k \in 1..Len(s) /\ k - 1 \in 0..Len(s) /\ k + 1 = i
    BY <2>1
  <2>3. L[k] = j - 1
    BY <1>1, <2>1
  <2>4. s[k] = Quote
    <3>1. e[L[k]] = s[k]
      BY <2>2, PlacedIs
    <3>2. e[j - 1] = Quote
      BY <1>6 DEF IsUnescapedQuote
    <3> QED
      BY <2>3, <3>1, <3>2
  <2>5. L[k] = L[k - 1] + 2 /\ e[L[k - 1] + 1] = Backslash /\ L[k - 1] \in Nat
    BY <2>2, <2>4, PlacedIs DEF Escaped
  <2>6. EvenAt(e, L[k - 1])
    BY <2>2, EvenRuns
  <2>7. PICK b \in Nat : b = L[k - 1]
    BY <2>5
  <2>8. ~IsUnescapedQuote(e, b + 2)
    BY <2>5, <2>6, <2>7, OddRun
  <2>9. b + 2 = j - 1
    BY <2>3, <2>5, <2>7
  <2> QED
    BY <1>6, <2>8, <2>9
<1>8. TokenAt(s, 1) /\ s[2] = e[j + 1] /\ L[3] = j + 2 /\ Len(s) >= 3
  BY <1>1, <1>7 DEF TokenAt
<1>9. Len(s) = 3
  <2> SUFFICES ASSUME Len(s) # 3 PROVE FALSE
    OBVIOUS
  <2>1. 4 \in 1..Len(s)
    <3>1. PICK n \in Nat : n = Len(s)
      OBVIOUS
    <3> QED
      BY <1>8, <3>1
  <2>2. PICK k : k = 4
    OBVIOUS
  <2>3. k \in 1..Len(s) /\ L[k - 1] = j + 2
    BY <1>8, <2>1, <2>2
  <2>4. CASE s[k] \in Escaped
    <3>2. k \in 1..Len(s)
      BY <2>3
    <3>3. e[L[k - 1] + 1] = Backslash
      BY <2>4, <3>2, PlacedIs
    <3>1. e[(j + 2) + 1] = Backslash
      BY <2>3, <3>3
    <3> QED
      BY <1>3, <1>4, <1>6, <2>3, <3>1
  <2>5. CASE s[k] \notin Escaped
    <3>1. L[k] = L[k - 1] + 1 /\ e[L[k]] = s[k]
      BY <2>3, <2>5, PlacedIs
    <3>2. e[j + 3] = s[k]
      BY <1>4, <2>3, <3>1
    <3> QED
      BY <1>6, <2>5, <3>2 DEF Escaped
  <2> QED
    BY <2>4, <2>5
<1> QED
  BY <1>6, <1>8, <1>9

-----------------------------------------------------------------------------
\* A tool may have what the handle stands for, if need be as a whole value.
Open(h, look) ==
    /\ h \notin BrokerHandle /\ look.plain[h] # None
    /\ IF h \in look.local THEN h \in look.promoted ELSE Restore[h] # "gated"
Fully(h, mode, look) == h \notin look.local /\ Restore[h] = "whole" => mode # "none"

\* What stands in its place: itself, or its value, escaped in JSON source.
Answers(u, h, mode, source, look) ==
    \/ ~(Open(h, look) /\ Fully(h, mode, look)) /\ u = Token(h)
    \/ /\ Open(h, look) /\ Fully(h, mode, look)
       /\ \E x \in Item : /\ u = <<x>> /\ x \notin Char /\ x.of = h
                          /\ source = "raw" /\ mode # "bare" /\ h \notin look.local => x.esc = TRUE

\* A token of a tool's input becomes what the tool may have, or stays.
LEMMA ToolTokenIs ==
    ASSUME NEW s, NEW i, s[i + 1] \in Handle \ Literal, NEW source, NEW look \in Lookup
    PROVE  Answers(UnmaskToken(s, i, "tool", source, FALSE, look), s[i + 1], WholeValueMode(s, i, source),
                   source, look)
<1> PICK h : h = s[i + 1]
  OBVIOUS
<1> h \in Handle \ Literal
  OBVIOUS
<1> PICK mode : mode = WholeValueMode(s, i, source)
  OBVIOUS
<1> PICK u : u = UnmaskToken(s, i, "tool", source, FALSE, look)
  OBVIOUS
<1> SUFFICES Answers(u, h, mode, source, look)
  OBVIOUS
<1> SUFFICES \/ ~(Open(h, look) /\ Fully(h, mode, look)) /\ u = Token(h)
             \/ /\ Open(h, look) /\ Fully(h, mode, look)
                /\ \E x \in Item : /\ u = <<x>> /\ x \notin Char /\ x.of = h
                                   /\ source = "raw" /\ mode # "bare" /\ h \notin look.local => x.esc = TRUE
  BY DEF Answers
<1>1. look.plain[h] \in Val \cup {None}
  BY DEF Lookup
<1>2. Restore[h] \in {"gated", "whole", "embedded"}
  BY UnmaskAssumption
<1>3. PICK v : v = look.plain[h]
  OBVIOUS
<1>4. PICK t : t = Token(h)
  OBVIOUS
<1>5. PICK gate : gate = GateTool(s, i, source, look)
  OBVIOUS
<1>6. u =
        IF \/ h \in BrokerHandle
           \/ h \in look.local /\ h \notin look.promoted
        THEN t
        ELSE IF h \notin look.local THEN gate
        ELSE IF v = None THEN t
        ELSE <<Shown(h, v, FALSE, FALSE)>>
  BY <1>3, <1>4, <1>5, Zenon DEF UnmaskToken
<1>7. PICK esc : esc = CASE Restore[h] = "whole" -> mode = "quoted"
                         [] OTHER -> source = "raw"
  OBVIOUS
<1>8. esc \in BOOLEAN
  <2>1. CASE Restore[h] = "whole"
    <3>1. esc = (mode = "quoted")
      BY <1>7, <2>1, Zenon
    <3> QED
      BY <3>1, Zenon
  <2>2. CASE Restore[h] # "whole"
    <3>1. esc = (source = "raw")
      BY <1>7, <2>2, Zenon
    <3> QED
      BY <3>1, Zenon
  <2> QED
    BY <2>1, <2>2, Zenon
<1>a. CASE h \in BrokerHandle \/ (h \in look.local /\ h \notin look.promoted)
  BY <1>4, <1>6, <1>a DEF Open
<1>9. ASSUME NEW x, NEW esc1 \in BOOLEAN, x = Shown(h, v, esc1, FALSE), v # None
      PROVE  x \in Item /\ x \notin Char /\ x.of = h /\ x.esc = esc1
  <2>1. PICK no : no = FALSE
    OBVIOUS
  <2>2. no \in BOOLEAN
    BY <2>1
  <2>3. v \in Val /\ h \in Handle
    BY <1>1, <1>3, <1>9
  <2>4. x = Shown(h, v, esc1, no)
    BY <1>9, <2>1
  <2> QED
    BY <2>2, <2>3, <2>4, ShownIs
<1>b. CASE h \notin BrokerHandle /\ h \in look.local /\ h \in look.promoted
  <2>1. CASE v = None
    BY <1>3, <1>4, <1>6, <1>b, <2>1 DEF Open
  <2>2. CASE v # None
    <3>1. PICK x, no : no = FALSE /\ x = Shown(h, v, no, FALSE)
      OBVIOUS
    <3>2. u = <<x>>
      BY <1>6, <1>b, <2>2, <3>1
    <3>3. no \in BOOLEAN
      BY <3>1
    <3>4. x \in Item /\ x \notin Char /\ x.of = h
      BY <1>9, <2>2, <3>1, <3>3
    <3>5. Open(h, look) /\ Fully(h, mode, look)
      BY <1>3, <1>b, <2>2 DEF Open, Fully
    <3> QED
      BY <1>b, <3>2, <3>4, <3>5
  <2> QED
    BY <2>1, <2>2
<1>c. CASE h \notin BrokerHandle /\ h \notin look.local
  <2>1. u = gate
    BY <1>6, <1>c
  <2>a. esc = CASE Restore[h] = "whole" -> WholeValueMode(s, i, source) = "quoted"
                 [] OTHER -> source = "raw"
    BY <1>7, Zenon
  <2>b. GateTool(s, i, source, look) =
           IF \/ Gated(h) \/ look.plain[h] = None
              \/ Restore[h] = "whole" /\ WholeValueMode(s, i, source) = "none"
           THEN Token(h) ELSE <<Shown(h, look.plain[h], esc, FALSE)>>
    BY <2>a, Zenon DEF GateTool
  <2>c. gate = IF \/ Gated(h) \/ v = None
                  \/ Restore[h] = "whole" /\ mode = "none"
               THEN t ELSE <<Shown(h, v, esc, FALSE)>>
    BY <1>3, <1>4, <1>5, <2>b, Zenon
  <2>2. gate = IF Restore[h] = "gated" \/ v = None \/ (Restore[h] = "whole" /\ mode = "none")
               THEN t ELSE <<Shown(h, v, esc, FALSE)>>
    BY <2>c DEF Gated
  <2>3. CASE Restore[h] = "gated" \/ v = None \/ (Restore[h] = "whole" /\ mode = "none")
    <3>1. u = Token(h)
      BY <1>4, <2>1, <2>2, <2>3
    <3>2. ~(Open(h, look) /\ Fully(h, mode, look))
      BY <1>3, <1>c, <2>3 DEF Open, Fully
    <3> QED
      BY <3>1, <3>2
  <2>4. CASE ~(Restore[h] = "gated" \/ v = None \/ (Restore[h] = "whole" /\ mode = "none"))
    <3>1. PICK x : x = Shown(h, v, esc, FALSE)
      OBVIOUS
    <3>2. u = <<x>>
      BY <2>1, <2>2, <2>4, <3>1
    <3>a. v # None /\ Restore[h] # "gated" /\ ~(Restore[h] = "whole" /\ mode = "none")
      BY <2>4
    <3>3. x \in Item /\ x \notin Char /\ x.of = h /\ x.esc = esc
      BY <1>8, <1>9, <3>a, <3>1
    <3>4. source = "raw" /\ mode # "bare" => esc = TRUE
      <4>1. mode \in {"bare", "quoted", "none"}
        BY DEF WholeValueMode
      <4>2. CASE Restore[h] = "whole"
        <5>1. esc = (mode = "quoted")
          BY <1>7, <4>2, Zenon
        <5>2. mode # "none"
          BY <2>4, <4>2
        <5> QED
          BY <4>1, <5>1, <5>2, Zenon
      <4>3. CASE Restore[h] # "whole"
        <5>1. esc = (source = "raw")
          BY <1>7, <4>3, Zenon
        <5> QED
          BY <5>1, Zenon
      <4> QED
        BY <4>2, <4>3, Zenon
    <3>5. Open(h, look) /\ Fully(h, mode, look)
      BY <1>3, <1>c, <3>a DEF Open, Fully
    <3>6. source = "raw" /\ mode # "bare" /\ h \notin look.local => x.esc = TRUE
      BY <3>3, <3>4, Zenon
    <3> QED
      BY <3>2, <3>3, <3>5, <3>6
  <2> QED
    BY <2>3, <2>4
<1> QED
  BY <1>a, <1>b, <1>c, Zenon

\* The token at i of s gives a tool its value.
Gives(s, i, source, look) ==
    TokenAt(s, i) /\ Open(s[i + 1], look) /\ Fully(s[i + 1], WholeValueMode(s, i, source), look)
\* x stands for the token at i in a tool's input.
StandsFor(x, s, i, source, look) ==
    /\ x \in Item /\ x \notin Char /\ x.of = s[i + 1]
    /\ source = "raw" /\ WholeValueMode(s, i, source) # "bare" /\ x.of \notin look.local => x.esc = TRUE

\* The same, said of the position the token stands at.
LEMMA ToolTokenFits ==
    ASSUME NEW s, NEW i, TokenAt(s, i), NEW source, NEW look \in Lookup
    PROVE  \/ /\ ~Gives(s, i, source, look)
              /\ UnmaskToken(s, i, "tool", source, FALSE, look) = Token(s[i + 1])
           \/ /\ Gives(s, i, source, look)
              /\ \E x : /\ UnmaskToken(s, i, "tool", source, FALSE, look) = <<x>>
                        /\ StandsFor(x, s, i, source, look)
<1>1. PICK h : h = s[i + 1]
  OBVIOUS
<1>2. h \in Handle \ Literal
  BY <1>1 DEF TokenAt
<1>3. PICK mode : mode = WholeValueMode(s, i, source)
  OBVIOUS
<1>4. PICK u : u = UnmaskToken(s, i, "tool", source, FALSE, look)
  OBVIOUS
<1>5. Answers(u, h, mode, source, look)
  <2>1. s[i + 1] \in Handle \ Literal
    BY <1>1, <1>2
  <2>2. Answers(UnmaskToken(s, i, "tool", source, FALSE, look), s[i + 1], WholeValueMode(s, i, source), source, look)
    BY <2>1, ToolTokenIs
  <2> QED
    BY <1>1, <1>3, <1>4, <2>2
<1>6. Gives(s, i, source, look) <=> Open(h, look) /\ Fully(h, mode, look)
  BY <1>1, <1>3, Zenon DEF Gives
<1>7. ASSUME NEW x \in Item, x \notin Char, x.of = h,
             source = "raw" /\ mode # "bare" /\ h \notin look.local => x.esc = TRUE
      PROVE  StandsFor(x, s, i, source, look)
  BY <1>1, <1>3, <1>7, Zenon DEF StandsFor
<1> QED
  BY <1>1, <1>4, <1>5, <1>6, <1>7, Zenon DEF Answers

\* A piece of one item has no other.
LEMMA OneOnly == ASSUME NEW x, NEW p, p = <<x>> PROVE \A k \in DOMAIN p : p[k] = x
  OBVIOUS

Fitting(p, s, i, source, look) ==
    /\ p \in Seq(Item)
    /\ \A k \in DOMAIN p : p[k] \notin Char => Gives(s, i, source, look) /\ StandsFor(p[k], s, i, source, look)
    /\ Gives(s, i, source, look) => \E x : p = <<x>> /\ StandsFor(x, s, i, source, look)

\* A piece of characters fits where nothing is given.
LEMMA CharsFitting ==
    ASSUME NEW p \in Seq(Char), NEW s, NEW i, NEW source, NEW look, ~Gives(s, i, source, look)
    PROVE  Fitting(p, s, i, source, look)
<1>1. p \in Seq(Item)
  BY CharsAreItems
<1>2. \A k \in DOMAIN p : p[k] \in Char
  OBVIOUS
<1> QED
  BY <1>1, <1>2 DEF Fitting

\* Every piece of a tool's input fits what is given at its position.
LEMMA ToolPieceIs ==
    ASSUME NEW s \in Seq(Char), NEW i \in 1..Len(s), NEW source, NEW look \in Lookup
    PROVE  Fitting(UnmaskPiece(s, i, "tool", source, FALSE, look), s, i, source, look)
<1>1. PICK p : p = UnmaskPiece(s, i, "tool", source, FALSE, look)
  OBVIOUS
<1>2. i \in DOMAIN s
  <2>1. PICK n \in Nat : n = Len(s)
    OBVIOUS
  <2> QED
    BY <2>1
<1>3. PICK no : no = FALSE
  OBVIOUS
<1>4. no \in BOOLEAN
  BY <1>3
<1>5. p = UnmaskPiece(s, i, "tool", source, no, look)
  BY <1>1, <1>3
<1>6. CASE TokenAt(s, i)
  <2>1. p = UnmaskToken(s, i, "tool", source, FALSE, look)
    BY <1>1, <1>6, Zenon DEF UnmaskPiece
  <2>2. PICK h \in Handle : h = s[i + 1]
    BY <1>6 DEF TokenAt
  <2>3. CASE ~Gives(s, i, source, look) /\ p = Token(h)
    <3>1. p \in Seq(Char)
      BY <2>3, TokenIs
    <3> QED
      BY <1>1, <2>3, <3>1, CharsFitting
  <2>4. CASE Gives(s, i, source, look) /\ \E x : p = <<x>> /\ StandsFor(x, s, i, source, look)
    <3>1. PICK x : p = <<x>> /\ StandsFor(x, s, i, source, look)
      BY <2>4
    <3>2. \A k \in DOMAIN p : p[k] = x
      BY <3>1, OneOnly
    <3>3. x \in Item
      BY <3>1 DEF StandsFor
    <3>4. p \in Seq(Item)
      BY <3>1, <3>3
    <3>5. Fitting(p, s, i, source, look)
      BY <2>4, <3>1, <3>2, <3>4, Zenon DEF Fitting
    <3> QED
      BY <1>1, <3>5
  <2> QED
    BY <1>6, <2>1, <2>2, <2>3, <2>4, ToolTokenFits, Zenon
<1>7. CASE ~TokenAt(s, i)
  <2>1. ~Gives(s, i, source, look)
    BY <1>7 DEF Gives
  <2>2. \/ p = <<>>
        \/ s[i] \in Literal /\ (p = Token(s[i]) \/ \E x : MayShow(s[i], "tool", source, no, look, x))
        \/ p = <<s[i]>>
    BY <1>2, <1>4, <1>5, <1>7, PieceIs
  <2>3. PICK h : h = s[i]
    OBVIOUS
  <2>4. h \in Literal => h \in Handle /\ Token(h) \in Seq(Char) /\ \A x : ~MayShow(h, "tool", source, no, look, x)
    BY CharsDiffer, TokenIs DEF MayShow
  <2>5. h \in Char
    BY <1>2, <2>3
  <2>6. p \in Seq(Char)
    <3>1. <<>> \in Seq(Char) /\ <<h>> \in Seq(Char)
      BY <2>5
    <3>2. p = <<>> \/ p = <<h>> \/ (h \in Literal /\ p = Token(h))
      BY <2>2, <2>3, <2>4, Zenon
    <3> QED
      BY <2>4, <3>1, <3>2
  <2>7. Fitting(p, s, i, source, look)
    BY <2>1, <2>6, CharsFitting
  <2> QED
    BY <1>1, <2>7
<1> QED
  BY <1>6, <1>7

\* A tool's restored input shows a value exactly for the positions it is given at.
LEMMA ToolRestoredIs ==
    ASSUME NEW s \in Seq(Char), NEW source, NEW look \in Lookup,
           NEW u, u = UnmaskInner(s, "tool", source, FALSE, look)
    PROVE  /\ \A j \in DOMAIN u : u[j] \notin Char =>
                  \E i \in 1..Len(s) : Gives(s, i, source, look) /\ StandsFor(u[j], s, i, source, look)
           /\ \A i \in 1..Len(s) : Gives(s, i, source, look) => s[i + 1] \in Restored(u)
<1> DEFINE ps == [i \in DOMAIN s |-> UnmaskPiece(s, i, "tool", source, FALSE, look)]
<1>1. PICK n \in Nat : n = Len(s)
  OBVIOUS
<1>2. DOMAIN s = 1..n
  BY <1>1
<1>3. \A i \in 1..n : ps[i] = UnmaskPiece(s, i, "tool", source, FALSE, look)
  BY <1>2
<1>4. ps = [i \in 1..n |-> ps[i]]
  BY <1>2
<1>5. u = FlattenSeq(ps)
  BY DEF UnmaskInner
<1> HIDE DEF ps
<1>6. ASSUME NEW i \in 1..n
      PROVE  Fitting(ps[i], s, i, source, look)
  BY <1>1, <1>3, ToolPieceIs
<1>7. ps \in [1..n -> Seq(Item)]
  BY <1>4, <1>6 DEF Fitting
<1>8. ps \in Seq(Seq(Item)) /\ DOMAIN ps = 1..n
  BY <1>7, SeqIs
<1>9. PICK w : w = ps
  OBVIOUS
<1>10. w \in Seq(Seq(Item)) /\ DOMAIN w = 1..n /\ u = FlattenSeq(w)
  BY <1>5, <1>8, <1>9
<1>11. ASSUME NEW j \in DOMAIN u, u[j] \notin Char
       PROVE  \E i \in 1..Len(s) : Gives(s, i, source, look) /\ StandsFor(u[j], s, i, source, look)
  <2>1. j \in DOMAIN FlattenSeq(w)
    BY <1>10
  <2>2. PICK i \in DOMAIN w : \E k \in DOMAIN w[i] : FlattenSeq(w)[j] = w[i][k]
    BY <1>10, <2>1, FlattenFrom
  <2>3. i \in 1..n /\ \E k \in DOMAIN ps[i] : u[j] = ps[i][k]
    BY <1>9, <1>10, <2>2
  <2> QED
    BY <1>1, <1>6, <1>11, <2>3 DEF Fitting
<1>12. ASSUME NEW i \in 1..Len(s), Gives(s, i, source, look)
       PROVE  s[i + 1] \in Restored(u)
  <2>1. i \in 1..n
    BY <1>1
  <2>2. PICK x : ps[i] = <<x>> /\ StandsFor(x, s, i, source, look)
    BY <1>6, <1>12, <2>1 DEF Fitting
  <2>3. i \in DOMAIN w /\ w[i] = <<x>>
    BY <1>9, <1>10, <2>1, <2>2
  <2>4. 1 \in DOMAIN w[i] /\ w[i][1] = x
    BY <2>3
  <2>5. PICK k : k = 1
    OBVIOUS
  <2>6. k \in DOMAIN w[i] /\ w[i][k] = x
    BY <2>4, <2>5
  <2>7. PICK j \in DOMAIN FlattenSeq(w) : FlattenSeq(w)[j] = w[i][k]
    BY <1>10, <2>3, <2>6, FlattenHas
  <2>8. j \in DOMAIN u /\ u[j] = x
    BY <1>10, <2>6, <2>7
  <2>9. x \notin Char /\ x.of = s[i + 1]
    BY <2>2 DEF StandsFor
  <2> QED
    BY <2>8, <2>9 DEF Restored
<1> QED
  BY <1>11, <1>12

\* What the assumption says of the lookup and the replies.
LEMMA KnownIs == Known \in Lookup /\ Replies \subseteq Seq(Char)
  BY WalkAssumption

\* What a tool is given, whatever carried it, the gate lets through.
LEMMA GateIs ==
    ASSUME NEW s \in Seq(Char), NEW source, NEW u, u = UnmaskInner(s, "tool", source, FALSE, Known),
           NEW h \in Restored(u)
    PROVE  /\ h \notin Literal \cup BrokerHandle
           /\ IF h \in Known.local THEN h \in Known.promoted ELSE ~Gated(h)
<1>1. PICK j \in DOMAIN u : u[j] \notin Char /\ u[j].of = h
  BY DEF Restored
<1>2. PICK i \in 1..Len(s) : Gives(s, i, source, Known) /\ StandsFor(u[j], s, i, source, Known)
  BY <1>1, KnownIs, ToolRestoredIs
<1>3. h = s[i + 1] /\ h \in Handle \ Literal /\ Open(h, Known)
  BY <1>1, <1>2 DEF Gives, StandsFor, TokenAt
<1> QED
  BY <1>3 DEF Open, Gated

\* A leaf that is one token is a whole value.
LEMMA SameGiven ==
    ASSUME NEW s \in Seq(Char), Len(s) = 3, TokenAt(s, 1)
    PROVE  WholeValueMode(s, 1, "leaf") = "bare"
<1>1. DOMAIN s = 1..3 /\ 1 + 2 = 3
  OBVIOUS
<1>2. \A j \in DOMAIN s \ (1..(1 + 2)) : s[j] = Blank
  BY <1>1
<1> QED
  BY <1>2 DEF WholeValueMode

\* The arguments string against the decoded input.
LEMMA RawIs ==
    ASSUME NEW s \in Seq(Char), NEW u, u = UnmaskToolInput(Encoded(s), Known),
           NEW v, v = UnmaskDecodedLeaf(s, Known)
    PROVE  /\ Restored(u) \subseteq Restored(v)
           /\ \A j \in DOMAIN u : u[j] \notin Char /\ u[j].of \notin Known.local => u[j].esc
           /\ TokenAt(s, 1) /\ Len(s) = 3 => Restored(u) = Restored(v)
<1>1. PICK e : e = Encoded(s)
  OBVIOUS
<1>2. e \in Seq(Char)
  BY <1>1, EncodedIs
<1>3. PICK L : Placed(s, L, e)
  BY <1>1, Places
<1>4. u = UnmaskInner(e, "tool", "raw", FALSE, Known)
  BY <1>1 DEF UnmaskToolInput
<1>5. v = UnmaskInner(s, "tool", "leaf", FALSE, Known)
  BY DEF UnmaskDecodedLeaf
<1>6. \A j \in DOMAIN u : u[j] \notin Char =>
          \E i \in 1..Len(e) : Gives(e, i, "raw", Known) /\ StandsFor(u[j], e, i, "raw", Known)
  BY <1>2, <1>4, KnownIs, ToolRestoredIs
<1>7. \A i \in 1..Len(s) : Gives(s, i, "leaf", Known) => s[i + 1] \in Restored(v)
  BY <1>5, KnownIs, ToolRestoredIs
<1>8. ASSUME NEW j \in DOMAIN u, u[j] \notin Char
      PROVE  u[j].of \in Restored(v) /\ (u[j].of \notin Known.local => u[j].esc = TRUE)
  <2>1. PICK a \in 1..Len(e) : Gives(e, a, "raw", Known) /\ StandsFor(u[j], e, a, "raw", Known)
    BY <1>6, <1>8
  <2>2. TokenAt(e, a)
    BY <2>1 DEF Gives
  <2>3. PICK i \in 1..Len(s) : TokenAt(s, i) /\ s[i + 1] = e[a + 1]
    BY <1>3, <2>2, TokenInside
  <2>4. PICK h : h = e[a + 1]
    OBVIOUS
  <2>5. u[j].of = h
    BY <2>1, <2>4 DEF StandsFor
  <2>6. Open(h, Known) /\ Fully(h, WholeValueMode(e, a, "raw"), Known)
    BY <2>1, <2>4 DEF Gives
  <2>7. WholeValueMode(e, a, "raw") # "none" =>
            WholeValueMode(e, a, "raw") = "quoted" /\ Len(s) = 3 /\ TokenAt(s, 1) /\ s[2] = e[a + 1]
    BY <1>2, <1>3, <2>2, QuotedIs
  <2>8. h \in Restored(v)
    <3>1. CASE WholeValueMode(e, a, "raw") # "none"
      <4>1. Len(s) = 3 /\ TokenAt(s, 1) /\ s[1 + 1] = h
        BY <2>4, <2>7, <3>1
      <4>2. WholeValueMode(s, 1, "leaf") = "bare"
        BY <4>1, SameGiven
      <4>3. Fully(h, "bare", Known)
        BY DEF Fully
      <4>4. Gives(s, 1, "leaf", Known)
        BY <2>6, <4>1, <4>2, <4>3 DEF Gives
      <4>5. 1 \in 1..Len(s)
        BY <4>1
      <4> QED
        BY <1>7, <4>1, <4>4, <4>5
    <3>2. CASE WholeValueMode(e, a, "raw") = "none"
      <4>1. Fully(h, WholeValueMode(s, i, "leaf"), Known)
        BY <2>6, <3>2 DEF Fully
      <4>2. Gives(s, i, "leaf", Known)
        BY <2>3, <2>4, <2>6, <4>1 DEF Gives
      <4> QED
        BY <1>7, <2>3, <2>4, <4>2
    <3> QED
      BY <3>1, <3>2
  <2>9. WholeValueMode(e, a, "raw") # "bare"
    BY <2>7
  <2>10. u[j].of \notin Known.local => u[j].esc = TRUE
    BY <2>1, <2>9 DEF StandsFor
  <2> QED
    BY <2>5, <2>8, <2>10
<1>9. Restored(u) \subseteq Restored(v)
  <2> SUFFICES ASSUME NEW h \in Restored(u) PROVE h \in Restored(v)
    OBVIOUS
  <2>1. PICK j \in DOMAIN u : u[j] \notin Char /\ u[j].of = h
    BY DEF Restored
  <2> QED
    BY <1>8, <2>1
<1>10. ASSUME TokenAt(s, 1), Len(s) = 3
       PROVE  Restored(v) \subseteq Restored(u)
  <2> SUFFICES ASSUME NEW h \in Restored(v) PROVE h \in Restored(u)
    OBVIOUS
  <2>1. PICK j \in DOMAIN v : v[j] \notin Char /\ v[j].of = h
    BY DEF Restored
  <2>2. PICK i \in 1..Len(s) : Gives(s, i, "leaf", Known) /\ StandsFor(v[j], s, i, "leaf", Known)
    BY <1>5, <2>1, KnownIs, ToolRestoredIs
  <2>3. TokenAt(s, i) /\ h = s[i + 1] /\ Open(s[i + 1], Known)
    BY <2>1, <2>2 DEF Gives, StandsFor
  <2>4. i = 1
    BY <1>10, <2>3 DEF TokenAt
  <2>5. s[1] = LB /\ s[2] = h /\ s[3] = RB /\ h \in Handle \ Literal /\ Open(h, Known)
    BY <1>10, <2>3, <2>4 DEF TokenAt
  <2>6. s[1] \notin Escaped /\ s[2] \notin Escaped /\ s[3] \notin Escaped
    BY <2>5, CharsDiffer DEF Escaped
  <2>7. L[0] = 1 /\ L[1] = 2 /\ L[2] = 3 /\ L[3] = 4
    <3>1. \A k \in 1..3 : L[k] = L[k - 1] + 1
      <4> SUFFICES ASSUME NEW k \in 1..3 PROVE L[k] = L[k - 1] + 1
        OBVIOUS
      <4>1. k \in 1..Len(s) /\ s[k] \notin Escaped
        BY <1>10, <2>6
      <4> QED
        BY <1>3, <4>1, PlacedIs
    <3>2. L[0] = 1
      BY <1>3 DEF Placed
    <3> QED
      BY <3>1, <3>2
  <2>8. /\ e[2] = s[1] /\ e[3] = s[2] /\ e[4] = s[3]
    <3>1. \A k \in 1..3 : e[L[k]] = s[k]
      BY <1>3, <1>10 DEF Placed
    <3> QED
      BY <2>7, <3>1
  <2>9. e[1] = Quote /\ Len(e) = 5 /\ e[5] = Quote
    BY <1>3, <1>10, <2>7 DEF Placed
  <2>10. TokenAt(e, 2)
    BY <2>5, <2>8, <2>9 DEF TokenAt
  <2>11. WholeValueMode(e, 2, "raw") = "quoted"
    <3>1. ~(\A k \in DOMAIN e \ (2..(2 + 2)) : e[k] = Blank)
      <4>1. 1 \in DOMAIN e /\ 1 \notin 2..(2 + 2)
        BY <1>2, <2>9
      <4> QED
        BY <2>9, <4>1, CharsDiffer
    <3>2. IsUnescapedQuote(e, 1)
      <4>1. {k \in 0..(1 - 1) : \A x \in (k + 1)..(1 - 1) : e[x] = Backslash} = {0}
        OBVIOUS
      <4>2. PICK S : S = {k \in 0..(1 - 1) : \A x \in (k + 1)..(1 - 1) : e[x] = Backslash}
        OBVIOUS
      <4>3. (CHOOSE k \in S : \A x \in S : k <= x) = 0
        BY <4>1, <4>2
      <4>4. (1 - 1 - (CHOOSE k \in S : \A x \in S : k <= x)) % 2 = 0
        <5>1. PICK c : c = CHOOSE k \in S : \A x \in S : k <= x
          OBVIOUS
        <5>2. c = 0 /\ (1 - 1 - 0) % 2 = 0
          BY <4>3, <5>1
        <5> QED
          BY <5>1, <5>2, Zenon
      <4> QED
        BY <2>9, <4>2, <4>4 DEF IsUnescapedQuote
    <3>3. {k \in (2 + 4)..Len(e) : e[k] # Blank} = {}
      BY <2>9
    <3>4. /\ 2 > 1 /\ 2 + 3 <= Len(e) /\ 2 - 1 = 1 /\ 2 + 3 = 5 /\ e[5] = Quote
      BY <2>9
    <3> QED
      BY <3>1, <3>2, <3>3, <3>4 DEF WholeValueMode
  <2>12. Fully(h, WholeValueMode(e, 2, "raw"), Known)
    BY <2>11 DEF Fully
  <2>13. e[2 + 1] = h
    BY <2>5, <2>8
  <2>14. Gives(e, 2, "raw", Known)
    BY <2>5, <2>10, <2>12, <2>13 DEF Gives
  <2>15. 2 \in 1..Len(e)
    BY <2>9
  <2>16. PICK k : k = 2
    OBVIOUS
  <2>17. k \in 1..Len(e) /\ Gives(e, k, "raw", Known) /\ e[k + 1] = h
    BY <2>13, <2>14, <2>15, <2>16
  <2>18. \A i1 \in 1..Len(e) : Gives(e, i1, "raw", Known) => e[i1 + 1] \in Restored(u)
    BY <1>2, <1>4, KnownIs, ToolRestoredIs
  <2> QED
    BY <2>17, <2>18
<1> QED
  BY <1>8, <1>9, <1>10

\* A part of the reply is as the restoring of its text left it.
ReplyInv ==
    \/ reply = NoReply
    \/ \E pt \in Parts(api), s \in Replies :
           reply = [part |-> pt, of |-> s, to |-> UnmaskPart(pt, IF pt = "tool_raw" THEN Encoded(s) ELSE s)]

\* A reply part stays what its text was unmasked to.
LEMMA ReplyNextInv == ReplyInv /\ [WalkNext]_walkVars => ReplyInv'
<1> SUFFICES ASSUME ReplyInv, [WalkNext]_walkVars PROVE ReplyInv'
  OBVIOUS
<1>1. api' = api
  BY DEF WalkNext, walkVars, Receive, Prewarm, WalkLeaf, Forward, Answered, Register, Respond
<1>2. CASE Respond
  BY <1>1, <1>2 DEF Respond, ReplyInv
<1>3. CASE reply' = reply
  BY <1>1, <1>3 DEF ReplyInv
<1> QED
  BY <1>2, <1>3 DEF WalkNext, walkVars, Receive, Prewarm, WalkLeaf, Forward, Answered, Register

\* The reply part of a reachable state, as its text unmasked.
LEMMA PartOf ==
    ASSUME ReplyInv, reply.part # "none"
    PROVE  \E pt, s : /\ s \in Seq(Char) /\ reply.part = pt /\ reply.of = s
                      /\ reply.to = UnmaskPart(pt, IF pt = "tool_raw" THEN Encoded(s) ELSE s)
<1>1. reply # NoReply
  BY DEF NoReply
<1>2. PICK pt \in Parts(api), s \in Replies :
          reply = [part |-> pt, of |-> s, to |-> UnmaskPart(pt, IF pt = "tool_raw" THEN Encoded(s) ELSE s)]
  BY <1>1 DEF ReplyInv
<1>3. s \in Seq(Char)
  BY KnownIs
<1> QED
  BY <1>2, <1>3

\* Literals, the broker's handles and gated ones stay tokens in a tool's input.
LEMMA GatedIs == ReplyInv => ToolsStayGated
<1> SUFFICES ASSUME ReplyInv PROVE ToolsStayGated
  OBVIOUS
<1>1. ASSUME reply.part = "thinking" PROVE reply.to = reply.of
  <2>1. reply.part # "none"
    BY <1>1
  <2>2. PICK pt, s : /\ reply.part = pt /\ reply.of = s
                     /\ reply.to = UnmaskPart(pt, IF pt = "tool_raw" THEN Encoded(s) ELSE s)
    BY <2>1, PartOf
  <2> QED
    BY <1>1, <2>2 DEF UnmaskPart
<1>2. ASSUME reply.part \in {"tool_raw", "tool_leaf"}, NEW h \in Restored(reply.to)
      PROVE  /\ h \notin Literal \cup BrokerHandle
             /\ IF h \in Known.local THEN h \in Known.promoted ELSE ~Gated(h)
  <2>1. reply.part # "none"
    BY <1>2
  <2>2. PICK pt, s : /\ s \in Seq(Char) /\ reply.part = pt
                     /\ reply.to = UnmaskPart(pt, IF pt = "tool_raw" THEN Encoded(s) ELSE s)
    BY <2>1, PartOf
  <2>3. CASE pt = "tool_raw"
    <3>1. Encoded(s) \in Seq(Char)
      BY <2>2, EncodedIs
    <3>2. reply.to = UnmaskInner(Encoded(s), "tool", "raw", FALSE, Known)
      BY <2>2, <2>3 DEF UnmaskPart, UnmaskToolInput
    <3> QED
      BY <1>2, <3>1, <3>2, GateIs
  <2>4. CASE pt = "tool_leaf"
    <3>1. reply.to = UnmaskInner(s, "tool", "leaf", FALSE, Known)
      BY <2>2, <2>4 DEF UnmaskPart, UnmaskDecodedLeaf
    <3> QED
      BY <1>2, <2>2, <3>1, GateIs
  <2> QED
    BY <1>2, <2>2, <2>3, <2>4
<1> QED
  BY <1>1, <1>2 DEF ToolsStayGated

\* Restoring in the arguments string and in the decoded input comes to the same.
LEMMA AgreesIs == ReplyInv => RawAgreesWithLeaf
<1> SUFFICES ASSUME ReplyInv, reply.part = "tool_raw" PROVE RawAgreesWithLeaf
  BY DEF RawAgreesWithLeaf
<1>1. reply.part # "none"
  OBVIOUS
<1>2. PICK pt, s : /\ s \in Seq(Char) /\ reply.part = pt /\ reply.of = s
                   /\ reply.to = UnmaskPart(pt, IF pt = "tool_raw" THEN Encoded(s) ELSE s)
  BY <1>1, PartOf
<1>3. reply.to = UnmaskToolInput(Encoded(s), Known)
  BY <1>2 DEF UnmaskPart
<1>4. PICK u, v : u = UnmaskToolInput(Encoded(s), Known) /\ v = UnmaskDecodedLeaf(s, Known)
  OBVIOUS
<1>5. /\ Restored(u) \subseteq Restored(v)
      /\ \A j \in DOMAIN u : u[j] \notin Char /\ u[j].of \notin Known.local => u[j].esc
      /\ TokenAt(s, 1) /\ Len(s) = 3 => Restored(u) = Restored(v)
  BY <1>2, <1>4, RawIs
<1>6. reply.to = u /\ reply.of = s /\ v = UnmaskDecodedLeaf(reply.of, Known)
  BY <1>2, <1>3, <1>4
<1> QED
  BY <1>5, <1>6, Zenon DEF RawAgreesWithLeaf

\* The walks of the three wires (walk.rs, openai_chat.rs, openai_responses.rs),
\* for any paths of their grammar, any bodies up to the bound and any replies: in
\* every reachable state what the prewarm pass gave up on is refused; a secret
\* registered before the body came stays home, even through the fallback walk or
\* with masking off, in every field the walk of its wire reads (a document's title
\* and the other unread fields of a block leave as they came); the fallback walk masks the personal data the messages walk
\* would have masked; only what the user wrote passes by its bypass markers; and
\* of a reply no gated value reaches a tool, the arguments string and the
\* decoded input giving it the same.
THEOREM WalkIsProtected == WalkSpec => []WalkProtects
<1>1. WalkInit => WalkInv /\ ReplyInv
  BY WalkInitInv DEF WalkInit, ReplyInv
<1>2. WalkInv /\ ReplyInv /\ [WalkNext]_walkVars => WalkInv' /\ ReplyInv'
  <2> SUFFICES ASSUME WalkInv, ReplyInv, [WalkNext]_walkVars PROVE WalkInv'
    BY ReplyNextInv
  <2>1. CASE UNCHANGED walkVars
    <3>1. \A i : Treat(body[i])' = Treat(body[i])
      BY <2>1 DEF walkVars, Treat
    <3>2. Refused(at)' <=> Refused(at)
      BY <2>1 DEF walkVars, Refused, Treat, Hit
    <3>3. WalkTypeOK'
      BY <2>1 DEF walkVars, WalkInv, WalkTypeOK
    <3> QED
      BY <2>1, <3>1, <3>2, <3>3 DEF walkVars, WalkInv
  <2> QED
    BY <2>1, ReceiveInv, PrewarmInv, WalkLeafInv, ForwardInv, AnsweredInv, RegisterInv, RespondInv DEF WalkNext
<1>3. WalkInv /\ ReplyInv => WalkProtects
  BY GivenUpIs, HomeIs, CoversIs, BypassIs, GatedIs, AgreesIs DEF WalkProtects, WalkInv
<1> QED
  BY <1>1, <1>2, <1>3, PTL DEF WalkSpec
=============================================================================
