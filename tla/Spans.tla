------------------------------- MODULE Spans -------------------------------
(***************************************************************************)
(* Overlap resolution and splicing: what turns the findings of every       *)
(* detection pass over one leaf into the list of replacements, and what    *)
(* the replacements do to the text.                                        *)
(*   crates/sordino-engine/src/detect.rs  resolve_overlaps                 *)
(*   crates/sordino-engine/src/lib.rs     apply                            *)
(*                                                                         *)
(* A text of n bytes is <<1, ..., n>>; a finding's bytes are from+1 .. to, *)
(* as in a Rust range from..to.  A finding is a record with at least       *)
(* [from, to, source, score]; its op says what replaces it.                *)
(***************************************************************************)
EXTENDS Integers, Sequences, SequencesExt, FiniteSets

(* The order of trust: a registered secret, a rule of the user, a          *)
(* recognizer of either kind.                                              *)
Tier(d) == CASE d.source = "secret" -> 0
             [] d.source = "custom" -> 1
             [] OTHER -> 2

Length(d) == d.to - d.from
Bytes(d) == (d.from + 1)..d.to

(* d is sorted before e, their places in the list aside.                   *)
Outranks(d, e) ==
  \/ Tier(d) < Tier(e)
  \/ Tier(d) = Tier(e) /\ d.score > e.score
  \/ Tier(d) = Tier(e) /\ d.score = e.score /\ Length(d) > Length(e)

Overlap(d, e) == d.from < e.to /\ e.from < d.to

(* The order of the list once it is sorted; the sort is stable.             *)
Before(ds, i, j) ==
  \/ Outranks(ds[i], ds[j])
  \/ ~Outranks(ds[j], ds[i]) /\ i < j

(* Greedily, best first: a finding is kept that overlaps none kept before  *)
(* it.                                                                     *)
Kept(ds) ==
  CHOOSE kept \in SUBSET DOMAIN ds :
    \A i \in DOMAIN ds :
      i \in kept <=> ~\E k \in kept : Before(ds, k, i) /\ Overlap(ds[i], ds[k])

(* The places of the kept findings by their start, ties as they were kept. *)
StartsBefore(ds, i, j) ==
  \/ ds[i].from < ds[j].from
  \/ ds[i].from = ds[j].from /\ Before(ds, i, j)
InOrder(ds, kept) ==
  CHOOSE at \in [1..Cardinality(kept) -> kept] :
    /\ \A i \in kept : \E n \in DOMAIN at : at[n] = i
    /\ \A n, m \in DOMAIN at : n < m => StartsBefore(ds, at[n], at[m])

Resolve(ds) ==
  LET at == InOrder(ds, Kept(ds)) IN [n \in DOMAIN at |-> ds[at[n]]]

(* The items of s that are in S.                                           *)
Those(s, S) == FlattenSeq([i \in DOMAIN s |-> IF s[i] \in S THEN <<s[i]>> ELSE <<>>])

(* What is put in the place of a finding: a token of the model is two      *)
(* bytes long, a mask leaves the finding's last byte.                      *)
TokenBytes == <<-1, -2>>
Replacement(d) ==
  CASE d.op = "token" -> TokenBytes
    [] d.op = "redact" -> <<-3>>
    [] d.op = "mask" -> [i \in 1..Length(d) |-> IF i = Length(d) THEN d.to ELSE -4]

Splice(out, d) ==
  IF d.op = "keep" THEN out
  ELSE SubSeq(out, 1, d.from) \o Replacement(d) \o SubSeq(out, d.to + 1, Len(out))

(* The plan is applied from its last finding to its first.                 *)
Apply(text, plan) ==
  LET n == Len(plan)
      out[k \in 0..n] == IF k = 0 THEN text ELSE Splice(out[k - 1], plan[n + 1 - k])
  IN out[n]
=============================================================================
