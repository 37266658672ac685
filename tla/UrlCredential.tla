---------------------------- MODULE UrlCredential ----------------------------
(***************************************************************************)
(* The recognizer of a credential in the parameters of an address, which   *)
(* may be percent-encoded any number of times over.                        *)
(*   crates/sordino-engine/src/recognizers.rs  UrlCredentialRecognizer     *)
(*                                                                         *)
(* A text is a sequence of atoms <<c, d>>: a character class c that is     *)
(* written encoded d times over, so that d rounds of decoding show it.     *)
(* "?" bounds a name and ends no value, "&" does both, "name" is the name  *)
(* of a credential, "v" stands for two or more characters of a value.      *)
(***************************************************************************)
EXTENDS Spans

CONSTANTS AddressLength,  \* atoms in the text
          MaxDepth,       \* bound: times a character is encoded over
          DecodeLevels    \* MAX_DECODE_LEVELS

ASSUME UrlAssumption ==
  AddressLength \in Nat \ {0} /\ MaxDepth \in Nat /\ DecodeLevels \in Nat

VARIABLES address, found, masked
urlVars == <<address, found, masked>>

UrlAtoms == ({"?", "=", "&"} \X (0..MaxDepth)) \cup {<<"name", 0>>, <<"v", 0>>}

(* The atom is decoded after k rounds; before, its characters are a "%"    *)
(* and two digits, which belong to a value and bound nothing.              *)
Shows(k, i, classes) == address[i][1] \in classes /\ address[i][2] <= k

ValueEnd(k, i) ==
  LET ends == {j \in i..Len(address) : Shows(k, j, {"&"})}
  IN IF ends = {} THEN Len(address) ELSE (CHOOSE j \in ends : \A m \in ends : j <= m) - 1

(* The parameter pattern matches at i after k rounds: a boundary, a name,  *)
(* a separator, and a value of at least one atom.                          *)
Param(k, i) ==
  /\ i = 1 \/ Shows(k, i - 1, {"?", "&", "="})
  /\ Shows(k, i, {"name"})
  /\ i + 1 <= Len(address) /\ Shows(k, i + 1, {"="})
  /\ ValueEnd(k, i + 2) >= i + 2

Value(k, i) ==
  [from |-> i + 1, to |-> ValueEnd(k, i + 2), source |-> "regex", score |-> 85]

(* The matches of one scan do not overlap: a match that starts inside the  *)
(* value of an earlier one is not made.                                    *)
ScanLevel(k) ==
  LET starts == {i \in 1..Len(address) : Param(k, i)}
  IN {Value(k, i) : i \in {i \in starts :
        ~\E j \in starts : j < i /\ i - 1 <= ValueEnd(k, j + 2)}}

Deepest == CHOOSE d \in {address[i][2] : i \in 1..Len(address)} :
             \A i \in 1..Len(address) : address[i][2] <= d

(* Deviation: only the deepest copy is scanned.                            *)
LastLevelOnly == {IF Deepest <= DecodeLevels THEN Deepest ELSE DecodeLevels}

(* The raw text and every round until nothing is left to decode.           *)
Levels == {k \in 0..DecodeLevels : k <= Deepest}

Analyze == UNION {ScanLevel(k) : k \in Levels}

UrlInit ==
  /\ address \in [1..AddressLength -> UrlAtoms]
  /\ found = {} /\ masked = {}

(* The recognizer's results, resolved with the rest of the detections.     *)
ScanAddress ==
  /\ found = {}
  /\ found' = Analyze
  /\ found' # {}
  /\ masked' = LET plan == Resolve(SetToSeq(found'))
               IN UNION {Bytes(plan[n]) : n \in 1..Len(plan)}
  /\ UNCHANGED address

UrlNext == ScanAddress
UrlSpec == UrlInit /\ [][UrlNext]_urlVars

(* The shape of the state.                                                 *)
UrlTypeOK ==
  /\ masked \subseteq 1..Len(address)
  /\ \A f \in found : f.from \in 1..Len(address) /\ f.to \in (f.from + 1)..Len(address)

(* What a comment says of every finding (recognizers.rs:909-910, "the      *)
(* larger span wins, so masking is never narrowed").                       *)
NeverNarrowed == \A f \in found : Bytes(f) \subseteq masked

(* What holds: overlap resolution drops a value only for one that covers   *)
(* it, or that crosses it or one around it.                                *)
Crossed(f) == \E g \in found :
  /\ Overlap(f, g)
  /\ ~(Bytes(f) \subseteq Bytes(g)) /\ ~(Bytes(g) \subseteq Bytes(f))
OnlyCrossedNarrowed == \A f \in found : Bytes(f) \subseteq masked \/ Crossed(f)

(* A credential is masked to the end of its value as it reads after the    *)
(* round that shows its name and its separator, even when a deeper round   *)
(* would split the value (recognizers.rs:905-910).                         *)
Round(i) ==
  LET before == IF i = 1 THEN 0 ELSE address[i - 1][2]
  IN CHOOSE k \in {before, address[i + 1][2]} : before <= k /\ address[i + 1][2] <= k
WholeValueMasked ==
  found # {} => \A i \in 1..(Len(address) - 2) :
    /\ address[i][1] = "name" /\ address[i + 1][1] = "="
    /\ Round(i) <= DecodeLevels
    /\ Param(Round(i), i)
    => \/ Bytes(Value(Round(i), i)) \subseteq masked
       \/ \E f \in found : Bytes(Value(Round(i), i)) \subseteq Bytes(f) /\ Crossed(f)

(* A credential parameter of an address is masked as a whole at the level  *)
(* that shows it, and a deeper level takes nothing away from it, unless it *)
(* is another credential's whose value crosses it.                         *)
UrlMasked ==
  /\ UrlTypeOK
  /\ OnlyCrossedNarrowed
  /\ WholeValueMasked
=============================================================================
