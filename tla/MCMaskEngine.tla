---------------------------- MODULE MCMaskEngine ----------------------------
(* Small instances of MaskEngine.  k is the admin key, s a secret resolved  *)
(* later, r an atom the regexes find, f one only a model finds, d a date    *)
(* that stops being near the current day at the first midnight.             *)
EXTENDS MaskEngine, TLC

CONSTANTS k, s, r, f, d, plain, marked, A, B

MCOuter == [l \in Leaves |-> IF l = plain THEN {s, r, f, d} ELSE {r, f}]
MCBypassed == [l \in Leaves |-> IF l = plain THEN {} ELSE {k, s, r}]
MCSurface == [l \in Leaves |-> IF l = plain THEN "tool" ELSE "user"]
MCDateOf == d :> -1
MCFinds == [m \in Models |-> IF m = A THEN {f} ELSE {}]

MCBoot == [enabled |-> TRUE, off |-> {}, rules |-> {r, f, d},
           preserve |-> TRUE, keep |-> FALSE, cap |-> 1]
\* A rule removed and a zero cap; a Keep operator; a surface switched off.
MCConfigs ==
  {[MCBoot EXCEPT !.rules = {f, d}, !.cap = 0],
   [MCBoot EXCEPT !.keep = TRUE, !.cap = 2],
   [MCBoot EXCEPT !.off = {"tool"}]}

EitherAtBoot == {NoWant, [on |-> TRUE, model |-> A, req |-> FALSE]}
OptionalA == {[on |-> TRUE, model |-> A, req |-> FALSE]}

EngineSymmetry == Permutations(Threads)
=============================================================================
