------------------------------ MODULE MCEngine ------------------------------
(* The engine under two choices of writers, checked in one run: policies,  *)
(* secrets and midnights that race calls over the detection cache, and     *)
(* config writes of the ML section that race loads and calls.  Init picks  *)
(* which.                                                                  *)
EXTENDS MCMaskEngine

VARIABLE part   \* what is written

engineRunVars == <<part, maskVars>>

EngineInit == part \in {"cache", "ml"} /\ MaskInit /\ (part = "cache" => intent \in OptionalA)

\* The ML section stays as booted, whose load may end at any time; a midnight falls into
\* behaviours without a config write, and the other way round: both together multiply the
\* states and meet in no step of a call.
CacheWrites == intent' = intent /\ today' + writes' <= 1

\* Two models and two writes, over one leaf without a bypass span; of the policy only
\* the master switch moves.
MlWrites ==
    /\ [policy' EXCEPT !.enabled = TRUE] = Boot
    /\ UNCHANGED <<secrets, today>>
    /\ \A t \in Threads : call'[t].leaves \subseteq {plain}

EngineNext ==
    /\ UNCHANGED part
    /\ \/ part = "cache" /\ MaskNext /\ CacheWrites
       \/ part = "ml" /\ MaskNext /\ MlWrites

EngineSpec == EngineInit /\ [][EngineNext]_engineRunVars
=============================================================================
