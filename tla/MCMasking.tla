----------------------------- MODULE MCMasking -----------------------------
(* Two parts of the engine that share no state here, checked in one run:   *)
(* the token store with what turns and tool calls get out of it, and the   *)
(* detection passes over one leaf.  Init picks the part that moves; the    *)
(* other rests in one of its initial states.                               *)
EXTENDS Tokens, MCDetect

CONSTANTS sec, opt, key, codeA, codeB,
          hSec, hSecPii, hOpt, hOptPii, hKey, hFixed, t1, t2

Turns == Permutations(Turn)

MCRestore == [h \in Handle |-> IF h = hOptPii THEN "whole" ELSE "gated"]
MCSecretOp == [v \in Val |-> CASE v \in {sec, opt} -> "broker" [] v = key -> "local" [] OTHER -> None]
MCDetected == [v \in Val |-> CASE v \in {sec, opt} -> "pii" [] v \in {codeA, codeB} -> "fixed"
                               [] OTHER -> None]
MCMinted ==
    [kv \in {"pii", "broker", "local", "fixed"} \X Val |->
        CASE kv[1] = "fixed" -> hFixed
          [] kv = <<"broker", sec>> -> hSec
          [] kv = <<"broker", opt>> -> hOpt
          [] kv = <<"pii", sec>> -> hSecPii
          [] kv = <<"pii", opt>> -> hOptPii
          [] kv = <<"local", key>> -> hKey
          [] OTHER -> hKey]
Rule(s, tool, dest) == [secret |-> s, tool |-> tool, ptr |-> "/p", dest |-> dest]
MCPolicies == {<<>>, <<Rule(sec, "psql", {"db"}), Rule(None, "psql", {}), Rule(None, "bash", {}),
                       Rule(None, "mcp", {})>>}
MCCalls == {[tool |-> x, ptr |-> "/p", host |-> y] : x \in {"psql", "bash", "mcp"}, y \in {"db", "other", None}}

-----------------------------------------------------------------------------

VARIABLE part   \* the part that moves

maskingVars == <<part, tvars, detectVars>>

TokensRest == rules = {} /\ brokerPolicy = <<>> /\ TokensInit
DetectRests ==
    engine = (CHOOSE p \in EngineConfigs : TRUE) /\ allow = {} /\ dated = {} /\ DetectInit

MaskingInit ==
    \/ part = "tokens" /\ TokensInit /\ DetectRests
    \/ part = "detect" /\ TokensRest /\ DetectInit

MaskingNext ==
    /\ UNCHANGED part
    /\ \/ part = "tokens" /\ TokensNext /\ UNCHANGED detectVars
       \/ part = "detect" /\ DetectNext /\ UNCHANGED tvars

MaskingSpec == MaskingInit /\ [][MaskingNext]_maskingVars
=============================================================================
