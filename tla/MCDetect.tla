------------------------------ MODULE MCDetect ------------------------------
(* A leaf of three bytes, at most three findings in it.                    *)
EXTENDS Detect

MCMostFound == [secrets |-> 2, rules |-> 1, regex |-> 2, ml |-> 1]
MCSecretHits == {<<0, 2>>, <<1, 3>>}
MCRuleHits == {<<0, 1>>, <<0, 2>>, <<1, 3>>, <<1, 2>>}
MCAllowed == {<<0, 3>>, <<0, 2>>}
MCDated == {<<1, 3>>}

Report(entity, from, to, base, context, look) ==
  [entity |-> entity, from |-> from, to |-> to, base |-> base, context |-> context, look |-> look]

MCReports == {
  Report("PHONE_NUMBER", 0, 2, 40, FALSE, "plain"),
  Report("PHONE_NUMBER", 0, 2, 40, TRUE, "plain"),
  Report("API_KEY", 0, 2, 55, FALSE, "implausible"),
  Report("API_KEY", 1, 3, 55, FALSE, "plain"),
  Report("URL_CREDENTIAL", 1, 2, 85, FALSE, "plain"),
  Report("URL_CREDENTIAL", 1, 3, 85, FALSE, "plain"),
  Report("URL", 0, 3, 60, FALSE, "plain"),
  Report("URL", 0, 3, 60, FALSE, "quoted"),
  Report("URL", 0, 3, 60, FALSE, "namespaced"),
  Report("DOMAIN", 1, 3, 50, FALSE, "filename"),
  Report("IP_ADDRESS", 0, 2, 60, FALSE, "reserved"),
  Report("CREDIT_CARD", 0, 2, 100, FALSE, "plain")}

MCMlReports == {Report("PERSON", 1, 3, 90, FALSE, "plain"),
                Report("PERSON", 0, 2, 90, FALSE, "plain")}

Policy(floor, entities, ops, preserve) ==
  [floor |-> floor, entities |-> entities, ops |-> ops, preserve |-> preserve,
   default |-> "token"]

Contact == {"API_KEY", "URL_CREDENTIAL", "CREDIT_CARD", "PHONE_NUMBER"}
Network == {"URL", "DOMAIN", "IP_ADDRESS"}

(* Strict; minimal; balanced; balanced with URLs and persons named in      *)
(* entity_operators, kept or masked.                                       *)
MCEngineConfigs == {
  Policy(40, Contact \cup Network \cup {"PERSON"}, <<>>, TRUE),
  Policy(60, {"API_KEY", "URL_CREDENTIAL", "CREDIT_CARD"}, <<>>, TRUE),
  Policy(50, Contact, <<>>, TRUE),
  Policy(50, Contact, [e \in {"URL", "PERSON"} |-> "keep"], FALSE),
  Policy(50, Contact, [e \in {"URL", "PERSON"} |-> "redact"], FALSE)}

MCRuleHitsEmpty == {<<0, 0>>, <<0, 2>>}
=============================================================================
