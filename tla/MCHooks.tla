------------------------------ MODULE MCHooks ------------------------------
(* Six parts that share no state here, checked in one run: the ZDR reports *)
(* and their narration, the mask gate, the settings files, the Codex       *)
(* config, the doctor and the layered configuration.  Init picks the part  *)
(* that moves; the others rest in one of their initial states.             *)
EXTENDS ZdrSessions, Gate, MCSettings, MCCodex, Doctor, MCConfigPlane

VARIABLE part   \* the part that moves

hooksVars == <<part, zdrVars, gateVars, setVars, codexVars, doctorVars, configVars>>

SettingsRest == settings = [n \in Names |-> NoFile] /\ SettingsInit
CodexRests == doc = NoDoc /\ CodexInit
GateRests == registry = "none"
DoctorRests == host = "fine" /\ route = NoRoute /\ tool = "verify" /\ DoctorInit
ConfigRests == files = (CHOOSE f \in InitFiles : TRUE) /\ ConfigInit

HooksInit ==
    /\ ZdrInit /\ GateInit
    /\ \/ /\ part \in {"zdr", "gate"}
          /\ SettingsRest /\ CodexRests /\ DoctorRests /\ ConfigRests
       \/ part = "settings" /\ SettingsInit /\ CodexRests /\ DoctorRests /\ ConfigRests
       \/ part = "codex" /\ SettingsRest /\ CodexInit /\ DoctorRests /\ ConfigRests
       \/ part = "doctor" /\ SettingsRest /\ CodexRests /\ DoctorInit /\ ConfigRests
       \/ part = "config" /\ SettingsRest /\ CodexRests /\ DoctorRests /\ ConfigInit
    /\ part = "gate" \/ GateRests

HooksNext ==
    /\ UNCHANGED part
    /\ \/ /\ part = "zdr" /\ ZdrNext
          /\ UNCHANGED <<gateVars, setVars, codexVars, doctorVars, configVars>>
       \/ /\ part = "gate" /\ GateNext
          /\ UNCHANGED <<zdrVars, setVars, codexVars, doctorVars, configVars>>
       \/ /\ part = "settings" /\ SettingsNext
          /\ UNCHANGED <<zdrVars, gateVars, codexVars, doctorVars, configVars>>
       \/ /\ part = "codex" /\ CodexNext
          /\ UNCHANGED <<zdrVars, gateVars, setVars, doctorVars, configVars>>
       \/ /\ part = "doctor" /\ DoctorNext
          /\ UNCHANGED <<zdrVars, gateVars, setVars, codexVars, configVars>>
       \/ /\ part = "config" /\ ConfigNext
          /\ UNCHANGED <<zdrVars, gateVars, setVars, codexVars, doctorVars>>

HooksSpec == HooksInit /\ [][HooksNext]_hooksVars
=============================================================================
