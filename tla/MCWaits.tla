------------------------------ MODULE MCWaits ------------------------------
(* Three places where somebody waits, which share no state here, checked   *)
(* in one run: the hooks that start a session, the approval gate, and the  *)
(* inference gate of the engine.  Init picks the part that moves; nobody   *)
(* waits in the others.                                                    *)
EXTENDS Approvals, MCMaskEngine, MCLaunch

\* Two overlapping operator calls; with a ring of one record and a gate of one
\* waiter, every record can be pushed out while it is held, and the gate fills.
MCCallers == {"a", "b"}

VARIABLE part   \* the part that moves

waitsVars == <<part, monVars, maskVars, launchVars>>

ApprovalsRest == maxPending = (CHOOSE n \in Limits : TRUE) /\ ApprovalsInit

WaitsInit ==
    \/ part = "approvals" /\ ApprovalsInit /\ MaskInit /\ LaunchRests
    \/ part = "calls" /\ ApprovalsRest /\ MaskInit /\ LaunchRests
    \/ part = "launch" /\ ApprovalsRest /\ MaskInit /\ LaunchInit

WaitsNext ==
    /\ UNCHANGED part
    /\ \/ part = "approvals" /\ ApprovalsNext /\ UNCHANGED <<maskVars, launchVars>>
       \/ part = "calls" /\ MaskNext /\ UNCHANGED <<monVars, launchVars>>
       \/ part = "launch" /\ LaunchNext /\ UNCHANGED <<monVars, maskVars>>

WaitsSpec ==
    /\ WaitsInit /\ [][WaitsNext]_waitsVars
    /\ ApprovalsFairness /\ MaskFairness /\ LaunchFairness

\* Nobody waits for ever: neither the handler of a held request (APPROVAL_TIMEOUT)
\* nor a call that queues at the inference gate.
WaitsEnd ==
    /\ HoldEnds
    /\ CallsEnd
=============================================================================
