--------------------------- MODULE MCCoreServices ---------------------------
(***************************************************************************)
(* The parts of the Core that keep state of their own and share none of    *)
(* it: the tables of devices and members, the OAuth server, the task       *)
(* ledger, the usage meter and the planner.  A behaviour follows one of    *)
(* them (focus), from the first state it has there; the others stay where  *)
(* they begin, so that the states of the parts add up.                     *)
(***************************************************************************)
EXTENDS DeviceStore, TaskLedger, OAuthGrants, UsageMeter, Planning

VARIABLE focus

vars == <<focus, coreVars, grantVars, ledgerVars, usageVars, planVars>>

Init ==
    /\ focus \in {"store", "oauth", "ledger", "usage", "planning"}
    /\ StoreInit /\ GrantInit /\ LedgerInit /\ UsageInit /\ PlanInit

Next ==
    /\ UNCHANGED focus
    /\ \/ /\ focus = "store" /\ StoreNext
          /\ UNCHANGED <<grantVars, ledgerVars, usageVars, planVars>>
       \/ /\ focus = "oauth" /\ GrantNext
          /\ UNCHANGED <<coreVars, ledgerVars, usageVars, planVars>>
       \/ /\ focus = "ledger" /\ LedgerNext
          /\ UNCHANGED <<coreVars, grantVars, usageVars, planVars>>
       \/ /\ focus = "usage" /\ UsageNext
          /\ UNCHANGED <<coreVars, grantVars, ledgerVars, planVars>>
       \/ /\ focus = "planning" /\ PlanNext
          /\ UNCHANGED <<coreVars, grantVars, ledgerVars, usageVars>>

Spec == Init /\ [][Next]_vars

(* The types of every part. *)
TypeOK ==
    /\ StoreTypeOK /\ GrantTypeOK /\ LedgerTypeOK /\ UsageTypeOK /\ PlanTypeOK
=============================================================================
