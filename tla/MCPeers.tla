------------------------------- MODULE MCPeers -------------------------------
(***************************************************************************)
(* For TLC: FederationCall, HubPair and Tokens, which share nothing, in    *)
(* one run.  A behaviour is one of any, chosen at first; the others stay   *)
(* in an initial state in which nothing is due.                            *)
(***************************************************************************)
EXTENDS FederationCall, HubPair, Tokens, TLC

VARIABLE active

\* The delegation dialog waits twice as long as the grant dialog.
MCApprovalTimeout == [d \in Dialogs |-> IF d = "delegation" THEN 2 ELSE 1]

\* The two hubs' clocks agree.
MCClockErrors == {0}

MCInit ==
    /\ active \in {"serving", "pair", "tokens"}
    /\ FedInit
    /\ PairInit
    /\ TokensInit
    /\ active # "tokens" => policy = "rotate"

MCNext ==
    /\ UNCHANGED active
    /\ IF active = "serving" THEN FedNext ELSE UNCHANGED allVars
    /\ IF active = "pair" THEN PairNext ELSE UNCHANGED pairVars
    /\ IF active = "tokens" THEN TokensNext ELSE UNCHANGED tokenVars

MCVars == <<active, allVars, pairVars, tokenVars>>

\* The fairness of each, for its own behaviours.
MCFairness ==
    /\ WF_allVars(active = "serving" /\ Tick /\ AgeFederation)
    /\ WF_allVars(active = "serving" /\ FedExit)
    /\ \A c \in PeerCalls :
        /\ WF_allVars(active = "serving" /\ PeerTimeOut(c) /\ UNCHANGED fedVars)
        /\ WF_allVars(/\ active = "serving"
                      /\ PeerRefreshSucceeds(c) \/ PeerRefreshFails(c)
                      /\ UNCHANGED fedVars)
        /\ WF_allVars(active = "serving" /\ PluginFails(c) /\ UNCHANGED fedVars)
    /\ \A f \in Flows :
        /\ WF_tokenVars(active = "tokens" /\ FlowPending(f) /\ UNCHANGED policy)
        /\ WF_tokenVars(active = "tokens" /\ FlowTimesOut(f) /\ UNCHANGED policy)

MCSpec == MCInit /\ [][MCNext]_MCVars /\ MCFairness

TypesOK == FedTypeOK /\ PairTypeOK /\ TokensTypeOK
=============================================================================
