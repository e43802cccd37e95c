-------------------------- MODULE MCPluginsApprovers --------------------------
(***************************************************************************)
(* For TLC: PluginHost and Approvers, which share nothing, in one run.  A  *)
(* behaviour is one of either, chosen at first; the other stays in an      *)
(* initial state in which nothing is due.                                  *)
(***************************************************************************)
EXTENDS PluginHost, Approvers, TLC

CONSTANTS p1, p2, n1, n2, t1

VARIABLE active

\* Both plugins may give the name n1, so that one replaces the other; p2 may
\* instead take over p1's tool under a name of its own.
Manifest(n) == [name |-> n, tools |-> {t1}]
MCOffers == p1 :> {Manifest(n1)} @@ p2 :> {Manifest(n1), Manifest(n2)}

MCApprovalTimeout == [d \in Dialogs |-> IF d = "grant" THEN 1 ELSE 2]

MCInit ==
    /\ active \in {"plugins", "approvers"}
    /\ HostInit
    /\ ApproversInit
    /\ active = "plugins" => network = "broken"

MCNext ==
    /\ UNCHANGED active
    /\ IF active = "plugins" THEN HostNext ELSE UNCHANGED hostVars
    /\ IF active = "approvers" THEN ApproversNext ELSE UNCHANGED approverVars

\* The fairness of each, for its own behaviours.
MCFairness ==
    /\ WF_hostVars(active = "plugins" /\ Due)
    /\ \A p \in Procs : WF_hostVars(active = "plugins" /\ Beat(p))
    /\ \A c \in Clients : WF_approverVars(active = "approvers" /\ LinkDue(c))

MCSpec == MCInit /\ [][MCNext]_<<active, hostVars, approverVars>> /\ MCFairness

TypesOK == HostTypeOK /\ ApproversTypeOK
=============================================================================
