----------------------------- MODULE MCToolCall -----------------------------
(***************************************************************************)
(* Instances of ToolCall for TLC.                                          *)
(***************************************************************************)
EXTENDS ToolCall, TLC

\* Only the local dialog is used; its budget is the unit of time.
MCApprovalTimeout == [d \in Dialogs |-> 1]

\* Nothing distinguishes two phones, two calls or two grant ids.
Symmetry ==
    Permutations(Phones) \cup Permutations(Calls) \cup Permutations(GrantIds)
=============================================================================
