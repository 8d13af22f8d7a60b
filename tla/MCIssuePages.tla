---------------------------- MODULE MCIssuePages ----------------------------
(***************************************************************************)
(* An instance of IssuePages for TLC: lists of issues and pull requests.   *)
(***************************************************************************)
EXTENDS IssuePages

Item(state, bug, pull) == [state |-> state, bug |-> bug, pull |-> pull]

MCItems == {Item("open", TRUE, FALSE), Item("open", FALSE, TRUE),
            Item("closed", TRUE, FALSE)}

=============================================================================
