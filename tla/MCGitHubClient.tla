--------------------------- MODULE MCGitHubClient ---------------------------
(***************************************************************************)
(* GitHubClient on small instances: a few calls that overlap.              *)
(***************************************************************************)
EXTENDS GitHubClient

CONSTANTS c1, c2, u1

TwoCalls == {c1, c2}
OneUrl == {u1}
Reads == {"GET"}
AllMethods == {"GET", "PATCH", "POST"}

=============================================================================
