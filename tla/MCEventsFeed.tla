---------------------------- MODULE MCEventsFeed ----------------------------
(***************************************************************************)
(* An instance of EventsFeed for TLC: four deliveries of two events.       *)
(***************************************************************************)
EXTENDS EventsFeed

CONSTANTS k1, k2, k3, k4, issues, comments

FeedEventOf == k1 :> issues @@ k2 :> comments @@ k3 :> issues @@ k4 :> comments

=============================================================================
