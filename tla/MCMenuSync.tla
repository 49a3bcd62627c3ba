----------------------------- MODULE MCMenuSync -----------------------------
(* Instances of MenuSync for TLC. *)
EXTENDS MenuSync

CONSTANTS soup, tea

\* The second edition replaces soup, the third has both.
MCListed == <<{soup}, {tea}, {soup, tea}>>
=============================================================================
