-------------------------- MODULE MCReviewCommands --------------------------
(* ReviewCommands for two runs of one command.                             *)
EXTENDS ReviewCommands

CONSTANTS r1, r2
=============================================================================
