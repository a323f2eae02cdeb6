------------------------------- MODULE MCLive -------------------------------
(* Constants for model-checking LiveReplies.                               *)
EXTENDS LiveReplies, TLC

CONSTANTS l1, l2, tab

Same == Permutations(Losses)
=============================================================================
