--------------------------- MODULE MC_LegacyReplob ---------------------------
(* Three nodes, two of them applying one message each in step 0: enough   *)
(* for one node's timer to disconnect a third one while its vote is late. *)
EXTENDS LegacyReplob

MCNode == {1, 2, 3}
MCClient == {1, 3}
=============================================================================
