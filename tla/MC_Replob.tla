----------------------------- MODULE MC_Replob ------------------------------
(* Model-checking instances of Replob.  Three nodes, so that a step can   *)
(* be split between a majority and a minority; two steps, so that a later *)
(* step can complete before an earlier one; two clients, so that two      *)
(* proposals can meet in one step or follow each other.                   *)
EXTENDS Replob

MCNode == {1, 2, 3}
MCMaxStep == 1
MCClient == {1, 2}
MCMaxApply == 1

(* For faults (timer, loss): one step and one client, so that timeouts  *)
(* and lost packets meet every phase of a single step.                    *)
MCOneStep == 0
MCOneClient == {1}

(* Without timer or loss, under fairness: two nodes, three steps and     *)
(* three applies per client, so that each client has several steps open   *)
(* at once, proposals of both clients meet in one step, and later steps   *)
(* complete before earlier ones.                                          *)
MCLiveNode == {1, 2}
MCLiveClient == {1, 2}
MCLiveMaxApply == 3
MCLiveMaxStep == 2
=============================================================================
