----------------------------- MODULE AtomicLog -----------------------------
(***************************************************************************)
(* What the replicated object engine promises (spec sections 3 and 8):    *)
(* every StepId is decided at most once, to a non-empty batch of proposed *)
(* commands in a fixed order; no command is decided in two steps; a      *)
(* decision never changes; and every node executes the decided batches in *)
(* StepId order, without gaps.  A decision may be taken for a later step  *)
(* before an earlier one, and one step of the engine may propose, decide  *)
(* and execute several batches at once (a commit drains the completed     *)
(* steps behind it), so the next-state relation is stated as what may     *)
(* change in one step, not as one event at a time.                        *)
(***************************************************************************)
EXTENDS Naturals, Sequences, SequencesExt

CONSTANTS Node, Command, Step

VARIABLES
    proposed,   \* commands handed to apply() so far
    decided,    \* decided[s]: the batch agreed for step s, in execution order
    executed    \* executed[n]: the batches node n has run, one per step

vars == <<proposed, decided, executed>>


Init ==
    /\ proposed = {}
    /\ decided = [s \in {} |-> <<>>]
    /\ executed = [n \in Node |-> <<>>]

\* Decisions taken so far are kept unchanged.
DecisionsStable ==
    /\ DOMAIN decided \subseteq DOMAIN decided'
    /\ \A s \in DOMAIN decided : decided'[s] = decided[s]

\* A batch holds proposed commands only, each once, and no command is
\* decided in two steps.
BatchesValid ==
    /\ DOMAIN decided' \subseteq Step
    /\ \A s \in DOMAIN decided' :
         /\ decided'[s] # <<>>
         /\ IsInjective(decided'[s])
         /\ ToSet(decided'[s]) \subseteq proposed'
    /\ \A s, t \in DOMAIN decided' :
         s # t => ToSet(decided'[s]) \cap ToSet(decided'[t]) = {}

\* A node extends what it has executed with the decided batches of the
\* next steps, in StepId order (step s is the (s+1)-th batch).
ExecutionFollowsDecisions ==
    \A n \in Node :
        /\ IsPrefix(executed[n], executed'[n])
        /\ \A i \in 1..Len(executed'[n]) :
             /\ i - 1 \in DOMAIN decided'
             /\ executed'[n][i] = decided'[i - 1]

Next ==
    /\ proposed \subseteq proposed'
    /\ DecisionsStable
    /\ BatchesValid
    /\ ExecutionFollowsDecisions

Spec == Init /\ [][Next]_vars
=============================================================================
