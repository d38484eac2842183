---------------------------- MODULE LegacyReplob ----------------------------
(***************************************************************************)
(* The first replicated object engine: struct Replob of                   *)
(* include/synca/once/replob.h and src/replob.cpp, driven by the emulator  *)
(* tests (tests/emulator_tests.cpp) on a one-thread pool, so that each    *)
(* handler runs to completion before the next: one action per handler.   *)
(*                                                                         *)
(* apply() votes for a CarryMsg in a fresh step.  A node votes once per   *)
(* step, for the first message it hears of, and broadcasts that vote; it  *)
(* records every vote it receives per message (votedNodes).  It commits   *)
(* every message of the step once the recorded votes add up to the size   *)
(* of its NodesConfig.  A step's availability timer, when it fires before *)
(* the commit, disconnects every configured node that has not voted and   *)
(* relays the disconnection.  Nodes::remove erases the node from          *)
(* NodesConfig too, so the count that mayCommit compares with shrinks.    *)
(*                                                                         *)
(* Packets travel over one connection per ordered pair of nodes.  Only a  *)
(* connection its writer has disconnected loses packets; the reading side *)
(* keeps reading from a node it has removed (MsgListener accepts every    *)
(* peer).                                                                 *)
(***************************************************************************)
EXTENDS Integers, FiniteSets, Sequences, SequencesExt, Folds

CONSTANTS
    Node,        \* NodeIds
    Client,      \* nodes on which the application calls apply()
    MaxStep,     \* largest StepId a node may open
    MaxApply     \* apply() calls per client (bound on nextId<MID>)

ASSUME Node \subseteq Nat /\ Node # {} /\ Client \subseteq Node
ASSUME MaxStep \in Nat /\ MaxApply \in Nat

VARIABLES
    nodesCfg,         \* nodesCfg[n]: keys of NodesConfig::nodes_ at n
    nextStepId,       \* Replob::nextStepId_
    commitingStepId,  \* Replob::commitingStepId_: next step to execute
    steps,            \* Replob::steps_: StepId -> StepData
    timer,            \* steps whose availabilityTimer is armed
    msgCounter,       \* nextId<MID>() of genUniqueId()
    msgs,             \* packets written to connections, not yet read
    applied           \* applied[n]: executed message lists, one per step

vars == <<nodesCfg, nextStepId, commitingStepId, steps, timer, msgCounter,
          msgs, applied>>

StepId == 0..MaxStep
MsgId  == Node \X (0..MaxApply - 1)      \* UniqueId = (NodeId, counter)

(* StepData: state, votedNodes (a MsgId with no votes is absent from the *)
(* map) and the committed msgs.                                           *)
NewStep == [state |-> "Initial", votes |-> [c \in MsgId |-> {}], msgs |-> {}]

Message ==
    [type : {"vote"}, from : Node, to : Node, step : StepId, id : MsgId]
    \cup [type : {"commit"}, from : Node, to : Node, step : StepId,
          ids : SUBSET MsgId]
    \cup [type : {"disconnect"}, from : Node, to : Node, nodes : SUBSET Node]

\* broadcast() sends to NodesConfig::otherNodes() of the sender.
Broadcast(n, cfg, m) == {[m EXCEPT !.to = d] : d \in cfg \ {n}}

\* votedNodes is a std::map ordered by MsgId: the committer's vector, and
\* so the order tryProcess invokes it in, is ascending.
MsgIdLess(a, b) == a[1] < b[1] \/ (a[1] = b[1] /\ a[2] < b[2])
Exec(ids) == SetToSortSeq(ids, MsgIdLess)

Erase(sm, s) == [t \in DOMAIN sm \ {s} |-> sm[t]]

-----------------------------------------------------------------------------
\* getStep: nullptr for an executed or a completed step; otherwise
\* steps_[id] (created on first sight) and updateCurrentStepId(id).
IsNullStep(n, s) ==
    \/ s < commitingStepId[n]
    \/ s \in DOMAIN steps[n] /\ steps[n][s].state = "Completed"

GetStep(n, s) == IF s \in DOMAIN steps[n] THEN steps[n][s] ELSE NewStep

UpdateCurrentStepId(n, s) ==
    IF nextStepId[n] <= s THEN s + 1 ELSE nextStepId[n]

\* StepData::votedNodesSet: every node recorded against some message.
VotedNodesSet(r) == UNION {r.votes[c] : c \in MsgId}

\* StepData::mayCommit: the sizes of the votedSets add up to nodesCount().
MayCommit(r, cfg) ==
    MapThenSumSet(LAMBDA c : Cardinality(r.votes[c]), MsgId) = Cardinality(cfg)

\* tryProcess(): invoke and erase every completed step from
\* commitingStepId_ on; stop at the first step that is absent or open.
RECURSIVE TryProcessAll(_, _, _)
TryProcessAll(sm, cur, log) ==
    IF cur \in DOMAIN sm /\ sm[cur].state = "Completed"
    THEN TryProcessAll(Erase(sm, cur), cur + 1, Append(log, Exec(sm[cur].msgs)))
    ELSE [sm |-> sm, cur |-> cur, log |-> log]

\* tryProcess(id): only when id is the step to execute next.
TryProcess(n, sm, s) ==
    IF s # commitingStepId[n]
    THEN /\ steps' = [steps EXCEPT ![n] = sm]
         /\ UNCHANGED <<commitingStepId, applied>>
    ELSE LET d == TryProcessAll(sm, s, applied[n])
         IN  /\ steps' = [steps EXCEPT ![n] = d.sm]
             /\ commitingStepId' = [commitingStepId EXCEPT ![n] = d.cur]
             /\ applied' = [applied EXCEPT ![n] = d.log]

\* Replob::commit(msgs) on step s of table sm, with packets out so far:
\* getStep, then store msgs, clear votedNodes, Completed, reset the timer,
\* broadcast the commit and tryProcess.
Commit(n, sm, out, s, ids) ==
    IF IsNullStep(n, s)
    THEN /\ msgs' = out
         /\ UNCHANGED <<steps, timer, commitingStepId, applied>>
    ELSE /\ timer' = [timer EXCEPT ![n] = @ \ {s}]
         /\ msgs' = out \cup Broadcast(n, nodesCfg[n],
                        [type |-> "commit", from |-> n, to |-> n, step |-> s,
                         ids |-> ids])
         /\ TryProcess(n, [sm EXCEPT ![s] = [state |-> "Completed",
                             votes |-> [c \in MsgId |-> {}], msgs |-> ids]], s)

\* Replob::vote(msg, voted) for message c of step s, once getStep has
\* found the step: getMsg(msg).votedSet gains `voted'; an Initial step
\* turns Voted and gains thisNode(); then commit every message heard of,
\* or, on the first vote, arm the timer and broadcast the vote.
Vote(n, out, s, c, voted) ==
    LET r0 == GetStep(n, s)
        canVote == r0.state = "Initial"
        r1 == [r0 EXCEPT !.votes[c] = @ \cup {voted}]
        r2 == IF canVote
              THEN [r1 EXCEPT !.state = "Voted", !.votes[c] = @ \cup {n}]
              ELSE r1
        sm == [t \in DOMAIN steps[n] \cup {s} |->
                 IF t = s THEN r2 ELSE steps[n][t]]
    IN  IF MayCommit(r2, nodesCfg[n])
        THEN Commit(n, sm, out, s, {x \in MsgId : r2.votes[x] # {}})
        ELSE /\ steps' = [steps EXCEPT ![n] = sm]
             /\ IF canVote
                THEN /\ timer' = [timer EXCEPT ![n] = @ \cup {s}]
                     /\ msgs' = out \cup Broadcast(n, nodesCfg[n],
                           [type |-> "vote", from |-> n, to |-> n, step |-> s,
                            id |-> c])
                ELSE /\ msgs' = out
                     /\ UNCHANGED timer
             /\ UNCHANGED <<commitingStepId, applied>>

\* Replob::disconnectNodes: Nodes::remove each listed node still in
\* NodesConfig (it erases it there and disconnects its connector); if any
\* was removed, broadcast the list of removed ones to the remaining nodes.
DisconnectNodes(n, out, N) ==
    LET removed == N \cap nodesCfg[n]
        cfg     == nodesCfg[n] \ removed
    IN  IF removed = {}
        THEN msgs' = out /\ UNCHANGED nodesCfg
        ELSE /\ nodesCfg' = [nodesCfg EXCEPT ![n] = cfg]
             /\ msgs' = out \cup Broadcast(n, cfg, [type |-> "disconnect",
                           from |-> n, to |-> n, nodes |-> removed])

-----------------------------------------------------------------------------
Init ==
    /\ nodesCfg = [n \in Node |-> Node]
    /\ nextStepId = [n \in Node |-> 0]
    /\ commitingStepId = [n \in Node |-> 0]
    /\ steps = [n \in Node |-> <<>>]
    /\ timer = [n \in Node |-> {}]
    /\ msgCounter = [n \in Node |-> 0]
    /\ msgs = {}
    /\ applied = [n \in Node |-> <<>>]

\* Replob::apply: CarryMsg{msg, nextStepId(), genUniqueId()}, then
\* vote(carryMsg, thisNode()).  nextStepId_ is never an executed or a
\* completed step, so getStep finds it.
Apply(n) ==
    /\ n \in Client
    /\ msgCounter[n] < MaxApply
    /\ nextStepId[n] <= MaxStep
    /\ LET s == nextStepId[n]
           c == <<n, msgCounter[n]>>
       IN  /\ msgCounter' = [msgCounter EXCEPT ![n] = @ + 1]
           /\ nextStepId' = [nextStepId EXCEPT ![n] = s + 1]
           /\ Vote(n, msgs, s, c, n)
    /\ UNCHANGED nodesCfg

\* MsgListener reads a packet and invokes its closure: vote, commit or
\* disconnectNodes on single<Replob>().
Receive(n, m) ==
    /\ m \in msgs
    /\ m.to = n
    /\ CASE m.type = "disconnect" ->
              /\ DisconnectNodes(n, msgs \ {m}, m.nodes)
              /\ UNCHANGED <<nextStepId, commitingStepId, steps, timer, applied>>
         [] IsNullStep(n, m.step) ->
              /\ msgs' = msgs \ {m}
              /\ UNCHANGED <<nodesCfg, nextStepId, commitingStepId, steps, timer,
                             applied>>
         [] OTHER ->
              /\ nextStepId' = [nextStepId EXCEPT ![n] = UpdateCurrentStepId(n, m.step)]
              /\ IF m.type = "vote"
                 THEN Vote(n, msgs \ {m}, m.step, m.id, m.from)
                 ELSE Commit(n, steps[n] @@ (m.step :> NewStep), msgs \ {m},
                             m.step, m.ids)
              /\ UNCHANGED nodesCfg
    /\ UNCHANGED msgCounter

\* The availabilityTimer (c_availabilityTimeoutMs) of a voted step fires
\* and its journey runs onTimeout(stepId): the configured nodes that no
\* message of the step records as voted are disconnected.  A handler the
\* timer posted before commit() reset it finds the step completed or
\* executed, and getStep makes it return: that run is a no-op.
OnTimeout(n, s) ==
    /\ s \in timer[n]
    /\ timer' = [timer EXCEPT ![n] = @ \ {s}]
    /\ LET unavailable == nodesCfg[n] \ VotedNodesSet(steps[n][s])
       IN  IF unavailable = {}
           THEN UNCHANGED <<nodesCfg, msgs>>
           ELSE DisconnectNodes(n, msgs, unavailable)
    /\ UNCHANGED <<nextStepId, commitingStepId, steps, msgCounter, applied>>

\* A packet written to a connection its writer has disconnected is lost.
Lose(m) ==
    /\ m \in msgs
    /\ m.to \notin nodesCfg[m.from]
    /\ msgs' = msgs \ {m}
    /\ UNCHANGED <<nodesCfg, nextStepId, commitingStepId, steps, timer,
                   msgCounter, applied>>

Next ==
    \/ \E n \in Node : Apply(n)
    \/ \E n \in Node, m \in msgs : Receive(n, m)
    \/ \E n \in Node, s \in StepId : OnTimeout(n, s)
    \/ \E m \in msgs : Lose(m)

Spec == Init /\ [][Next]_vars

-----------------------------------------------------------------------------
TypeOK ==
    /\ nodesCfg \in [Node -> SUBSET Node]
    /\ nextStepId \in [Node -> 0..MaxStep + 1]
    /\ commitingStepId \in [Node -> 0..MaxStep + 1]
    /\ \A n \in Node :
         /\ DOMAIN steps[n] \subseteq StepId
         /\ \A s \in DOMAIN steps[n] :
              steps[n][s] \in [state : {"Initial", "Voted", "Completed"},
                               votes : [MsgId -> SUBSET Node],
                               msgs : SUBSET MsgId]
    /\ timer \in [Node -> SUBSET StepId]
    /\ msgCounter \in [Node -> 0..MaxApply]
    /\ msgs \subseteq Message
    /\ applied \in [Node -> Seq(Seq(MsgId))]

(* Every node executes the same messages, step by step, in the same      *)
(* order: the lists that tryProcess has invoked on any two nodes are      *)
(* prefixes of one another.  The commit rule of mayCommit (every         *)
(* configured node has voted) is what is meant to guarantee it.           *)
LegacyLogsAgree ==
    \A n1, n2 \in Node : IsPrefix(applied[n1], applied[n2])
                         \/ IsPrefix(applied[n2], applied[n1])
=============================================================================
