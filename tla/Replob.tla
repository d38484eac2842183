------------------------------- MODULE Replob -------------------------------
(***************************************************************************)
(* The replicated object engine of include/synca/once/replob.h (struct    *)
(* Voting, struct Replob2) on top of the step table of                    *)
(* include/synca/once/phantom.h (struct Phantom).                         *)
(*                                                                         *)
(* Every node keeps a table of voting steps indexed by StepId.  A local   *)
(* apply() opens a fresh step and votes for a one-message carry set; a    *)
(* vote carries (carries, source node, membership snapshot) to every      *)
(* other node; a node that has heard every member commits the union and   *)
(* broadcasts commit; committed steps are executed strictly in StepId     *)
(* order.  Each node runs a single-threaded pool (examples/server.h), so  *)
(* one handler runs to completion before the next: one action per handler.*)
(*                                                                         *)
(* The transport (node.cpp broadcast, connector.cpp) is a set of messages *)
(* in flight: delivery in any order, and loss when a connection breaks.   *)
(***************************************************************************)
EXTENDS Integers, FiniteSets, Sequences, SequencesExt

CONSTANTS
    Node,             \* NodeIds: small positive integers (order matters)
    MaxStep,          \* largest StepId a node may open
    Client,           \* nodes on which the application calls apply()
    MaxApply,         \* apply() calls per client (bound on nextId<MID>)
    TimeoutEnabled,   \* whether the 500 ms availability timer may fire
    LossEnabled       \* whether a broken connection may lose a message

ASSUME Node \subseteq Nat \ {0} /\ Node # {}
ASSUME Client \subseteq Node /\ MaxStep \in Nat /\ MaxApply \in Nat
ASSUME TimeoutEnabled \in BOOLEAN /\ LossEnabled \in BOOLEAN

VARIABLES
    nodesCfg,       \* nodesCfg[n]: keys of NodesConfig::nodes_ at n
    up,             \* up[n]: FALSE once n gave up and ran cleanupAll()
    nextStepId,     \* Phantom::nextStepId_
    currentStepId,  \* Phantom::currentStepId_ (next step to execute)
    steps,          \* Phantom::steps_: StepId -> Voting state
    pending,        \* timeout journeys queued by a fired availability timer
    msgCounter,     \* nextId<MID>() of genUniqueId()
    msgs,           \* messages written to connections, not yet read
    applied,        \* applied[n]: executed batches, one per step, in order
    failCause,      \* state of the step whose timeout made n give up
    cleanupQueued   \* cleanupAll() has posted its journey, not yet run

vars == <<nodesCfg, up, nextStepId, currentStepId, steps, pending,
          msgCounter, msgs, applied, failCause, cleanupQueued>>

StepId == 0..MaxStep
MsgId  == Node \X (0..MaxApply - 1)      \* UniqueId = (NodeId, counter)
States == {"Initial", "Voted", "Completed"}

\* Voting plus the WithPhantom wrapper: state_, nodes_, voted_, carries_,
\* completed_ and whether timer_ is armed.
NewStep == [state |-> "Initial", nodes |-> {}, voted |-> {},
            carries |-> {}, completed |-> FALSE, timer |-> FALSE]

Message == [type : {"vote", "commit"}, from : Node, to : Node,
            step : StepId, carries : SUBSET MsgId, nodes : SUBSET Node]

\* CarryMsg2::operator< compares MsgId = std::pair lexicographically.
MsgIdLess(a, b) == a[1] < b[1] \/ (a[1] = b[1] /\ a[2] < b[2])

\* Voting::exec invokes the carries in CarrySet (std::set) order.
Exec(carries) == SetToSortSeq(carries, MsgIdLess)

\* broadcast() sends to NodesConfig::otherNodes() of the sender.
Broadcast(n, m) == {[m EXCEPT !.to = d] : d \in nodesCfg[n] \ {n}}

Erase(sm, s) == [t \in DOMAIN sm \ {s} |-> sm[t]]

-----------------------------------------------------------------------------
(* Plausible slips in the code below, each a drop-in replacement for the  *)
(* definition it shadows; a property that none of them breaks would say   *)
(* nothing about that code.                                               *)

\* Phantom::complete without its while loop: only the current step runs.
DrainOneStep(sm, cur, nx, log) ==
    IF cur < nx /\ cur \in DOMAIN sm /\ sm[cur].completed
    THEN [sm |-> Erase(sm, cur), cur |-> cur + 1,
          log |-> Append(log, Exec(sm[cur].carries))]
    ELSE [sm |-> sm, cur |-> cur, log |-> log]

\* vote() committing once half of nodes_ has voted (>= for >, and a
\* majority test where the code asks for every member).
MayCommitOnHalf(r) == Cardinality(r.voted) * 2 >= Cardinality(r.nodes)

-----------------------------------------------------------------------------
(* Phantom::complete: execute the completed current step, then every      *)
(* following completed step, erasing each; stop at the first gap.         *)
RECURSIVE Drain(_, _, _, _)
Drain(sm, cur, nx, log) ==
    IF cur < nx /\ cur \in DOMAIN sm /\ sm[cur].completed
    THEN Drain(Erase(sm, cur), cur + 1, nx, Append(log, Exec(sm[cur].carries)))
    ELSE [sm |-> sm, cur |-> cur, log |-> log]

\* Phantom::complete advancing currentStepId_ once more after the loop.
CompleteSkipsStep(n, sm, nx, s) ==
    IF s # currentStepId[n]
    THEN /\ steps' = [steps EXCEPT ![n] = sm]
         /\ UNCHANGED <<currentStepId, applied>>
    ELSE LET d == Drain(sm, s, nx, applied[n])
         IN  /\ steps' = [steps EXCEPT ![n] = d.sm]
             /\ currentStepId' = [currentStepId EXCEPT ![n] = d.cur + 1]
             /\ applied' = [applied EXCEPT ![n] = d.log]

\* WithPhantom::complete after completed_ := TRUE.
Complete(n, sm, nx, s) ==
    IF s # currentStepId[n]
    THEN /\ steps' = [steps EXCEPT ![n] = sm]
         /\ UNCHANGED <<currentStepId, applied>>
    ELSE LET d == Drain(sm, s, nx, applied[n])
         IN  /\ steps' = [steps EXCEPT ![n] = d.sm]
             /\ currentStepId' = [currentStepId EXCEPT ![n] = d.cur]
             /\ applied' = [applied EXCEPT ![n] = d.log]

\* Voting::commit keeping its own carries_ instead of the committed set.
CommitKeepsOwnCarries(n, sm, nx, out, s, C) ==
    IF sm[s].state = "Completed"
    THEN /\ steps' = [steps EXCEPT ![n] = sm]
         /\ msgs' = out
         /\ UNCHANGED <<currentStepId, applied>>
    ELSE /\ msgs' = out \cup Broadcast(n, [type |-> "commit", from |-> n,
                        to |-> n, step |-> s, carries |-> sm[s].carries,
                        nodes |-> {}])
         /\ Complete(n, [sm EXCEPT ![s].state = "Completed",
                                   ![s].completed = TRUE], nx, s)

\* Voting::commit on step s of table sm; out is the message set so far.
Commit(n, sm, nx, out, s, C) ==
    IF sm[s].state = "Completed"
    THEN /\ steps' = [steps EXCEPT ![n] = sm]
         /\ msgs' = out
         /\ UNCHANGED <<currentStepId, applied>>
    ELSE /\ msgs' = out \cup Broadcast(n, [type |-> "commit", from |-> n,
                        to |-> n, step |-> s, carries |-> C, nodes |-> {}])
         /\ Complete(n, [sm EXCEPT ![s].state = "Completed", ![s].carries = C,
                                   ![s].completed = TRUE], nx, s)

MayCommit(r) == r.voted = r.nodes

\* Voting::vote(carrySet, srcNode, nodesSet) on step s of table sm.
Vote(n, sm, nx, out, s, C, src, N) ==
    LET r0 == sm[s]
        r1 == [r0 EXCEPT !.carries = @ \cup C]
        r2 == IF r1.nodes = {} THEN [r1 EXCEPT !.nodes = N]
              ELSE IF r1.nodes # N
                   THEN [r1 EXCEPT !.state = "Initial", !.nodes = @ \cap N,
                                   !.voted = {}]
                   ELSE r1
        r3 == [r2 EXCEPT !.voted = @ \cup {src, n}]
    IN  IF r0.state = "Completed"
        THEN /\ steps' = [steps EXCEPT ![n] = sm]
             /\ msgs' = out
             /\ UNCHANGED <<currentStepId, applied>>
        ELSE IF MayCommit(r3)
        THEN Commit(n, [sm EXCEPT ![s] = r3], nx, out, s, r3.carries)
        ELSE IF r3.state = "Initial"
        THEN /\ steps' = [steps EXCEPT ![n] = [sm EXCEPT ![s] =
                                          [r3 EXCEPT !.state = "Voted"]]]
             /\ msgs' = out \cup Broadcast(n, [type |-> "vote", from |-> n,
                   to |-> n, step |-> s, carries |-> r3.carries,
                   nodes |-> r3.nodes])
             /\ UNCHANGED <<currentStepId, applied>>
        ELSE /\ steps' = [steps EXCEPT ![n] = [sm EXCEPT ![s] = r3]]
             /\ msgs' = out
             /\ UNCHANGED <<currentStepId, applied>>

\* *set.begin(): the least NodeId of a non-empty std::set.
MinId(S) == CHOOSE v \in S : \A x \in S : v <= x

\* Voting::isConsistent: strict majority, or half with the least NodeId.
IsConsistent(r) ==
    \/ Cardinality(r.voted) * 2 > Cardinality(r.nodes)
    \/ /\ Cardinality(r.voted) * 2 = Cardinality(r.nodes)
       /\ MinId(r.voted) = MinId(r.nodes)

-----------------------------------------------------------------------------
Init ==
    /\ nodesCfg = [n \in Node |-> Node]
    /\ up = [n \in Node |-> TRUE]
    /\ nextStepId = [n \in Node |-> 0]
    /\ currentStepId = [n \in Node |-> 0]
    /\ steps = [n \in Node |-> <<>>]
    /\ pending = [n \in Node |-> {}]
    /\ msgCounter = [n \in Node |-> 0]
    /\ msgs = {}
    /\ applied = [n \in Node |-> <<>>]
    /\ failCause = [n \in Node |-> "none"]
    /\ cleanupQueued = [n \in Node |-> FALSE]

\* Replob2::apply: createPhantom<Voting>().start(carryMsg).  create()
\* takes nextStepId_; start() arms timer_ (500 ms) and votes for itself.
Apply(n) ==
    /\ n \in Client
    /\ up[n]
    /\ msgCounter[n] < MaxApply
    /\ nextStepId[n] <= MaxStep
    /\ LET s == nextStepId[n]
           c == <<n, msgCounter[n]>>
       IN  /\ msgCounter' = [msgCounter EXCEPT ![n] = @ + 1]
           /\ nextStepId' = [nextStepId EXCEPT ![n] = s + 1]
           /\ Vote(n, steps[n] @@ (s :> [NewStep EXCEPT !.timer = TRUE]),
                   s + 1, msgs, s, {c}, n, nodesCfg[n])
    /\ UNCHANGED <<nodesCfg, up, pending, failCause, cleanupQueued>>

\* Phantom::getPtr for a step not yet executed: steps_[stepId] creates the
\* entry on first sight, and nextStepId_ moves past a remote step id.
PhantomTable(n, s) ==
    IF s \in DOMAIN steps[n] THEN steps[n] ELSE steps[n] @@ (s :> NewStep)

NextStepAfter(n, s) == IF nextStepId[n] <= s THEN s + 1 ELSE nextStepId[n]

\* Phantom::getPtr without the `stepId < currentStepId_' test: a late
\* packet for an executed step re-creates its entry.
ReceiveWithoutStaleCheck(n, m) ==
    /\ up[n]
    /\ m \in msgs
    /\ m.to = n
    /\ LET s  == m.step
           sm == PhantomTable(n, s)
           nx == NextStepAfter(n, s)
       IN  /\ nextStepId' = [nextStepId EXCEPT ![n] = nx]
           /\ IF m.type = "vote"
              THEN Vote(n, sm, nx, msgs \ {m}, s, m.carries, m.from, m.nodes)
              ELSE Commit(n, sm, nx, msgs \ {m}, s, m.carries)
    /\ UNCHANGED <<nodesCfg, up, pending, msgCounter, failCause,
                   cleanupQueued>>

\* MsgListener reads a packet and invokes it: the BasePhantom wrapper
\* looks the step up with phantomPtr (nullptr for an executed step, a new
\* entry otherwise, raising nextStepId_) and calls vote or commit.
Receive(n, m) ==
    /\ up[n]
    /\ m \in msgs
    /\ m.to = n
    /\ LET s  == m.step
           sm == PhantomTable(n, s)
           nx == NextStepAfter(n, s)
       IN  IF s < currentStepId[n]
           THEN /\ msgs' = msgs \ {m}
                /\ UNCHANGED <<nextStepId, currentStepId, steps, applied>>
           ELSE /\ nextStepId' = [nextStepId EXCEPT ![n] = nx]
                /\ IF m.type = "vote"
                   THEN Vote(n, sm, nx, msgs \ {m}, s, m.carries, m.from,
                             m.nodes)
                   ELSE Commit(n, sm, nx, msgs \ {m}, s, m.carries)
    /\ UNCHANGED <<nodesCfg, up, pending, msgCounter, failCause,
                   cleanupQueued>>

\* The deadline_timer of timer_ expires: Timer::reset posts go(handler).
\* Timer::reset() in onComplete can no longer cancel the posted journey.
TimerFire(n, s) ==
    /\ TimeoutEnabled
    /\ up[n]
    /\ s \in DOMAIN steps[n]
    /\ steps[n][s].timer
    /\ steps' = [steps EXCEPT ![n][s].timer = FALSE]
    /\ pending' = [pending EXCEPT ![n] = @ \cup {s}]
    /\ UNCHANGED <<nodesCfg, up, nextStepId, currentStepId, msgCounter,
                   msgs, applied, failCause, cleanupQueued>>

\* The journey runs Voting::timeout on its captured `this'.  When the step
\* was executed and erased meanwhile, `this' dangles; the memory is read
\* as the Completed step it was, and vote() returns at once.
Timeout(n, s) ==
    /\ up[n]
    /\ s \in pending[n]
    /\ pending' = [pending EXCEPT ![n] = @ \ {s}]
    /\ IF s \notin DOMAIN steps[n]
       THEN UNCHANGED <<nodesCfg, up, nextStepId, currentStepId, steps,
                        msgCounter, msgs, applied, failCause, cleanupQueued>>
       ELSE LET r == steps[n][s] IN
            IF IsConsistent(r)
            THEN /\ Vote(n, steps[n], nextStepId[n], msgs, s, r.carries, n,
                         r.voted)
                 /\ UNCHANGED <<nodesCfg, up, nextStepId, msgCounter,
                                failCause, cleanupQueued>>
            ELSE \* Voting::fail -> cleanupAll() posts the cleanup journey.
                 /\ failCause' = [failCause EXCEPT ![n] = r.state]
                 /\ cleanupQueued' = [cleanupQueued EXCEPT ![n] = TRUE]
                 /\ UNCHANGED <<nodesCfg, up, nextStepId, currentStepId,
                                steps, msgCounter, msgs, applied>>

\* The cleanup journey runs Cleanuper::cleanup: Phantom clears its table
\* (currentStepId_ = max, so getPtr drops every later packet), MsgListener
\* stops reading and Nodes disconnects every peer.
Cleanup(n) ==
    /\ up[n]
    /\ cleanupQueued[n]
    /\ up' = [up EXCEPT ![n] = FALSE]
    /\ steps' = [steps EXCEPT ![n] = <<>>]
    /\ pending' = [pending EXCEPT ![n] = {}]
    /\ cleanupQueued' = [cleanupQueued EXCEPT ![n] = FALSE]
    /\ UNCHANGED <<nodesCfg, nextStepId, currentStepId, msgCounter, msgs,
                   applied, failCause>>

\* A connection breaks with a packet written but never read.
Lose(m) ==
    /\ LossEnabled
    /\ m \in msgs
    /\ msgs' = msgs \ {m}
    /\ UNCHANGED <<nodesCfg, up, nextStepId, currentStepId, steps, pending,
                   msgCounter, applied, failCause, cleanupQueued>>

Next ==
    \/ \E n \in Node : Apply(n)
    \/ \E n \in Node, m \in msgs : Receive(n, m)
    \/ \E n \in Node, s \in StepId : TimerFire(n, s)
    \/ \E n \in Node, s \in StepId : Timeout(n, s)
    \/ \E n \in Node : Cleanup(n)
    \/ \E m \in msgs : Lose(m)

\* The listener journey reads every packet that reaches an open socket.
Fairness == \A n \in Node : WF_vars(\E m \in msgs : Receive(n, m))

Spec == Init /\ [][Next]_vars /\ Fairness

-----------------------------------------------------------------------------
TypeOK ==
    /\ nodesCfg \in [Node -> SUBSET Node]
    /\ up \in [Node -> BOOLEAN]
    /\ nextStepId \in [Node -> 0..MaxStep + 1]
    /\ currentStepId \in [Node -> 0..MaxStep + 1]
    /\ \A n \in Node :
         /\ DOMAIN steps[n] \subseteq StepId
         /\ \A s \in DOMAIN steps[n] :
              steps[n][s] \in [state : States, nodes : SUBSET Node,
                               voted : SUBSET Node, carries : SUBSET MsgId,
                               completed : BOOLEAN, timer : BOOLEAN]
    /\ pending \in [Node -> SUBSET StepId]
    /\ msgCounter \in [Node -> 0..MaxApply]
    /\ msgs \subseteq Message
    /\ applied \in [Node -> Seq(Seq(MsgId))]
    /\ failCause \in [Node -> States \cup {"none"}]
    /\ cleanupQueued \in [Node -> BOOLEAN]

AppliedIds(n) == {c \in MsgId : \E i \in 1..Len(applied[n]) :
                                  \E j \in 1..Len(applied[n][i]) :
                                     applied[n][i][j] = c}

Proposed == {c \in MsgId : c[2] < msgCounter[c[1]]}

(* I1 + I2: the batches executed by any two nodes, step by step and      *)
(* within a step in MsgId order, are prefixes of one another: no node    *)
(* executes a batch that another node executed differently.  This is what*)
(* Voting::vote's commit rule (voted_ == nodes_), the commit rebroadcast  *)
(* and Phantom::complete's in-order execution must jointly guarantee.     *)
LogsPrefixConsistent ==
    \A n1, n2 \in Node : IsPrefix(applied[n1], applied[n2])
                         \/ IsPrefix(applied[n2], applied[n1])

(* Every command handed to Replob2::apply is eventually executed, and   *)
(* stays executed, on every node that has not given up: nothing waits     *)
(* forever in a step no node can complete, and Phantom::complete never    *)
(* stops at a gap that no later step fills.                               *)
EventuallyApplied ==
    <>[](\A n \in Node : up[n] => Proposed \subseteq AppliedIds(n))

(* Phantom's step table: a node that has not given up holds entries only *)
(* for steps it has not executed yet and has heard of (currentStepId_ <= *)
(* s < nextStepId_), and it has executed exactly one batch per step below *)
(* currentStepId_.  getPtr's early return for old steps, the erase in     *)
(* complete() and the nextStepId_ bump for remote steps keep this under   *)
(* any order of votes, commits, timeouts and lost packets.                *)
PhantomTableWellFormed ==
    \A n \in Node : up[n] =>
        /\ currentStepId[n] <= nextStepId[n]
        /\ DOMAIN steps[n] \subseteq currentStepId[n]..(nextStepId[n] - 1)
        /\ Len(applied[n]) = currentStepId[n]

(* Refinement mapping onto AtomicLog.  A step is decided once some node   *)
(* has committed it: the batch is visible in a Completed entry, in a      *)
(* commit packet in flight, or in a node's executed log.                  *)
CommittedBatches(s) ==
    {Exec(steps[n][s].carries) :
        n \in {x \in Node : s \in DOMAIN steps[x] /\ steps[x][s].state = "Completed"}}
    \cup {applied[n][s + 1] : n \in {x \in Node : Len(applied[x]) > s}}
    \cup {Exec(m.carries) : m \in {x \in msgs : x.type = "commit" /\ x.step = s}}

DecidedSteps == {s \in StepId : CommittedBatches(s) # {}}

DecidedLog == [s \in DecidedSteps |-> CHOOSE b \in CommittedBatches(s) : TRUE]

Abstract == INSTANCE AtomicLog WITH Command <- MsgId, Step <- StepId,
                proposed <- Proposed, decided <- DecidedLog, executed <- applied

(* Replob implements atomic broadcast: under every interleaving of        *)
(* apply(), vote and commit deliveries, the steps that nodes commit and   *)
(* execute (Voting::commit, Phantom::complete, Voting::exec) behave as one *)
(* log whose entries, once decided, never change and are run by every    *)
(* node in StepId order; each batch holds proposed commands only.         *)
ImplementsAtomicLog == Abstract!Spec

(* Spec 4.3: the availability timer acts "while still voting"; a node    *)
(* must never give up (cleanupAll) over a step it has already committed. *)
NoFailOnCommittedStep == \A n \in Node : failCause[n] # "Completed"

(* A timeout journey posted by timer_ must find its Voting object alive: *)
(* Voting::timeout runs on the `this' captured by Timer::reset.           *)
TimeoutTargetsLiveStep ==
    \A n \in Node : up[n] => pending[n] \subseteq DOMAIN steps[n]
=============================================================================
