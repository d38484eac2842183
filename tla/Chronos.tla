------------------------------- MODULE Chronos -------------------------------
(***************************************************************************)
(* The replicated scheduler of examples/chronos.cpp (struct Chronos) with  *)
(* its failure detector (struct Detector) and the membership it shrinks    *)
(* (NodesConfig and Nodes of src/node.cpp).                                *)
(*                                                                         *)
(* Every node holds a replica of Chronos, changed only by commands that    *)
(* the replicated object engine commits: addEvent, scheduleEventsUpTo,     *)
(* onHandlerCompleted, and the Detector's eviction closure.  The engine    *)
(* is the abstract log of AtomicLog: proposals are committed in one total  *)
(* order, and every node executes that order at its own pace.  What runs  *)
(* outside the log is local: the nextEvent_ timer, the handler journeys,  *)
(* the Detector's pulses and the posted removeNodeComplete journey.  A     *)
(* node that stops is a node that takes no further step, which every      *)
(* behaviour already contains; no node is assumed to stop for good.        *)
(*                                                                         *)
(* Time is one steady clock, `now`, read by each node when it runs.  The   *)
(* Detector's 3 s staleness test is a free choice: a pulse may find any    *)
(* tracked node stale, since delays in an asynchronous network can make a  *)
(* live node look dead.                                                    *)
(***************************************************************************)
EXTENDS Integers, FiniteSets, Sequences, SequencesExt

CONSTANTS
    Node,       \* NodeIds, small positive integers
    Handler,    \* handlers given to addEvent, small positive integers
    Delay,      \* intervals of addActionAfterInterval, in clock ticks
    MaxTime,    \* bound on the steady clock
    MaxLog,     \* bound on the committed commands
    Suspect     \* nodes a pulse may find stale

ASSUME Node \subseteq Nat \ {0} /\ Handler \subseteq Nat \ {0}
ASSUME Delay \subseteq Nat /\ MaxTime \in Nat /\ MaxLog \in Nat
ASSUME Suspect \subseteq Node

NoJob   == 0        \* running_ has no entry for the node
NoTimer == -1       \* nextEvent_ is not armed

VARIABLES
    now,            \* Clock::now()
    log,            \* the committed commands, in commit order
    issued,         \* handlers already given to addActionAfterInterval
    applied,        \* applied[n]: commands n has executed
    cfg,            \* cfg[n]: keys of NodesConfig::nodes_ at n
    disconnected,   \* disconnected[n]: Connectors of Nodes::nodes_ closed
    nodesTs,        \* nodesTs[n]: keys of Detector::nodesTs_ at n
    completing,     \* completing[n]: posted removeNodeComplete journeys
    rep,            \* rep[n]: the Chronos replica at n
    timer,          \* timer[n]: deadline of Chronos::nextEvent_ at n
    jobs            \* jobs[n]: handler journeys posted by executeHandler

vars == <<now, log, issued, applied, cfg, disconnected,
          nodesTs, completing, rep, timer, jobs>>

(* NodesConfig::otherNodes at n: the configured nodes but n itself.        *)
OtherNodes(n, c) == c \ {n}

(* The commands carried by the log.                                        *)
AddCmd(h, d)  == [t |-> "add", h |-> h, d |-> d]
UpToCmd(t)    == [t |-> "upTo", now |-> t]
DoneCmd(id)   == [t |-> "done", id |-> id]
RemoveCmd(id) == [t |-> "remove", id |-> id]

Cmd == {AddCmd(h, d) : h \in Handler, d \in Delay}
       \cup {UpToCmd(t) : t \in 0..MaxTime}
       \cup {DoneCmd(id) : id \in Node} \cup {RemoveCmd(id) : id \in Node}

(* Chronos's members: events_ (deadline and handler), awaiting_, running_, *)
(* slots_ and availableNodes_.                                             *)
Event == [h : Handler, ts : 0..(MaxTime + MaxTime)]

Replica == [events : SUBSET Event, awaiting : Seq(Handler),
            running : [Node -> Handler \cup {NoJob}],
            slots : Seq(Node), avail : SUBSET Node]

(* The Chronos constructor: every node of NodesConfig::nodes() is a free   *)
(* slot.  The order of that unordered_map is the same on every node.       *)
InitReplica == [events |-> {}, awaiting |-> <<>>,
                running |-> [id \in Node |-> NoJob],
                slots |-> SetToSortSeq(Node, <), avail |-> Node]

Init ==
    /\ now = 0
    /\ log = <<>>
    /\ issued = {}
    /\ applied = [n \in Node |-> 0]
    /\ cfg = [n \in Node |-> Node]
    /\ disconnected = [n \in Node |-> {}]
    /\ nodesTs = [n \in Node |-> OtherNodes(n, Node)]
    /\ completing = [n \in Node |-> {}]
    /\ rep = [n \in Node |-> InitReplica]
    /\ timer = [n \in Node |-> NoTimer]
    /\ jobs = [n \in Node |-> {}]
-----------------------------------------------------------------------------
(* Helpers of the replica.                                                 *)

(* removeElement: every occurrence of e leaves the container.              *)
RemoveElement(s, e) == Remove(s, e)

(* executeHandler inside triggerAwaitings: running_[id] = h for the head   *)
(* of awaiting_ and of slots_, and a handler journey when id is this node. *)
RECURSIVE TriggerAwaitings(_, _, _)
TriggerAwaitings(r, self, started) ==
    IF r.awaiting = <<>> \/ r.slots = <<>>
    THEN <<r, started>>
    ELSE LET h  == Head(r.awaiting)
             id == Head(r.slots)
         IN  TriggerAwaitings([r EXCEPT !.running[id] = h,
                                        !.awaiting = Tail(@),
                                        !.slots = Tail(@)],
                              self,
                              IF id = self THEN started \cup {h} ELSE started)

(* The replica r becomes n's Chronos after triggerAwaitings.               *)
SetReplica(n, r) ==
    LET res == TriggerAwaitings(r, n, {})
    IN  /\ rep' = [rep EXCEPT ![n] = res[1]]
        /\ jobs' = [jobs EXCEPT ![n] = @ \cup res[2]]

(* replobApply: the engine commits the closure after every closure         *)
(* committed before it.  Commands beyond the bound MaxLog are not modelled.*)
Propose(c) == IF Len(log) < MaxLog THEN Append(log, c) ELSE log

Earliest(r) == Min({e.ts : e \in r.events})

(* scheduleWait, on n's replica r after the command: disarm the timer when *)
(* events_ is empty; when the earliest deadline has passed, scheduleEvents *)
(* proposes scheduleEventsUpTo(now) at once; else arm the timer for it.    *)
ScheduleWait(n, r) ==
    IF r.events = {}
    THEN /\ timer' = [timer EXCEPT ![n] = NoTimer]
         /\ UNCHANGED log
    ELSE IF Earliest(r) < now
         THEN /\ log' = Propose(UpToCmd(now))
              /\ UNCHANGED timer
         ELSE /\ timer' = [timer EXCEPT ![n] = Earliest(r)]
              /\ UNCHANGED log

(* The events of r due before t, in the priority_queue's order.            *)
DueOrder(r, t) ==
    SetToSortSeq({e \in r.events : e.ts < t},
                 LAMBDA a, b : a.ts < b.ts \/ (a.ts = b.ts /\ a.h < b.h))

-----------------------------------------------------------------------------
(* Executing the next committed command at a node.                        *)

NextCmd(n) == log[applied[n] + 1]

Executes(n, kind) ==
    /\ applied[n] < Len(log)
    /\ NextCmd(n).t = kind
    /\ applied' = [applied EXCEPT ![n] = @ + 1]

(* addActionAfterInterval's transaction: addEvent(diff, h) reads the      *)
(* node's own clock for the deadline, then scheduleWait.                   *)
ApplyAdd(n) ==
    /\ Executes(n, "add")
    /\ LET c == NextCmd(n)
           r == [rep[n] EXCEPT !.events = @ \cup {[h |-> c.h, ts |-> now + c.d]}]
       IN  /\ rep' = [rep EXCEPT ![n] = r]
           /\ ScheduleWait(n, r)
    /\ UNCHANGED <<now, issued, cfg, disconnected, nodesTs,
                   completing, jobs>>

(* scheduleEventsUpTo(now): every event due before the committed time     *)
(* moves to awaiting_, then triggerAwaitings and scheduleWait.             *)
ApplyUpTo(n) ==
    /\ Executes(n, "upTo")
    /\ LET t     == NextCmd(n).now
           due   == DueOrder(rep[n], t)
           moved == [rep[n] EXCEPT !.events = {e \in @ : ~(e.ts < t)},
                                   !.awaiting = @ \o [i \in 1..Len(due) |-> due[i].h]]
           res   == TriggerAwaitings(moved, n, {})
       IN  /\ rep' = [rep EXCEPT ![n] = res[1]]
           /\ jobs' = [jobs EXCEPT ![n] = @ \cup res[2]]
           /\ ScheduleWait(n, res[1])
    /\ UNCHANGED <<now, issued, cfg, disconnected, nodesTs,
                   completing>>

(* onHandlerCompleted(id): the slot is free again.                         *)
ApplyDone(n) ==
    /\ Executes(n, "done")
    /\ LET id == NextCmd(n).id
       IN  SetReplica(n, [rep[n] EXCEPT !.running[id] = NoJob,
                                        !.slots = Append(@, id)])
    /\ UNCHANGED <<now, log, issued, cfg, disconnected,
                   nodesTs, completing, timer>>

(* The Detector's eviction closure: it only posts removeNodeComplete.      *)
ApplyRemove(n) ==
    /\ Executes(n, "remove")
    /\ completing' = [completing EXCEPT ![n] = @ \cup {NextCmd(n).id}]
    /\ UNCHANGED <<now, log, issued, cfg, disconnected,
                   nodesTs, rep, timer, jobs>>
-----------------------------------------------------------------------------
(* Steps outside the log.                                                  *)

(* addActionAfterInterval(event, diff, h) on any node.                     *)
ProposeAdd ==
    \E h \in Handler \ issued, d \in Delay :
        /\ issued' = issued \cup {h}
        /\ Len(log) < MaxLog
        /\ log' = Append(log, AddCmd(h, d))
        /\ UNCHANGED <<now, applied, cfg, disconnected, nodesTs,
                       completing, rep, timer, jobs>>

Tick ==
    /\ now < MaxTime
    /\ now' = now + 1
    /\ UNCHANGED <<log, issued, applied, cfg, disconnected,
                   nodesTs, completing, rep, timer, jobs>>

(* nextEvent_ fires 100 ms after the deadline and runs scheduleEvents on   *)
(* the local replica: when the earliest event is due it proposes           *)
(* scheduleEventsUpTo with the time it read.                               *)
TimerFires(n) ==
    /\ timer[n] # NoTimer
    /\ now > timer[n]
    /\ timer' = [timer EXCEPT ![n] = NoTimer]
    /\ log' = IF rep[n].events # {} /\ Earliest(rep[n]) < now
              THEN Propose(UpToCmd(now))
              ELSE log
    /\ UNCHANGED <<now, issued, applied, cfg, disconnected, nodesTs,
                   completing, rep, jobs>>

(* The journey of executeHandler: h() returns, then the transaction        *)
(* onHandlerCompleted(id) for the slot it was given, this node.            *)
HandlerDone(n) ==
    \E h \in jobs[n] :
        /\ jobs' = [jobs EXCEPT ![n] = @ \ {h}]
        /\ log' = Propose(DoneCmd(n))
        /\ UNCHANGED <<now, issued, applied, cfg, disconnected,
                       nodesTs, completing, rep, timer>>

(* The removeNode of examples/failure_detector.cpp: the node leaves        *)
(* nodesTs_ as soon as the eviction is proposed.                           *)
PulseErasesEagerly(n) ==
    /\ Len(log) < MaxLog
    /\ \E id \in nodesTs[n] \cap Suspect :
           /\ log' = Append(log, RemoveCmd(id))
           /\ nodesTs' = [nodesTs EXCEPT ![n] = @ \ {id}]
    /\ UNCHANGED <<now, issued, applied, cfg, disconnected,
                   completing, rep, timer, jobs>>

(* Detector::pulse: the broadcast of update(thisNode) is Update below;     *)
(* then check passes every stale node of nodesTs_ to removeNode, which     *)
(* proposes the eviction closure with replobApply.  Each removeNode is its *)
(* own proposal, so one per step reaches the same orders; a pulse that     *)
(* finds nothing stale changes nothing.                                    *)
Pulse(n) ==
    /\ Len(log) < MaxLog
    /\ \E id \in nodesTs[n] \cap Suspect : log' = Append(log, RemoveCmd(id))
    /\ UNCHANGED <<now, issued, applied, cfg, disconnected, nodesTs,
                   completing, rep, timer, jobs>>

(* The broadcast of m's Detector::pulse reaches n, a node of m's           *)
(* NodesConfig, and update(m) inserts m into nodesTs_ there (a refresh of  *)
(* a tracked node changes nothing in this model).  Pulses repeat every     *)
(* 500 ms, so a message in flight is one sent by a later pulse.           *)
Update(m, n) ==
    /\ n \in OtherNodes(m, cfg[m])
    /\ m \notin nodesTs[n]
    /\ nodesTs' = [nodesTs EXCEPT ![n] = @ \cup {m}]
    /\ UNCHANGED <<now, log, issued, applied, cfg,
                   disconnected, completing, rep, timer, jobs>>

(* Nodes::remove(id) at n, on the NodesConfig keys c it finds: when the    *)
(* node is still configured it is erased from c and its Connector is       *)
(* disconnected; Nodes::nodes_ keeps the Connector.                        *)
NodesRemove(n, id, c) ==
    IF id \in c
    THEN <<c \ {id}, disconnected[n] \cup {id}>>
    ELSE <<c, disconnected[n]>>

(* onNodeRemove without the running_.count(id) == 0 return: running_[id]  *)
(* default-constructs an empty Handler and queues it.                      *)
OnNodeRemoveUnguarded(n, id) ==
    LET r == [rep[n] EXCEPT !.avail = @ \ {id},
                            !.slots = RemoveElement(@, id)]
    IN  SetReplica(n, [r EXCEPT !.awaiting = Append(@, r.running[id]),
                                !.running[id] = NoJob])

(* Chronos::onNodeRemove(id): the node is no longer available, and the     *)
(* handler it was running goes back to awaiting_.                          *)
OnNodeRemove(n, id) ==
    LET r == [rep[n] EXCEPT !.avail = @ \ {id},
                            !.slots = RemoveElement(@, id)]
    IN  IF r.running[id] = NoJob
        THEN /\ rep' = [rep EXCEPT ![n] = r]
             /\ UNCHANGED jobs
        ELSE SetReplica(n, [r EXCEPT !.awaiting = Append(@, r.running[id]),
                                     !.running[id] = NoJob])

(* removeNodeComplete with NodesConfig::removeNode before Nodes::remove,   *)
(* which then finds the node gone and returns false.                       *)
RemoveNodeCompleteConfigFirst(n, id) ==
    /\ id \in completing[n]
    /\ completing' = [completing EXCEPT ![n] = @ \ {id}]
    /\ IF id \notin nodesTs[n]
       THEN UNCHANGED <<cfg, disconnected, nodesTs, rep, jobs>>
       ELSE LET res == NodesRemove(n, id, cfg[n] \ {id})
            IN  /\ nodesTs' = [nodesTs EXCEPT ![n] = @ \ {id}]
                /\ disconnected' = [disconnected EXCEPT ![n] = res[2]]
                /\ cfg' = [cfg EXCEPT ![n] = res[1]]
                /\ OnNodeRemove(n, id)
    /\ UNCHANGED <<now, log, issued, applied, timer>>

(* removeNodeComplete with the test of line 101 written count(id) != 0.    *)
RemoveNodeCompleteInverted(n, id) ==
    /\ id \in completing[n]
    /\ completing' = [completing EXCEPT ![n] = @ \ {id}]
    /\ IF id \in nodesTs[n]
       THEN UNCHANGED <<cfg, disconnected, nodesTs, rep, jobs>>
       ELSE LET res == NodesRemove(n, id, cfg[n])
            IN  /\ nodesTs' = [nodesTs EXCEPT ![n] = @ \ {id}]
                /\ disconnected' = [disconnected EXCEPT ![n] = res[2]]
                /\ cfg' = [cfg EXCEPT ![n] = res[1] \ {id}]
                /\ OnNodeRemove(n, id)
    /\ UNCHANGED <<now, log, issued, applied, timer>>

(* removeNodeComplete(id), posted by the eviction closure: nothing when    *)
(* nodesTs_ lacks the node; else erase it there, Nodes::remove,            *)
(* NodesConfig::removeNode, and Chronos::onNodeRemove.                     *)
RemoveNodeComplete(n, id) ==
    /\ id \in completing[n]
    /\ completing' = [completing EXCEPT ![n] = @ \ {id}]
    /\ IF id \notin nodesTs[n]
       THEN UNCHANGED <<cfg, disconnected, nodesTs, rep, jobs>>
       ELSE LET res == NodesRemove(n, id, cfg[n])
            IN  /\ nodesTs' = [nodesTs EXCEPT ![n] = @ \ {id}]
                /\ disconnected' = [disconnected EXCEPT ![n] = res[2]]
                /\ cfg' = [cfg EXCEPT ![n] = res[1] \ {id}]
                /\ OnNodeRemove(n, id)
    /\ UNCHANGED <<now, log, issued, applied, timer>>

ApplyNext(n) == ApplyAdd(n) \/ ApplyUpTo(n) \/ ApplyDone(n) \/ ApplyRemove(n)

Next ==
    \/ ProposeAdd \/ Tick
    \/ \E n \in Node :
          \/ ApplyNext(n) \/ TimerFires(n) \/ HandlerDone(n) \/ Pulse(n)
          \/ \E id \in Node : RemoveNodeComplete(n, id)
    \/ \E m, n \in Node : Update(m, n)

(* Each node's pool runs its posted journeys, and a committed command is  *)
(* executed by every node.                                                 *)
Fairness ==
    /\ \A n \in Node : WF_vars(ApplyNext(n))
    /\ \A n \in Node : WF_vars(\E id \in Node : RemoveNodeComplete(n, id))

Spec == Init /\ [][Next]_vars /\ Fairness

-----------------------------------------------------------------------------
(* Properties.                                                             *)

TypeOK ==
    /\ now \in 0..MaxTime
    /\ log \in Seq(Cmd) /\ Len(log) <= MaxLog
    /\ issued \subseteq Handler
    /\ applied \in [Node -> 0..MaxLog]
    /\ \A n \in Node : applied[n] <= Len(log)
    /\ cfg \in [Node -> SUBSET Node]
    /\ disconnected \in [Node -> SUBSET Node]
    /\ nodesTs \in [Node -> SUBSET Node]
    /\ completing \in [Node -> SUBSET Node]
    /\ rep \in [Node -> Replica]
    /\ timer \in [Node -> {NoTimer} \cup 0..(MaxTime + MaxTime)]
    /\ jobs \in [Node -> SUBSET Handler]

(* Nodes::remove and the second NodesConfig::removeNode of                 *)
(* removeNodeComplete, run again for every duplicate eviction the pulses   *)
(* propose: a node leaves another's NodesConfig exactly when that         *)
(* node has closed its Connector to it.                                    *)
EvictedNodeDisconnected ==
    \A n \in Node : \A id \in Node \ {n} :
        (id \notin cfg[n]) <=> (id \in disconnected[n])

(* The eviction is committed once, but every node applies it through its  *)
(* own posted removeNodeComplete, guarded by its own nodesTs_ (which       *)
(* Detector::update may have refilled).  Two nodes that have executed     *)
(* the same commands and have no eviction pending agree on the membership, *)
(* apart from each one keeping itself.                                     *)
MembershipAgrees ==
    \A n, m \in Node :
        (applied[n] = applied[m] /\ completing[n] = {} /\ completing[m] = {})
            => cfg[n] \ {n, m} = cfg[m] \ {n, m}

(* Once an eviction is committed (only a suspect is ever proposed), every *)
(* node other than the evicted one eventually drops it from NodesConfig,  *)
(* however its removeNodeComplete journeys interleave with its updates.   *)
EvictionCompletes ==
    \A id \in Suspect :
        (\E i \in 1..Len(log) : log[i] = RemoveCmd(id))
            ~> (\A n \in Node \ {id} : id \notin cfg[n])

(* Two Chronos replicas that have executed the same commands, with        *)
(* no eviction pending, are equal.                                         *)
ReplicasAgree ==
    \A n, m \in Node :
        (applied[n] = applied[m] /\ completing[n] = {} /\ completing[m] = {})
            => rep[n] = rep[m]

(* A replica only hands jobs to available nodes: every free slot is       *)
(* in availableNodes_, so an evicted node is never given a job again.      *)
SlotsAreAvailable ==
    \A n \in Node : \A i \in 1..Len(rep[n].slots) : rep[n].slots[i] \in rep[n].avail
=============================================================================
