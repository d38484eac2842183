---------------------------- MODULE JourneyState ----------------------------
(***************************************************************************)
(* The wake-up protocol of one journey (a coroutine of the synca runtime). *)
(*                                                                         *)
(* JourneyState::state_ (src/journey.h:53-91) is one atomic word: the      *)
(* flags Entered, EventsEnabled, Done, Cancelled, Timedout and a counter   *)
(* above them.  The journey itself, the completion handlers of its         *)
(* asynchronous operations (doers), the Timeout timer and a Goer that      *)
(* cancels it all update the word from different threads of the pool.     *)
(* Every fetch_or, fetch_and, fetch_add, load and successful CAS of        *)
(* journey.cpp is one step here; a CAS retry loop is one step, because    *)
(* it retries until its decision is taken on the value it replaces.        *)
(*                                                                         *)
(* The journey runs MaxOps operations one after the other.  Each operation *)
(* is one of the four ways the code waits:                                 *)
(*   "sleep"     sleepa (core.cpp:235-244): a DetachableDoer captured by   *)
(*               value in a timer handler;                                 *)
(*   "socket"    BaseSocket::call (network.cpp:100-123) with CloseOnError  *)
(*               (network.cpp:66-98): a plain Doer inside the frame;       *)
(*   "detach"    a DetachableAwaiter that is left without wait()           *)
(*               (core.cpp:501-529): its destructor calls detachDoers;     *)
(*   "applySync" replobApplySync (replob.h:290-385): Timeout _(3000) and   *)
(*               a DetachableDoer on the caller's stack reached through a  *)
(*               raw pointer by the committed closure;                     *)
(*   "group", "awaiter"  Awaiter2 and Awaiter with child journeys;         *)
(*   "awaiterDtor" an Awaiter left without wait(): ~Awaiter (core.cpp:     *)
(*               358-364) waits in waitForDoneAlwaysGuarded;               *)
(*   "goWait", "anyWait" goWait and goAnyWait (core.cpp:84-92, 167-188):   *)
(*               deferProceed with a plain Doer shared by child journeys;  *)
(*   "anyResult" goAnyResult (core.h:195-237): deferProceed, and the first *)
(*               child with a result, or else the last owner of the       *)
(*               shared Counter, proceeds;                                 *)
(*   "asyncWaiter" AsyncWaiter (core.h:80-106): inc() for every child it  *)
(*               starts, dec() when one ends, then wait();                 *)
(*   "detachWait" DetachableAwaiter::wait (core.cpp:517-522);              *)
(*   "reschedule" reschedule / teleport to another scheduler.              *)
(***************************************************************************)
EXTENDS Integers, FiniteSets

CONSTANTS
    MaxOps,     \* operations the journey performs
    Kinds,      \* the kinds of operation it may choose from
    MaxCancel,  \* Goer::cancel calls from other journeys
    NChild      \* child journeys started by a group wait

ASSUME MaxOps \in Nat \ {0} /\ MaxCancel \in Nat /\ NChild \in Nat \ {0}
AllKinds == {"sleep", "socket", "detach", "applySync", "group", "awaiter",
             "awaiterDtor", "goWait", "anyWait", "anyResult", "detachWait",
             "reschedule", "asyncWaiter"}
ASSUME Kinds \subseteq AllKinds

Ops == 1..MaxOps

(* The kinds that start child journeys. *)
Grouped == {"group", "awaiter", "awaiterDtor", "goWait", "anyWait", "anyResult",
            "asyncWaiter"}
(* The kinds whose children share a use-counted object with the         *)
(* procHandler: goWait's proceeder, goAnyResult's Counter.                *)
Shared == {"goWait", "anyResult"}
Children == 1..NChild

VARIABLES
    st,          \* JourneyState::state_
    pc,          \* next statement of the journey's coroutine
    running,     \* the coroutine is on a worker thread
    sched,       \* proceed0 jobs scheduled and not yet started (Journey::proceed)
    op,          \* the operation the journey is in
    kind,        \* kind[k]: what operation k is
    doer,        \* doer[k]: the completion of operation k
    timer,       \* timer[k]: the Timeout of an applySync operation
    wasDone,     \* wasDone[k]: CloseOnError::wasDone_ of a socket operation
    ioError,     \* ioError[k]: the ErrorCode the socket completion stored
    dtor,        \* inside ~CloseOnError's wait
    unwinding,   \* an exception is propagating out of the operation
    wasEnabled,  \* DtorEventsGuard::wasEnabled
    cancels,     \* Goer::cancel calls made so far
    fault,       \* "verify": a VERIFY of handleEvents failed;
                 \* "dtorThrow": handleEvents threw inside a destructor
    dangling,    \* a completion touched the frame of a finished operation
    child,       \* child[k][i]: the i-th child journey of a group operation k
    counter,     \* counter[k]: Completer::counter_ / Completer2::counter_,
                 \* goWait's proceeder use count, goAnyWait's *counter
    jobs,        \* jobs[k]: Completer2::jobs_
    goers,       \* goers[k]: the group's goers_ vector is not empty
    proceeded    \* proceeded[k]: goAnyResult's Counter::counter is not 0

groupVars == <<child, counter, jobs, goers, proceeded>>
vars == <<st, pc, running, sched, op, kind, doer, timer, wasDone, ioError,
          dtor, unwinding, wasEnabled, cancels, fault, dangling, groupVars>>

Flags == {"entered", "enabled", "done", "cancelled", "timedout"}
MaxCounter == MaxOps + MaxCancel + MaxOps

DoerPc == {"none", "idle", "acquired", "flagged", "finished", "failed"}
TimerPc == {"none", "armed", "expired", "fired", "cancelled"}
JourneyPc == {"start", "snapCounter", "snapEnabled", "wait", "yield", "handle",
              "throwCancel", "throwTimeout", "resetDone", "exit", "unwind",
              "detach", "detachReset", "dtorGuard", "guardExit", "goChild", "groupWait",
              "groupEnd", "awAdd", "awWait", "awYield1", "awCheck", "awYield2", "awYield3", "awGuarded",
              "awGuardExit", "awCleanup", "goDrop", "waiterWait", "reschedule", "end"}
ChildPc == {"none", "running", "cancelled", "zero", "finished"}

(* The word: initially FlagEntered | FlagEventsEnabled (journey.h:91).    *)
InitWord == [entered |-> TRUE, enabled |-> TRUE, done |-> FALSE,
             cancelled |-> FALSE, timedout |-> FALSE, counter |-> 0]

(* setFlags0 / resetFlags0 (journey.cpp:258-270): fetch_or and fetch_and. *)
SetFlags0(w, F) == [f \in DOMAIN w |-> IF f \in F THEN TRUE ELSE w[f]]
ResetFlags0(w, F) == [f \in DOMAIN w |-> IF f \in F THEN FALSE ELSE w[f]]

(* mayProceed (journey.cpp:277-283). *)
MayProceed(w) == w.done \/ (w.enabled /\ (w.cancelled \/ w.timedout))

(* disableEvents (journey.cpp:67-70): clear EventsEnabled; the caller    *)
(* (DtorEventsGuard, core.cpp:114-118) keeps whether it was set.          *)
DisableEvents ==
    /\ wasEnabled' = st.enabled
    /\ st' = ResetFlags0(st, {"enabled"})

(* enableEvents (journey.cpp:72-75), from ~DtorEventsGuard when the guard *)
(* found events enabled.                                                  *)
EnableEvents == IF wasEnabled THEN st' = SetFlags0(st, {"enabled"}) ELSE UNCHANGED st

(* isDone (journey.cpp:82-86): a relaxed load of the word.                *)
IsDone == st.done

(* Coro::state (coro.cpp:45-96): Suspended when created and while        *)
(* yielded, Running between resume and yield, Completed once the handler  *)
(* returned.  Coro::resume VERIFYs that the coroutine is suspended.       *)
CoroState == CASE pc = "end" -> "Completed"
               [] running    -> "Running"
               [] OTHER      -> "Suspended"

(* Journey::proceed (journey.cpp:353-358): one more proceed0 job. *)
Proceed == sched' = sched + 1

(* Mutant of StateDone: tests Entered on the word it has just written,   *)
(* where FlagEntered is always set, so done() never wakes the journey.    *)
StateDoneTestsNewWord ==
    /\ st' = SetFlags0(st, {"done", "entered"})
    /\ UNCHANGED sched

(* JourneyState::done (journey.cpp:88-97), called by Doer::done. *)
StateDone ==
    /\ st' = SetFlags0(st, {"done", "entered"})
    /\ IF st.entered THEN UNCHANGED sched ELSE Proceed

(* releaseAndDone (journey.cpp:160-179). *)
ReleaseAndDone(wasEventsEnabled) ==
    IF ~wasEventsEnabled
    THEN StateDone
    ELSE /\ st' = SetFlags0(st, {"done", "entered", "enabled"})
         /\ IF st.entered THEN UNCHANGED sched ELSE Proceed

(* Mutant of AddRaiseEvent: wakes the journey without testing Entered.   *)
AddRaiseEventAlwaysProceeds(flag) ==
    IF st.enabled
    THEN /\ st' = [SetFlags0(st, {flag, "entered"}) EXCEPT !.counter = @ + 1]
         /\ Proceed
    ELSE /\ st' = SetFlags0(st, {flag})
         /\ UNCHANGED sched

(* addRaiseEvent (journey.cpp:222-256): with events enabled the event     *)
(* bumps the counter, so that pending DetachableDoers fail to acquire,    *)
(* sets Entered and wakes a parked journey; otherwise it only sets flag.  *)
AddRaiseEvent(flag) ==
    IF st.enabled
    THEN /\ st' = [SetFlags0(st, {flag, "entered"}) EXCEPT !.counter = @ + 1]
         /\ IF st.entered THEN UNCHANGED sched ELSE Proceed
    ELSE /\ st' = SetFlags0(st, {flag})
         /\ UNCHANGED sched

(* Awaiter::cancel / Awaiter2::cancel (core.cpp:383-387, 489-493): the   *)
(* Goer of every child that is still running raises Cancelled on it.     *)
CancelChildren(c) == [i \in Children |-> IF c[i] = "running" THEN "cancelled" ELSE c[i]]

(* The stack frame of operation k exists while the journey is in it. *)
FrameAlive(k) == op = k /\ pc # "end"

(* The frame-bound doers: ReplobApplySync::doer_/result_, the           *)
(* CloseOnError a socket completion captures by reference, and the       *)
(* Awaiter/Awaiter2 whose completer_ the children reach through `this`.  *)
(* goWait and goAnyWait children call handler() through &handler, an    *)
(* element of the caller's initializer_list, and goAnyWait's winner       *)
(* writes &index, goAnyResult's proceed writes &result.                  *)
UsesFrame(k) == kind[k] \in {"socket", "applySync", "group", "awaiter", "awaiterDtor",
                             "goWait", "anyWait", "anyResult", "asyncWaiter"}
TouchFrame(k) == dangling' = (dangling \/ (UsesFrame(k) /\ ~FrameAlive(k)))

(* Journey::start0 (journey.cpp:506-511) schedules the first proceed0.   *)
Init ==
    /\ st = InitWord
    /\ pc = "start"
    /\ running = FALSE
    /\ sched = 1
    /\ op = 1
    /\ kind = [k \in Ops |-> "none"]
    /\ doer = [k \in Ops |-> [pc |-> "none", counter |-> 0, enabled |-> FALSE]]
    /\ timer = [k \in Ops |-> "none"]
    /\ wasDone = [k \in Ops |-> FALSE]
    /\ ioError = [k \in Ops |-> FALSE]
    /\ dtor = FALSE
    /\ unwinding = FALSE
    /\ wasEnabled = FALSE
    /\ cancels = 0
    /\ fault = "none"
    /\ dangling = FALSE
    /\ child = [k \in Ops |-> [i \in Children |-> "none"]]
    /\ counter = [k \in Ops |-> 0]
    /\ jobs = [k \in Ops |-> 0]
    /\ goers = [k \in Ops |-> FALSE]
    /\ proceeded = [k \in Ops |-> FALSE]

-----------------------------------------------------------------------------
(* The journey's own steps, each on the thread that runs it.              *)

(* The coroutine returns: proceed0 deletes the journey without clearing  *)
(* Entered (journey.cpp:534-539).                                         *)
Finish == pc' = "end" /\ running' = FALSE

(* Leaving operation op: the next one, or the end of the handler.        *)
NextOp ==
    IF op = MaxOps
    THEN Finish /\ UNCHANGED op
    ELSE op' = op + 1 /\ pc' = "start" /\ UNCHANGED running

(* ~Timeout (core.cpp:229-233): cancel_one stops a wait that has not     *)
(* expired; a handler already posted still runs.                          *)
CancelTimer(k) ==
    timer' = IF timer[k] = "armed" THEN [timer EXCEPT ![k] = "cancelled"] ELSE timer

(* Mutant of Resume: runs proceed0 without a scheduled job.               *)
ResumeWithoutJob ==
    /\ CoroState = "Suspended"
    /\ running' = TRUE
    /\ sched' = sched - 1
    /\ UNCHANGED <<groupVars, st, pc, op, kind, doer, timer, wasDone, ioError, dtor,
                   unwinding, wasEnabled, cancels, fault, dangling>>

(* proceed0 runs a scheduled job: coro.resume (journey.cpp:530-534).     *)
Resume ==
    /\ CoroState = "Suspended" /\ sched > 0
    /\ running' = TRUE
    /\ sched' = sched - 1
    /\ UNCHANGED <<groupVars, st, pc, op, kind, doer, timer, wasDone, ioError, dtor,
                   unwinding, wasEnabled, cancels, fault, dangling>>

(* deferProceed (journey.cpp:367-371) for goWait, goAnyWait and          *)
(* goAnyResult: the procHandler gets doneHandler() (347-351), a plain     *)
(* Doer, and starts the children; goWait first creates the proceeder, a   *)
(* shared_ptr of use count 1 whose deleter calls the done handler         *)
(* (core.cpp:86-87), goAnyResult the shared Counter (core.h:222-226).     *)
DeferProceed(kd) ==
    /\ counter' = IF kd \in Shared THEN [counter EXCEPT ![op] = 1] ELSE counter
    /\ pc' = "goChild"

(* An operation begins.  applySync first constructs Timeout _(3000)      *)
(* (replob.h:383); a socket call constructs CloseOnError with a plain    *)
(* Doer and starts the I/O (network.cpp:108-115); group and awaiter go   *)
(* on to start their children; goWait and goAnyWait call deferProceed;   *)
(* reschedule, and teleport to another scheduler (journey.cpp:373-383),   *)
(* go to Journey::reschedule; AsyncWaiter starts its counter at 1; the    *)
(* others construct a DetachableDoer.                                     *)
Start ==
    /\ running /\ pc = "start"
    /\ \E kd \in Kinds:
          /\ kind' = [kind EXCEPT ![op] = kd]
          /\ timer' = IF kd = "applySync" THEN [timer EXCEPT ![op] = "armed"] ELSE timer
          /\ doer' = IF kd = "socket" THEN [doer EXCEPT ![op].pc = "idle"] ELSE doer
          /\ IF kd \in {"goWait", "anyWait", "anyResult"}
             THEN DeferProceed(kd)
             ELSE /\ pc' = CASE kd = "socket"                 -> "wait"
                              [] kd \in Grouped             -> "goChild"
                              [] kd = "reschedule"            -> "reschedule"
                              [] OTHER                         -> "snapCounter"
                  /\ counter' = IF kd = "asyncWaiter" THEN [counter EXCEPT ![op] = 1]
                                ELSE counter
    /\ UNCHANGED <<child, jobs, goers, proceeded, st, running, sched, op, wasDone, ioError, dtor, unwinding,
                   wasEnabled, cancels, fault, dangling>>

(* DetachableDoer ctor (oers.cpp:63-66): counter_ and eventsEnabled_ are  *)
(* two separate loads of the word.                                        *)
SnapCounter ==
    /\ running /\ pc = "snapCounter"
    /\ doer' = [doer EXCEPT ![op].counter = st.counter]
    /\ pc' = "snapEnabled"
    /\ UNCHANGED <<groupVars, st, running, sched, op, kind, timer, wasDone, ioError, dtor,
                   unwinding, wasEnabled, cancels, fault, dangling>>

(* ... then the operation is started with the doer: timer.async_wait,    *)
(* replobApply, or DetachableAwaiter::go.                                 *)
SnapEnabled ==
    /\ running /\ pc = "snapEnabled"
    /\ doer' = [doer EXCEPT ![op].enabled = st.enabled, ![op].pc = "idle"]
    /\ pc' = IF kind[op] = "detach" THEN "detach" ELSE "wait"
    /\ UNCHANGED <<groupVars, st, running, sched, op, kind, timer, wasDone, ioError, dtor,
                   unwinding, wasEnabled, cancels, fault, dangling>>

(* Journey::waitForDone (journey.cpp:385-397): isDone, else suspend.     *)
Wait ==
    /\ running /\ pc = "wait"
    /\ pc' = IF IsDone THEN "handle" ELSE "yield"
    /\ UNCHANGED <<groupVars, st, running, sched, op, kind, doer, timer, wasDone, ioError,
                   dtor, unwinding, wasEnabled, cancels, fault, dangling>>

(* Where each suspend of the journey resumes.                               *)
AfterSuspend == [yield |-> "handle", awYield1 |-> "awCheck",
                 awYield2 |-> "awGuardExit", awYield3 |-> "awCleanup"]

(* Mutant of Yield: clears Entered without looking at the word.           *)
YieldWithoutCheck ==
    /\ running /\ pc \in DOMAIN AfterSuspend
    /\ running' = FALSE
    /\ pc' = AfterSuspend[pc]
    /\ st' = [st EXCEPT !.entered = FALSE]
    /\ UNCHANGED <<groupVars, sched, op, kind, doer, timer, wasDone, ioError, dtor,
                   unwinding, wasEnabled, cancels, fault, dangling>>

(* suspend: the coroutine yields and proceed0 calls                       *)
(* resetEnteredAndCheckEvents (journey.cpp:116-131, 541): reschedule     *)
(* itself if it may proceed, else clear Entered and park.                 *)
Yield ==
    /\ running /\ pc \in DOMAIN AfterSuspend
    /\ running' = FALSE
    /\ pc' = AfterSuspend[pc]
    /\ IF MayProceed(st)
       THEN Proceed /\ UNCHANGED st
       ELSE st' = [st EXCEPT !.entered = FALSE] /\ UNCHANGED sched
    /\ UNCHANGED <<groupVars, op, kind, doer, timer, wasDone, ioError, dtor, unwinding,
                   wasEnabled, cancels, fault, dangling>>

(* JourneyState::handleEvents (journey.cpp:99-112): one load, the two    *)
(* VERIFYs, and the choice of handleRaiseEvents (203-220).  A failed     *)
(* VERIFY raises an exception that ends the journey.                      *)
HandleEvents ==
    /\ running /\ pc = "handle"
    /\ LET ok == IF st.enabled THEN st.cancelled \/ st.timedout \/ st.done
                               ELSE st.done
       IN IF ~ok
          THEN fault' = "verify" /\ Finish
          ELSE /\ pc' = CASE st.enabled /\ st.cancelled -> "throwCancel"
                          [] st.enabled /\ st.timedout  -> "throwTimeout"
                          [] OTHER                      -> "resetDone"
               /\ UNCHANGED <<fault, running>>
    /\ UNCHANGED <<groupVars, st, sched, op, kind, doer, timer, wasDone, ioError, dtor,
                   unwinding, wasEnabled, cancels, dangling>>

(* handleRaiseEvents resets its flags and throws.  Thrown inside          *)
(* ~CloseOnError, an implicitly noexcept destructor, it terminates.       *)
Throw(F) ==
    /\ st' = ResetFlags0(st, F)
    /\ IF dtor
       THEN fault' = "dtorThrow" /\ Finish /\ UNCHANGED unwinding
       ELSE pc' = "unwind" /\ unwinding' = TRUE /\ UNCHANGED <<fault, running>>
    /\ UNCHANGED <<groupVars, sched, op, kind, doer, timer, wasDone, ioError, dtor,
                   wasEnabled, cancels, dangling>>

ThrowCancel == running /\ pc = "throwCancel" /\ Throw({"cancelled", "timedout", "done"})
ThrowTimeout == running /\ pc = "throwTimeout" /\ Throw({"timedout", "done"})

(* Mutant of ResetDone: leaves FlagDone set.                             *)
ResetDoneKeepsDone ==
    /\ running /\ pc = "resetDone"
    /\ pc' = CASE kind[op] = "group" -> "groupEnd"
              [] dtor              -> "guardExit"
              [] OTHER             -> "exit"
    /\ UNCHANGED <<groupVars, st, running, sched, op, kind, doer, timer, wasDone, ioError,
                   dtor, unwinding, wasEnabled, cancels, fault, dangling>>

(* handleEvents without an event: resetFlags0(FlagDone) (journey.cpp:113). *)
ResetDone ==
    /\ running /\ pc = "resetDone"
    /\ st' = ResetFlags0(st, {"done"})
    /\ pc' = CASE kind[op] = "group" -> "groupEnd"
              [] dtor              -> "guardExit"
              [] OTHER             -> "exit"
    /\ UNCHANGED <<groupVars, running, sched, op, kind, doer, timer, wasDone, ioError,
                   dtor, unwinding, wasEnabled, cancels, fault, dangling>>

(* The scope of the operation ends normally.  applySync: ~Timeout.       *)
(* socket: `if (e) { close(); throw }` (network.cpp:116-120), then       *)
(* ~CloseOnError (69-76) returns at once if wasDone_ is set and otherwise *)
(* waits for the completion.  goAnyWait: VERIFY(index < handlers.size())  *)
(* throws unless a winner has written index (core.cpp:186).               *)
IndexSet(k) == counter[k] >= 1 /\ \A i \in Children : child[k][i] # "zero"

Exit ==
    /\ running /\ pc = "exit"
    /\ IF kind[op] = "applySync" THEN CancelTimer(op) ELSE UNCHANGED timer
    /\ CASE kind[op] = "socket" /\ ioError[op] ->
              pc' = "unwind" /\ unwinding' = TRUE /\ UNCHANGED <<op, running>>
         [] kind[op] = "socket" /\ ~wasDone[op] ->
              pc' = "dtorGuard" /\ UNCHANGED <<op, running, unwinding>>
         [] kind[op] = "anyWait" /\ ~IndexSet(op) ->
              pc' = "unwind" /\ unwinding' = TRUE /\ UNCHANGED <<op, running>>
         [] OTHER -> NextOp /\ UNCHANGED unwinding
    /\ UNCHANGED <<groupVars, st, sched, kind, doer, wasDone, ioError, dtor, wasEnabled,
                   cancels, fault, dangling>>

(* An exception leaves the operation: its destructors run and coroHandler *)
(* (journey.cpp:323-345) ends the journey.                                *)
Unwind ==
    /\ running /\ pc = "unwind"
    /\ IF kind[op] = "applySync" THEN CancelTimer(op) ELSE UNCHANGED timer
    /\ IF \/ kind[op] = "socket" /\ ~wasDone[op]
          \/ kind[op] = "group" /\ goers[op]
       THEN pc' = "dtorGuard" /\ UNCHANGED running
       ELSE Finish
    /\ UNCHANGED <<groupVars, st, sched, op, kind, doer, wasDone, ioError, dtor, unwinding,
                   wasEnabled, cancels, fault, dangling>>

(* ~CloseOnError: DtorEventsGuard disables events (core.cpp:114-118),     *)
(* close() makes the pending completion run, and wait() waits for it.    *)
(* ~Awaiter2 (core.cpp:464-471): the guard, cancel() of every child, then *)
(* wait() for the group.                                                  *)
DtorGuard ==
    /\ running /\ pc = "dtorGuard"
    /\ DisableEvents
    /\ dtor' = TRUE
    /\ IF kind[op] = "group"
       THEN pc' = "groupWait" /\ child' = [child EXCEPT ![op] = CancelChildren(@)]
       ELSE pc' = "wait" /\ UNCHANGED child
    /\ UNCHANGED <<counter, jobs, goers, proceeded, running, sched, op, kind, doer, timer, wasDone, ioError,
                   unwinding, cancels, fault, dangling>>

(* ~DtorEventsGuard (core.cpp:120-125): enableEvents if it disabled them. *)
GuardExit ==
    /\ running /\ pc = "guardExit"
    /\ EnableEvents
    /\ dtor' = FALSE
    /\ IF unwinding THEN Finish /\ UNCHANGED op ELSE NextOp
    /\ UNCHANGED <<groupVars, sched, kind, doer, timer, wasDone, ioError, unwinding,
                   wasEnabled, cancels, fault, dangling>>

(* ~DetachableAwaiter without wait (core.cpp:501-507) -> detachDoers     *)
(* (journey.cpp:181-191): fetch_add of the counter ...                    *)
Detach ==
    /\ running /\ pc = "detach"
    /\ st' = [st EXCEPT !.counter = @ + 1]
    /\ pc' = "detachReset"
    /\ UNCHANGED <<groupVars, running, sched, op, kind, doer, timer, wasDone, ioError,
                   dtor, unwinding, wasEnabled, cancels, fault, dangling>>

(* ... and then, separately, resetFlags0(FlagDone).                       *)
DetachReset ==
    /\ running /\ pc = "detachReset"
    /\ st' = ResetFlags0(st, {"done"})
    /\ NextOp
    /\ UNCHANGED <<groupVars, sched, kind, doer, timer, wasDone, ioError, dtor, unwinding,
                   wasEnabled, cancels, fault, dangling>>

(* Awaiter2::go / Awaiter::go (core.cpp:366-372, 473-482): start the next *)
(* child journey and keep its Goer; Awaiter2 also calls                  *)
(* Completer2::start, --jobs_.  The loops of goWait and goAnyWait keep no *)
(* Goer; each goWait child holds a copy of the proceeder.  AsyncWaiter:   *)
(* inc() and then the child is started.                                    *)
GoChild ==
    /\ running /\ pc = "goChild"
    /\ \E i \in Children :
          /\ child[op][i] = "none"
          /\ \A j \in Children : child[op][j] = "none" => i <= j
          /\ child' = [child EXCEPT ![op][i] = "running"]
          /\ pc' = CASE \E j \in Children \ {i} : child[op][j] = "none" -> "goChild"
                    [] kind[op] = "group"                           -> "groupWait"
                    [] kind[op] \in {"awaiter", "awaiterDtor"}       -> "awAdd"
                    [] kind[op] \in Shared                          -> "goDrop"
                    [] kind[op] = "asyncWaiter"                     -> "waiterWait"
                    [] OTHER                                         -> "wait"
    /\ goers' = IF kind[op] \in {"group", "awaiter", "awaiterDtor"} THEN [goers EXCEPT ![op] = TRUE] ELSE goers
    /\ jobs' = IF kind[op] = "group" THEN [jobs EXCEPT ![op] = @ - 1] ELSE jobs
    /\ counter' = IF kind[op] \in Shared \cup {"asyncWaiter"}
                  THEN [counter EXCEPT ![op] = @ + 1] ELSE counter
    /\ UNCHANGED <<st, running, sched, op, kind, doer, timer, wasDone, ioError,
                   dtor, unwinding, wasEnabled, cancels, fault, dangling, proceeded>>

(* The procHandler of goWait or goAnyResult returns and drops its own     *)
(* reference: when every child has already dropped its copy, the deleter  *)
(* (~Counter: tryProceed(Result()), unless a child already proceeded)     *)
(* calls the done handler on the journey's thread.  Then waitForDone.     *)
GoDrop ==
    /\ running /\ pc = "goDrop"
    /\ counter' = [counter EXCEPT ![op] = @ - 1]
    /\ LET last == counter[op] - 1 = 0 /\ ~proceeded[op]
       IN  /\ IF last THEN StateDone ELSE UNCHANGED <<st, sched>>
           /\ proceeded' = IF last /\ kind[op] = "anyResult"
                           THEN [proceeded EXCEPT ![op] = TRUE] ELSE proceeded
    /\ pc' = "wait"
    /\ UNCHANGED <<running, op, kind, doer, timer, wasDone, ioError, dtor, unwinding,
                   wasEnabled, cancels, fault, dangling, child, jobs, goers>>

(* AsyncWaiter::wait (core.h:93-97): fetch_sub; unless that took the last *)
(* count, waitForDone, which the dec() bringing the counter to zero ends  *)
(* with done(); otherwise every child has ended and wait returns.         *)
WaiterWait ==
    /\ running /\ pc = "waiterWait"
    /\ counter' = [counter EXCEPT ![op] = @ - 1]
    /\ IF counter[op] # 1 THEN pc' = "wait" /\ UNCHANGED <<op, running>> ELSE NextOp
    /\ UNCHANGED <<st, sched, kind, doer, timer, wasDone, ioError, dtor, unwinding,
                   wasEnabled, cancels, fault, dangling, child, jobs, goers, proceeded>>

(* Journey::reschedule (journey.cpp:433-438): done() on its own word,     *)
(* then suspend and handleEvents.                                          *)
Reschedule ==
    /\ running /\ pc = "reschedule"
    /\ StateDone
    /\ pc' = "yield"
    /\ UNCHANGED <<groupVars, running, op, kind, doer, timer, wasDone, ioError, dtor,
                   unwinding, wasEnabled, cancels, fault, dangling>>

(* Completer2::wait and wait0 (core.cpp:423-457).  The first wait turns   *)
(* jobs_ positive and adds it to counter_; it returns at once if that     *)
(* makes the counter zero.  A wait after an exception (jobs_ > 0) only    *)
(* loads the counter.  Otherwise it waits for the Doer.                   *)
GroupWait ==
    /\ running /\ pc = "groupWait"
    /\ CASE jobs[op] < 0 ->
              LET n == -jobs[op] IN
              /\ jobs' = [jobs EXCEPT ![op] = n]
              /\ counter' = [counter EXCEPT ![op] = @ + n]
              /\ pc' = IF counter[op] + n = 0 THEN "groupEnd" ELSE "wait"
         [] jobs[op] > 0 ->
              /\ pc' = IF counter[op] = 0 THEN "groupEnd" ELSE "wait"
              /\ UNCHANGED <<jobs, counter>>
         [] OTHER ->
              pc' = "groupEnd" /\ UNCHANGED <<jobs, counter>>
    /\ UNCHANGED <<st, running, sched, op, kind, doer, timer, wasDone, ioError,
                   dtor, unwinding, wasEnabled, cancels, fault, dangling, child, goers, proceeded>>

(* The end of Awaiter2::wait (core.cpp:425-426, 484-487): jobs_ = 0 and   *)
(* goers_.clear(); then ~DtorEventsGuard in the destructor, or the next   *)
(* operation.                                                             *)
GroupEnd ==
    /\ running /\ pc = "groupEnd"
    /\ jobs' = [jobs EXCEPT ![op] = 0]
    /\ goers' = [goers EXCEPT ![op] = FALSE]
    /\ IF dtor THEN pc' = "guardExit" /\ UNCHANGED <<op, running>> ELSE NextOp
    /\ UNCHANGED <<st, sched, kind, doer, timer, wasDone, ioError, dtor,
                   unwinding, wasEnabled, cancels, fault, dangling, child, counter, proceeded>>

(* Awaiter::wait (core.cpp:374-381), or ~Awaiter (358-364) when the scope *)
(* ends without wait: completer_.add(goers_.size()); the journey calls    *)
(* doer_.done() itself if that makes the counter zero (Completer::add,    *)
(* core.cpp:336-341).                                                     *)
AwAdd ==
    /\ running /\ pc = "awAdd"
    /\ counter' = [counter EXCEPT ![op] = @ + NChild]
    /\ IF counter[op] + NChild = 0 THEN StateDone ELSE UNCHANGED <<st, sched>>
    /\ pc' = IF kind[op] = "awaiter" THEN "awWait" ELSE "awGuarded"
    /\ UNCHANGED <<running, op, kind, doer, timer, wasDone, ioError, dtor,
                   unwinding, wasEnabled, cancels, fault, dangling, child, jobs, goers, proceeded>>

(* waitForDoneAlways (journey.cpp:399-416): isDone, else suspend ...      *)
AwWait ==
    /\ running /\ pc = "awWait"
    /\ pc' = IF IsDone THEN "awCleanup" ELSE "awYield1"
    /\ UNCHANGED <<groupVars, st, running, sched, op, kind, doer, timer, wasDone,
                   ioError, dtor, unwinding, wasEnabled, cancels, fault, dangling>>

(* ... woken and still not done (an event): DtorEventsGuard, cancel every *)
(* child, and suspend again until the group is done.                      *)
AwCheck ==
    /\ running /\ pc = "awCheck"
    /\ IF IsDone
       THEN pc' = "awCleanup" /\ UNCHANGED <<st, wasEnabled, child>>
       ELSE /\ DisableEvents
            /\ child' = [child EXCEPT ![op] = CancelChildren(@)]
            /\ pc' = "awYield2"
    /\ UNCHANGED <<running, sched, op, kind, doer, timer, wasDone, ioError, dtor,
                   unwinding, cancels, fault, dangling, counter, jobs, goers, proceeded>>

(* ... the guard's scope ends: enableEvents if it disabled them.          *)
AwGuardExit ==
    /\ running /\ pc = "awGuardExit"
    /\ EnableEvents
    /\ pc' = "awCleanup"
    /\ UNCHANGED <<groupVars, running, sched, op, kind, doer, timer, wasDone,
                   ioError, dtor, unwinding, wasEnabled, cancels, fault, dangling>>

(* waitForDoneAlwaysGuarded (journey.cpp:418-431), in the destructor:     *)
(* DtorEventsGuard first; if not done, cancel every child and suspend;   *)
(* then cleanup and handleEvents with events still disabled, and the      *)
(* guard's enableEvents last.                                             *)
AwGuarded ==
    /\ running /\ pc = "awGuarded"
    /\ DisableEvents
    /\ dtor' = TRUE
    /\ IF IsDone
       THEN pc' = "awCleanup" /\ UNCHANGED child
       ELSE /\ child' = [child EXCEPT ![op] = CancelChildren(@)]
            /\ pc' = "awYield3"
    /\ UNCHANGED <<running, sched, op, kind, doer, timer, wasDone, ioError,
                   unwinding, cancels, fault, dangling, counter, jobs, goers, proceeded>>

(* ... cancel.cleanup() clears goers_ (core.cpp:394-397), then           *)
(* handleEvents.                                                          *)
AwCleanup ==
    /\ running /\ pc = "awCleanup"
    /\ goers' = [goers EXCEPT ![op] = FALSE]
    /\ pc' = "handle"
    /\ UNCHANGED <<st, running, sched, op, kind, doer, timer, wasDone, ioError,
                   dtor, unwinding, wasEnabled, cancels, fault, dangling,
                   child, counter, jobs, proceeded>>

-----------------------------------------------------------------------------
(* Other threads.                                                          *)

(* DetachableDoer::done (oers.cpp:78-83) is acquire() (journey.cpp:133-  *)
(* 158) and then releaseAndDone(): two atomic steps.  This is the timer   *)
(* handler of sleepa, the committed ReplobApplySync closure on the source *)
(* node (replob.h:303-312, through doer_), or the last DoerScoped of a    *)
(* DetachableAwaiter.                                                     *)
Acquire(k) ==
    /\ doer[k].pc = "idle" /\ kind[k] # "socket"
    /\ TouchFrame(k)
    /\ CASE ~doer[k].enabled ->
              doer' = [doer EXCEPT ![k].pc = "acquired"] /\ UNCHANGED st
         [] st.counter # doer[k].counter ->
              doer' = [doer EXCEPT ![k].pc = "failed"] /\ UNCHANGED st
         [] OTHER ->
              /\ st' = [st EXCEPT !.enabled = FALSE]
              /\ doer' = [doer EXCEPT ![k].pc = "acquired"]
    /\ UNCHANGED <<groupVars, pc, running, sched, op, kind, timer, wasDone, ioError, dtor,
                   unwinding, wasEnabled, cancels, fault>>

Release(k) ==
    /\ doer[k].pc = "acquired"
    /\ TouchFrame(k)
    /\ ReleaseAndDone(doer[k].enabled)
    /\ doer' = [doer EXCEPT ![k].pc = "finished"]
    /\ UNCHANGED <<groupVars, pc, running, op, kind, timer, wasDone, ioError, dtor,
                   unwinding, wasEnabled, cancels, fault>>

(* The socket completion (network.cpp:110-114): e and val are stored and  *)
(* CloseOnError::done sets wasDone_ (network.cpp:85, not atomic) ...      *)
SocketComplete(k) ==
    /\ doer[k].pc = "idle" /\ kind[k] = "socket"
    /\ TouchFrame(k)
    /\ wasDone' = [wasDone EXCEPT ![k] = TRUE]
    /\ \E e \in BOOLEAN: ioError' = [ioError EXCEPT ![k] = e]
    /\ doer' = [doer EXCEPT ![k].pc = "flagged"]
    /\ UNCHANGED <<groupVars, st, pc, running, sched, op, kind, timer, dtor, unwinding,
                   wasEnabled, cancels, fault>>

(* ... and then calls doer_.done() (network.cpp:86, oers.cpp:31-34).     *)
SocketDone(k) ==
    /\ doer[k].pc = "flagged"
    /\ TouchFrame(k)
    /\ StateDone
    /\ doer' = [doer EXCEPT ![k].pc = "finished"]
    /\ UNCHANGED <<groupVars, pc, running, op, kind, timer, wasDone, ioError, dtor,
                   unwinding, wasEnabled, cancels, fault>>

(* A child journey of a group ends, normally or by an exception, and its  *)
(* CompleterScope / tryFinally2 decrements the counter through `this`     *)
(* (Completer2::done, core.cpp:416-421; Completer::dec, 336-351).  A      *)
(* goWait child runs handler() through &handler and drops its copy of the *)
(* proceeder; a goAnyWait child runs it and increments *counter, and the  *)
(* one that makes it 1 is the winner (core.cpp:176-181); an AsyncWaiter   *)
(* child's dec() takes one count (core.h:87-91) ...                       *)
Winner(k) == kind[k] = "anyWait" /\ counter[k] + 1 = 1

ChildDec(k, i) ==
    /\ kind[k] # "anyResult"
    /\ child[k][i] \in {"running", "cancelled"}
    /\ TouchFrame(k)
    /\ counter' = [counter EXCEPT ![k] = IF kind[k] = "anyWait" THEN @ + 1 ELSE @ - 1]
    /\ child' = [child EXCEPT ![k][i] =
                    IF Winner(k) \/ (kind[k] # "anyWait" /\ counter[k] - 1 = 0)
                    THEN "zero" ELSE "finished"]
    /\ UNCHANGED <<st, pc, running, sched, op, kind, doer, timer, wasDone, ioError,
                   dtor, unwinding, wasEnabled, cancels, fault, jobs, goers, proceeded>>

(* A goAnyResult child (core.h:229-233) runs handler() through &handler; *)
(* a result goes to tryProceed, whose first ++counter proceeds; then the  *)
(* child drops its copy of the Counter, and the last copy's ~Counter      *)
(* tryProceeds with an empty result (core.h:204-213).  The drop is taken  *)
(* here with the handler, the proceed in ChildDone: once Counter::counter *)
(* is not 0, no drop can proceed again, so the order does not matter ...  *)
AnyResultChild(k, i) ==
    /\ kind[k] = "anyResult"
    /\ child[k][i] \in {"running", "cancelled"}
    /\ TouchFrame(k)
    /\ \E hasResult \in BOOLEAN :
          LET proceeds == ~proceeded[k] /\ (hasResult \/ counter[k] = 1)
          IN  /\ proceeded' = [proceeded EXCEPT ![k] = @ \/ proceeds]
              /\ child' = [child EXCEPT ![k][i] = IF proceeds THEN "zero" ELSE "finished"]
    /\ counter' = [counter EXCEPT ![k] = @ - 1]
    /\ UNCHANGED <<st, pc, running, sched, op, kind, doer, timer, wasDone, ioError,
                   dtor, unwinding, wasEnabled, cancels, fault, jobs, goers>>

(* ... and the child that brought it to zero then calls doer_.done(), a   *)
(* member of the frame's completer; goWait's last proceeder calls the     *)
(* Doer its deleter holds by value; goAnyWait's winner writes index in    *)
(* the frame and then calls proceed(); so does goAnyResult's proceed.    *)
ChildDone(k, i) ==
    /\ child[k][i] = "zero"
    /\ IF kind[k] = "goWait" THEN UNCHANGED dangling ELSE TouchFrame(k)
    /\ StateDone
    /\ child' = [child EXCEPT ![k][i] = "finished"]
    /\ UNCHANGED <<pc, running, op, kind, doer, timer, wasDone, ioError, dtor,
                   unwinding, wasEnabled, cancels, fault, counter, jobs, goers, proceeded>>

(* The deadline of Timeout passes: asio posts its handler.               *)
Expire(k) ==
    /\ timer[k] = "armed"
    /\ timer' = [timer EXCEPT ![k] = "expired"]
    /\ UNCHANGED <<groupVars, st, pc, running, sched, op, kind, doer, wasDone, ioError,
                   dtor, unwinding, wasEnabled, cancels, fault, dangling>>

(* The posted handler runs goer.timedout() (core.cpp:222-226).            *)
TimeoutFires(k) ==
    /\ timer[k] = "expired"
    /\ timer' = [timer EXCEPT ![k] = "fired"]
    /\ AddRaiseEvent("timedout")
    /\ UNCHANGED <<groupVars, pc, running, op, kind, doer, wasDone, ioError, dtor,
                   unwinding, wasEnabled, cancels, fault, dangling>>

(* Another journey cancels this one through its Goer (oers.cpp:46-50).   *)
Cancel ==
    /\ cancels < MaxCancel
    /\ cancels' = cancels + 1
    /\ AddRaiseEvent("cancelled")
    /\ UNCHANGED <<groupVars, pc, running, op, kind, doer, timer, wasDone, ioError, dtor,
                   unwinding, wasEnabled, fault, dangling>>

-----------------------------------------------------------------------------
JourneyStep ==
    \/ Start \/ SnapCounter \/ SnapEnabled \/ Wait \/ Yield \/ HandleEvents
    \/ ThrowCancel \/ ThrowTimeout \/ ResetDone \/ Exit \/ Unwind
    \/ DtorGuard \/ GuardExit \/ Detach \/ DetachReset
    \/ GoChild \/ GroupWait \/ GroupEnd \/ GoDrop \/ WaiterWait \/ Reschedule
    \/ AwAdd \/ AwGuarded \/ AwWait \/ AwCheck \/ AwGuardExit \/ AwCleanup

Next ==
    \/ JourneyStep
    \/ Resume
    \/ Cancel
    \/ \E k \in Ops:
          \/ Acquire(k) \/ Release(k) \/ SocketComplete(k) \/ SocketDone(k)
          \/ Expire(k) \/ TimeoutFires(k)
          \/ \E i \in Children : ChildDec(k, i) \/ AnyResultChild(k, i) \/ ChildDone(k, i)

(* The pool runs every scheduled job and a running journey keeps going.  *)
(* Timers expire and their posted handlers run.  A sleepa timer and a     *)
(* DetachableAwaiter child always complete; a socket completion is only   *)
(* certain once ~CloseOnError has closed the socket; the ReplobApplySync  *)
(* closure runs only if replob commits, which nothing guarantees.  The    *)
(* handlers given to a group are assumed to return.                       *)
Fairness ==
    /\ WF_vars(JourneyStep)
    /\ WF_vars(Resume)
    /\ \A k \in Ops:
          /\ WF_vars(Acquire(k) /\ kind[k] \in {"sleep", "detach", "detachWait"})
          /\ WF_vars(Release(k))
          /\ WF_vars(SocketComplete(k) /\ dtor /\ op = k)
          /\ WF_vars(SocketDone(k))
          /\ WF_vars(Expire(k))
          /\ WF_vars(TimeoutFires(k))
          /\ \A i \in Children : /\ WF_vars(ChildDec(k, i))
                                /\ WF_vars(AnyResultChild(k, i))
                                /\ WF_vars(ChildDone(k, i))

Spec == Init /\ [][Next]_vars /\ Fairness

-----------------------------------------------------------------------------
TypeOK ==
    /\ st \in [entered : BOOLEAN, enabled : BOOLEAN, done : BOOLEAN,
              cancelled : BOOLEAN, timedout : BOOLEAN, counter : 0..MaxCounter]
    /\ pc \in JourneyPc
    /\ running \in BOOLEAN /\ sched \in Nat /\ op \in Ops
    /\ kind \in [Ops -> Kinds \cup {"none"}]
    /\ doer \in [Ops -> [pc : DoerPc, counter : 0..MaxCounter, enabled : BOOLEAN]]
    /\ timer \in [Ops -> TimerPc]
    /\ wasDone \in [Ops -> BOOLEAN] /\ ioError \in [Ops -> BOOLEAN]
    /\ dtor \in BOOLEAN /\ unwinding \in BOOLEAN /\ wasEnabled \in BOOLEAN
    /\ cancels \in 0..MaxCancel
    /\ fault \in {"none", "verify", "dtorThrow"}
    /\ dangling \in BOOLEAN
    /\ child \in [Ops -> [Children -> ChildPc]]
    /\ counter \in [Ops -> -NChild..(NChild + 1)]
    /\ jobs \in [Ops -> -NChild..NChild]
    /\ goers \in [Ops -> BOOLEAN]
    /\ proceeded \in [Ops -> BOOLEAN]

(* Journey::proceed is only ever called for a parked journey, and once:   *)
(* no job resumes a coroutine that is still running on another thread or *)
(* already scheduled, and none runs proceed0 on a journey deleted after   *)
(* its coroutine returned (journey.cpp:353-358, 530-542), so the VERIFY   *)
(* "Coro must be suspended" of Coro::resume (coro.cpp:48) holds.  It      *)
(* rests on every waker testing Entered in the same atomic step that      *)
(* sets it.                                                               *)
ResumeTargetsParkedJourney ==
    sched > 0 => sched = 1 /\ CoroState = "Suspended"

(* No lost wake-up: a journey that is suspended with no proceed0 job     *)
(* queued is never in a state in which it may proceed.  Whoever sets Done *)
(* or raises an event on a parked journey (done, releaseAndDone,          *)
(* addRaiseEvent) must see Entered clear and schedule it, and             *)
(* resetEnteredAndCheckEvents may park it only on a word that gives no    *)
(* reason to run (journey.cpp:88-97, 116-131, 160-179, 222-256); a journey *)
(* parked with a reason would never run again.                            *)
NoLostWakeup ==
    CoroState = "Suspended" /\ sched = 0 => ~MayProceed(st)

(* handleEvents never fails "Must have event" / "Must be done"            *)
(* (journey.cpp:104, 111) and never throws from the noexcept destructor   *)
(* ~CloseOnError (network.cpp:69-76): a journey is resumed only with a    *)
(* reason, and an event is never delivered while events are disabled.     *)
HandleEventsSafe == fault = "none"

(* A wait that returns without an event was ended by the completion of    *)
(* its own operation, never by a Done left over from an earlier one.      *)
OpCompleted(k) ==
    CASE kind[k] \in Grouped \ {"anyWait", "anyResult"} ->
              \A i \in Children : child[k][i] = "finished"
      [] kind[k] = "anyWait"    -> IndexSet(k)
      [] kind[k] = "anyResult"  -> proceeded[k] /\ \A i \in Children : child[k][i] # "zero"
      [] kind[k] = "reschedule" -> TRUE
      [] OTHER                  -> doer[k].pc = "finished"

WaitEndsByOwnDoer == pc = "resetDone" => OpCompleted(op)

(* No completion touches the stack frame of an operation that has been    *)
(* left: ReplobApplySync::operator() writes *result_ and calls            *)
(* doer_->done() (replob.h:303-312); the socket completion writes         *)
(* CloseOnError (network.cpp:110-114, 83-87).                             *)
NoUseOfDeadFrame == ~dangling

(* A TimedoutEvent thrown from an operation comes from that operation's  *)
(* own Timeout, not from a Timeout of a scope already left (core.cpp:229- *)
(* 233: cancel_one cannot recall a handler that was already posted).      *)
TimeoutBelongsToScope ==
    pc = "throwTimeout" => kind[op] = "applySync" /\ timer[op] = "fired"

(* The journey's handler eventually returns: every wait is woken.        *)
JourneyTerminates == <>(pc = "end")
====
