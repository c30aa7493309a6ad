------------------------------ MODULE Scheduler ------------------------------
(***************************************************************************)
(* The GMP-style fiber scheduler of FiberServer/scheduler.{h,cpp} together *)
(* with the fiber states it drives (fiber.cpp) and the two points where    *)
(* IOManager overrides it (stopping() and idle(), iomanager.cpp).          *)
(*                                                                         *)
(* A step is a critical section of the code (m_mutex or one                *)
(* Processor::mutex), an update of an atomic counter together with the     *)
(* thread-local code next to it, or a context switch.  A worker thread M   *)
(* and the Processor P it binds in bindProcessor() are one index of        *)
(* Workers: there are as many of one as of the other, m_nextProcessor++    *)
(* hands out each P once and a thread keeps its P for the whole of run().  *)
(*                                                                         *)
(* tickle() is left out: it only shortens an epoll_wait() that ends after  *)
(* MAX_TIMEOUT anyway, so a worker in idle() may come back at any time.    *)
(***************************************************************************)
EXTENDS Integers, Sequences, FiniteSets

CONSTANTS
    NWorkers,    \* number of processors, m_processors.size()
    RootWorker,  \* worker of the use_caller thread, or -1 (m_rootThread)
    Fibers,      \* the tasks: a Fiber, or a callback run() wraps in one
    Pins,        \* values clients pass as the "thread" argument
    Holds,       \* how fibers park: "io" (epoll or timer) or "ext" (DbExecutor)
    MaxYields    \* bound: yields of one fiber before it must finish

Workers == 1..NWorkers

AnyThread == -1          \* FiberAndThread::thread of an unpinned task

Owner == 0               \* the thread that calls start() and stop()

ASSUME ConstantsAssumption ==
    /\ NWorkers \in Nat \ {0}
    /\ RootWorker \in Workers \cup {-1}
    /\ Pins \subseteq Workers \cup {AnyThread}
    /\ Holds \subseteq {"io", "ext"}
    /\ MaxYields \in Nat

Item == [fiber : Fibers, thread : Workers \cup {AnyThread}]

VARIABLES
    global,    \* m_fibers
    local,     \* run_queue of every Processor
    fstate,    \* Fiber::m_state; "NONE" before the fiber object exists
    parked,    \* who holds a parked fiber's wake-up: "no", "io" or "ext"
    yields,    \* number of yields so far, bounded by MaxYields
    hand,      \* per worker: ft, then the batch/stolen list not yet spliced
    pc,        \* where every worker, and the owner inside stopping(), is
    scan,      \* processors still to visit in stealTask()/processorQueuesEmpty()
    idleTerm,  \* workers whose idle fiber has reached TERM
    active,    \* m_activeThreadCount
    autoStop,  \* m_autoStop
    stopFlag,  \* m_stopping
    stage      \* how far the owner is through start() and stop()

queueVars == <<global, local>>
fiberVars == <<fstate, parked, yields>>
stopVars  == <<autoStop, stopFlag, stage>>
vars == <<global, local, fstate, parked, yields, hand, pc, scan, idleTerm,
          active, autoStop, stopFlag, stage>>

FiberState == {"NONE", "INIT", "HOLD", "EXEC", "TERM", "READY", "EXCEPT"}

WorkerPC == {"off", "local", "global", "splice", "steal", "got", "running",
             "parking", "settle", "pend", "lock", "scan", "yes", "no", "exit"}

Stages == {"new", "up", "first", "second", "call", "join", "down"}

-----------------------------------------------------------------------------
(* Queue operators.                                                        *)

Exec(f) == fstate[f] = "EXEC"

\* The elements of q at the positions S, in queue order.
Pick(q, S) ==
    [k \in 1..Cardinality(S) |->
        q[CHOOSE j \in S : Cardinality({i \in S : i < j}) = k - 1]]

\* q without the positions S.
Without(q, S) == Pick(q, (DOMAIN q) \ S)

\* The positions of T with fewer than n positions of T before (after) them.
FirstOf(T, n) == {j \in T : Cardinality({i \in T : i < j}) < n}
LastOf(T, n)  == {j \in T : Cardinality({i \in T : i > j}) < n}

\* "about a half, at least one": batch_target and steal_target.
Half(q) == IF Len(q) \div 2 = 0 THEN 1 ELSE Len(q) \div 2

Backwards(q) == [k \in 1..Len(q) |-> q[Len(q) + 1 - k]]

\* The tasks a thief or a batch may move: unpinned, and not still executing.
Movable(q) ==
    {j \in DOMAIN q : q[j].thread = AnyThread /\ ~Exec(q[j].fiber)}

\* Mutants of Eligible: no thread test, or the thread test without its
\* "thread != -1" part.
EligibleAnyPin(w, q) == {j \in DOMAIN q : ~Exec(q[j].fiber)}
EligibleOwn(w, q) ==
    {j \in DOMAIN q : q[j].thread = w /\ ~Exec(q[j].fiber)}

\* The tasks of the global queue that worker w may take.
Eligible(w, q) ==
    {j \in DOMAIN q : q[j].thread \in {AnyThread, w} /\ ~Exec(q[j].fiber)}

-----------------------------------------------------------------------------
(* schedule(): an unpinned task scheduled by a bound worker goes to that   *)
(* worker's own queue, everything else to the global queue.                *)

ScheduleFrom(w, f, thread) ==
    LET item == [fiber |-> f, thread |-> thread]
    IN  IF thread = AnyThread
        THEN /\ local' = [local EXCEPT ![w] = Append(@, item)]
             /\ UNCHANGED global
        ELSE /\ global' = Append(global, item)
             /\ UNCHANGED local

\* schedule() from a thread that is not a worker, and scheduleGlobal().
ScheduleGlobal(f, thread) ==
    /\ global' = Append(global, [fiber |-> f, thread |-> thread])
    /\ UNCHANGED local

-----------------------------------------------------------------------------
(* Clients outside the scheduler's threads.  They do not submit new work   *)
(* once stop() has been called.                                            *)

Submit(f, thread) ==
    /\ ~autoStop
    /\ fstate[f] = "NONE"
    /\ fstate' = [fstate EXCEPT ![f] = "INIT"]
    /\ ScheduleGlobal(f, thread)
    /\ UNCHANGED <<parked, yields, hand, pc, scan, idleTerm, active, stopVars>>

\* Another scheduler finishes the job the fiber waits for: caller->schedule().
ExternalWake(f) ==
    /\ parked[f] = "ext"
    /\ parked' = [parked EXCEPT ![f] = "no"]
    /\ ScheduleGlobal(f, AnyThread)
    /\ UNCHANGED <<fstate, yields, hand, pc, scan, idleTerm, active, stopVars>>

-----------------------------------------------------------------------------
(* run(): find a task.                                                     *)

\* Mutant of PopLocal: the EXEC test is missing.
PopLocalStale(w) ==
    LET q == local[w]
    IN  /\ pc[w] = "local"
        /\ IF q # <<>>
           THEN /\ local' = [local EXCEPT ![w] = Tail(q)]
                /\ hand' = [hand EXCEPT ![w] = <<Head(q)>>]
                /\ pc' = [pc EXCEPT ![w] = "got"]
           ELSE /\ pc' = [pc EXCEPT ![w] = "global"]
                /\ UNCHANGED <<local, hand>>
        /\ UNCHANGED <<global, fiberVars, scan, idleTerm, active, stopVars>>

\* Stale entries, those whose fiber is EXEC, are thrown away on the way.
PopLocal(w) ==
    LET q == local[w]
    IN  /\ pc[w] = "local"
        /\ \/ \E i \in DOMAIN q :
                /\ ~Exec(q[i].fiber)
                /\ \A j \in 1..(i - 1) : Exec(q[j].fiber)
                /\ local' = [local EXCEPT ![w] = SubSeq(q, i + 1, Len(q))]
                /\ hand' = [hand EXCEPT ![w] = <<q[i]>>]
                /\ pc' = [pc EXCEPT ![w] = "got"]
           \/ /\ \A j \in DOMAIN q : Exec(q[j].fiber)
              /\ local' = [local EXCEPT ![w] = <<>>]
              /\ pc' = [pc EXCEPT ![w] = "global"]
              /\ UNCHANGED hand
        /\ UNCHANGED <<global, fiberVars, scan, idleTerm, active, stopVars>>

\* Mutant of Victims: the index start + offset is not wrapped around.
VictimsUnwrapped(w, start) ==
    LET all == [k \in 1..NWorkers |-> start + k]
    IN  Pick(all, {k \in 1..NWorkers : all[k] # w})

\* The victims in the order stealTask() visits them from a rotating start.
Victims(w, start) ==
    LET at(offset) == 1 + ((start + offset) % NWorkers)
        all == [k \in 1..NWorkers |-> at(k - 1)]
    IN  Pick(all, {k \in 1..NWorkers : all[k] # w})

\* A pinned first task is taken alone, an unpinned one with a batch.
PopGlobal(w) ==
    /\ pc[w] = "global"
    /\ \/ \E i \in Eligible(w, global) :
            /\ \A j \in Eligible(w, global) : i <= j
            /\ LET after == {j \in Movable(global) : j > i}
                   batch == IF global[i].thread = AnyThread
                            THEN FirstOf(after, Half(global) - 1)
                            ELSE {}
               IN  /\ hand' = [hand EXCEPT
                                 ![w] = <<global[i]>> \o Pick(global, batch)]
                   /\ global' = Without(global, {i} \cup batch)
                   /\ pc' = [pc EXCEPT
                               ![w] = IF batch = {} THEN "got" ELSE "splice"]
            /\ UNCHANGED scan
       \/ /\ Eligible(w, global) = {}
          /\ \E start \in 0..(NWorkers - 1) :
                scan' = [scan EXCEPT ![w] = Victims(w, start)]
          /\ pc' = [pc EXCEPT ![w] = "steal"]
          /\ UNCHANGED <<global, hand>>
    /\ UNCHANGED <<local, fiberVars, idleTerm, active, stopVars>>

\* One victim of stealTask(), under the victim's mutex.
StealFrom(w) ==
    /\ pc[w] = "steal"
    /\ scan[w] # <<>>
    /\ LET v == Head(scan[w])
           q == local[v]
           taken == LastOf(Movable(q), Half(q))
       IN  IF taken = {}
           THEN /\ scan' = [scan EXCEPT ![w] = Tail(@)]
                /\ UNCHANGED <<local, hand, pc>>
           ELSE /\ local' = [local EXCEPT ![v] = Without(q, taken)]
                /\ hand' = [hand EXCEPT ![w] = Backwards(Pick(q, taken))]
                /\ scan' = [scan EXCEPT ![w] = <<>>]
                /\ pc' = [pc EXCEPT ![w] = IF Cardinality(taken) = 1
                                           THEN "got" ELSE "splice"]
    /\ UNCHANGED <<global, fiberVars, idleTerm, active, stopVars>>

\* Mutant of Splice: pop_front() forgotten, the first task is queued too.
SpliceWhole(w) ==
    /\ pc[w] = "splice"
    /\ local' = [local EXCEPT ![w] = @ \o hand[w]]
    /\ hand' = [hand EXCEPT ![w] = <<Head(@)>>]
    /\ pc' = [pc EXCEPT ![w] = "got"]
    /\ UNCHANGED <<global, fiberVars, scan, idleTerm, active, stopVars>>

\* The rest of a batch or of a theft enters the worker's own queue.
Splice(w) ==
    /\ pc[w] = "splice"
    /\ local' = [local EXCEPT ![w] = @ \o Tail(hand[w])]
    /\ hand' = [hand EXCEPT ![w] = <<Head(@)>>]
    /\ pc' = [pc EXCEPT ![w] = "got"]
    /\ UNCHANGED <<global, fiberVars, scan, idleTerm, active, stopVars>>

\* No task anywhere: leave run() if the idle fiber is over, else resume it.
NoTask(w) ==
    /\ pc[w] = "steal"
    /\ scan[w] = <<>>
    /\ pc' = [pc EXCEPT ![w] = IF w \in idleTerm THEN "exit" ELSE "pend"]
    /\ UNCHANGED <<queueVars, fiberVars, hand, scan, idleTerm, active, stopVars>>

-----------------------------------------------------------------------------
(* run(): execute the task.                                                *)

Current(w) == Head(hand[w]).fiber

\* ++m_activeThreadCount, then swapIn() unless the fiber is already over.
Dispatch(w) ==
    /\ pc[w] = "got"
    /\ IF fstate[Current(w)] \in {"TERM", "EXCEPT"}
       THEN /\ hand' = [hand EXCEPT ![w] = <<>>]
            /\ pc' = [pc EXCEPT ![w] = "local"]
            /\ UNCHANGED <<fstate, active>>
       ELSE /\ fstate' = [fstate EXCEPT ![Current(w)] = "EXEC"]
            /\ pc' = [pc EXCEPT ![w] = "running"]
            /\ active' = active + 1
            /\ UNCHANGED hand
    /\ UNCHANGED <<queueVars, parked, yields, scan, idleTerm, stopVars>>

\* The running fiber schedules a new task, pinned or not.
Spawn(w, f, thread) ==
    /\ pc[w] = "running"
    /\ fstate[f] = "NONE"
    /\ fstate' = [fstate EXCEPT ![f] = "INIT"]
    /\ ScheduleFrom(w, f, thread)
    /\ UNCHANGED <<parked, yields, hand, pc, scan, idleTerm, active, stopVars>>

\* The running fiber schedules a new task with scheduleGlobal().
SpawnGlobal(w, f) ==
    /\ pc[w] = "running"
    /\ fstate[f] = "NONE"
    /\ fstate' = [fstate EXCEPT ![f] = "INIT"]
    /\ ScheduleGlobal(f, AnyThread)
    /\ UNCHANGED <<parked, yields, hand, pc, scan, idleTerm, active, stopVars>>

\* The running fiber wakes another one: a timer callback, cancelEvent(),
\* or SociManager::freeSoci().
FiberWake(w, f) ==
    /\ pc[w] = "running"
    /\ parked[f] = "io"
    /\ parked' = [parked EXCEPT ![f] = "no"]
    /\ ScheduleFrom(w, f, AnyThread)
    /\ UNCHANGED <<fstate, yields, hand, pc, scan, idleTerm, active, stopVars>>

\* Mutant of SwapOut: --m_activeThreadCount is missing.
SwapOutCounted(w) ==
    /\ pc' = [pc EXCEPT ![w] = "settle"]
    /\ UNCHANGED <<queueVars, hand, scan, idleTerm, active, stopVars>>

\* swapOut() back into run(), which first does --m_activeThreadCount.
SwapOut(w) ==
    /\ pc' = [pc EXCEPT ![w] = "settle"]
    /\ active' = active - 1
    /\ UNCHANGED <<queueVars, hand, scan, idleTerm, stopVars>>

CountYield(w) ==
    /\ yields[Current(w)] < MaxYields
    /\ yields' = [yields EXCEPT ![Current(w)] = @ + 1]

YieldToReady(w) ==
    /\ pc[w] = "running"
    /\ SwapOut(w)
    /\ CountYield(w)
    /\ fstate' = [fstate EXCEPT ![Current(w)] = "READY"]
    /\ UNCHANGED parked

\* The fiber registers its wake-up: addEvent(), addTimer(), or a job handed to
\* another scheduler.  From here on the wake-up may come, before the yield.
Park(w, how) ==
    /\ pc[w] = "running"
    /\ CountYield(w)
    /\ parked' = [parked EXCEPT ![Current(w)] = how]
    /\ pc' = [pc EXCEPT ![w] = "parking"]
    /\ UNCHANGED <<queueVars, fstate, hand, scan, idleTerm, active, stopVars>>

\* The fiber's state stays EXEC until run() has its thread back.
YieldToHold(w) ==
    /\ pc[w] = "parking"
    /\ SwapOut(w)
    /\ UNCHANGED fiberVars

\* The body returns or throws: MainFunc().
Finish(w, end) ==
    /\ pc[w] = "running"
    /\ SwapOut(w)
    /\ fstate' = [fstate EXCEPT ![Current(w)] = end]
    /\ UNCHANGED <<parked, yields>>

\* Mutant of Settle: a fiber that yielded to READY is not queued.
SettleNeverQueues(w) ==
    /\ pc[w] = "settle"
    /\ fstate' = [fstate EXCEPT ![Current(w)] = IF @ = "EXEC" THEN "HOLD" ELSE @]
    /\ hand' = [hand EXCEPT ![w] = <<>>]
    /\ pc' = [pc EXCEPT ![w] = "local"]
    /\ UNCHANGED <<queueVars, parked, yields, scan, idleTerm, active, stopVars>>

\* run() looks at the state the fiber came back with.
Settle(w) ==
    /\ pc[w] = "settle"
    /\ LET f == Current(w)
       IN  CASE fstate[f] = "READY" ->
                    ScheduleFrom(w, f, AnyThread) /\ UNCHANGED fstate
             [] fstate[f] \in {"TERM", "EXCEPT"} ->
                    UNCHANGED <<queueVars, fstate>>
             [] OTHER ->
                    /\ fstate' = [fstate EXCEPT ![f] = "HOLD"]
                    /\ UNCHANGED queueVars
    /\ hand' = [hand EXCEPT ![w] = <<>>]
    /\ pc' = [pc EXCEPT ![w] = "local"]
    /\ UNCHANGED <<parked, yields, scan, idleTerm, active, stopVars>>

-----------------------------------------------------------------------------
(* stopping(), called by idle() on a worker and by stop() on the owner.    *)
(* It ends with pc "yes" or "no".                                          *)

InOrder == [k \in 1..NWorkers |-> k]

\* IOManager::stopping(): no timer and no pending event.
CheckPending(p) ==
    /\ pc[p] = "pend"
    /\ pc' = [pc EXCEPT ![p] = IF \E f \in Fibers : parked[f] = "io"
                               THEN "no" ELSE "lock"]
    /\ UNCHANGED <<queueVars, fiberVars, hand, scan, idleTerm, active, stopVars>>

\* Scheduler::stopping(): the part under m_mutex.
CheckGlobal(p) ==
    /\ pc[p] = "lock"
    /\ IF autoStop /\ stopFlag /\ active = 0 /\ global = <<>>
       THEN /\ pc' = [pc EXCEPT ![p] = "scan"]
            /\ scan' = [scan EXCEPT ![p] = InOrder]
       ELSE /\ pc' = [pc EXCEPT ![p] = "no"]
            /\ UNCHANGED scan
    /\ UNCHANGED <<queueVars, fiberVars, hand, idleTerm, active, stopVars>>

\* processorQueuesEmpty(): one Processor mutex at a time.
CheckProcessor(p) ==
    /\ pc[p] = "scan"
    /\ IF scan[p] = <<>>
       THEN pc' = [pc EXCEPT ![p] = "yes"] /\ UNCHANGED scan
       ELSE IF local[Head(scan[p])] = <<>>
            THEN scan' = [scan EXCEPT ![p] = Tail(@)] /\ UNCHANGED pc
            ELSE /\ pc' = [pc EXCEPT ![p] = "no"]
                 /\ scan' = [scan EXCEPT ![p] = <<>>]
    /\ UNCHANGED <<queueVars, fiberVars, hand, idleTerm, active, stopVars>>

-----------------------------------------------------------------------------
(* idle() after stopping() has answered.                                   *)

\* An event is ready: triggerEvent() schedules the fiber from this worker.
PollWake(w, f) ==
    /\ pc[w] = "no"
    /\ parked[f] = "io"
    /\ parked' = [parked EXCEPT ![f] = "no"]
    /\ ScheduleFrom(w, f, AnyThread)
    /\ UNCHANGED <<fstate, yields, hand, pc, scan, idleTerm, active, stopVars>>

\* The idle fiber swaps out, or ends when stopping() was true.
LeaveIdle(w) ==
    /\ pc[w] \in {"yes", "no"}
    /\ idleTerm' = IF pc[w] = "yes" THEN idleTerm \cup {w} ELSE idleTerm
    /\ pc' = [pc EXCEPT ![w] = "local"]
    /\ UNCHANGED <<queueVars, fiberVars, hand, scan, active, stopVars>>

-----------------------------------------------------------------------------
(* start() and stop().                                                     *)

UseCaller == RootWorker # -1

Start ==
    /\ stage = "new"
    /\ stage' = "up"
    /\ stopFlag' = FALSE
    /\ pc' = [p \in DOMAIN pc |-> IF p \in Workers \ {RootWorker}
                                  THEN "local" ELSE pc[p]]
    /\ UNCHANGED <<queueVars, fiberVars, hand, scan, idleTerm, active, autoStop>>

\* With no thread but the caller's, m_stopping is raised before the first test.
StopBegin ==
    /\ stage = "up"
    /\ stage' = "first"
    /\ autoStop' = TRUE
    /\ stopFlag' = (stopFlag \/ (UseCaller /\ NWorkers = 1))
    /\ pc' = [pc EXCEPT ![Owner] = "pend"]
    /\ UNCHANGED <<queueVars, fiberVars, hand, scan, idleTerm, active>>

\* if(stopping()) return; otherwise raise m_stopping and tickle everyone.
StopFirst ==
    /\ stage = "first"
    /\ \/ /\ pc[Owner] = "yes"
          /\ stage' = "down"
          /\ pc' = [pc EXCEPT ![Owner] = "off"]
          /\ UNCHANGED stopFlag
       \/ /\ pc[Owner] = "no"
          /\ stopFlag' = TRUE
          /\ stage' = IF UseCaller THEN "second" ELSE "join"
          /\ pc' = [pc EXCEPT ![Owner] = IF UseCaller THEN "pend" ELSE "off"]
    /\ UNCHANGED <<queueVars, fiberVars, hand, scan, idleTerm, active, autoStop>>

\* if(!stopping()) m_rootFiber->call(): the caller's thread becomes a worker.
StopSecond ==
    /\ stage = "second"
    /\ \/ /\ pc[Owner] = "yes"
          /\ stage' = "join"
          /\ pc' = [pc EXCEPT ![Owner] = "off"]
       \/ /\ pc[Owner] = "no"
          /\ stage' = "call"
          /\ pc' = [pc EXCEPT ![Owner] = "off", ![RootWorker] = "local"]
    /\ UNCHANGED <<queueVars, fiberVars, hand, scan, idleTerm, active, autoStop,
                   stopFlag>>

StopCalled ==
    /\ stage = "call"
    /\ pc[RootWorker] = "exit"
    /\ stage' = "join"
    /\ UNCHANGED <<queueVars, fiberVars, hand, pc, scan, idleTerm, active,
                   autoStop, stopFlag>>

\* Mutant of StopJoin: stop() does not wait for the threads.
StopJoinDetached ==
    /\ stage = "join"
    /\ stage' = "down"
    /\ UNCHANGED <<queueVars, fiberVars, hand, pc, scan, idleTerm, active,
                   autoStop, stopFlag>>

StopJoin ==
    /\ stage = "join"
    /\ \A w \in Workers \ {RootWorker} : pc[w] = "exit"
    /\ stage' = "down"
    /\ UNCHANGED <<queueVars, fiberVars, hand, pc, scan, idleTerm, active,
                   autoStop, stopFlag>>

-----------------------------------------------------------------------------
Init ==
    /\ global = <<>>
    /\ local = [w \in Workers |-> <<>>]
    /\ fstate = [f \in Fibers |-> "NONE"]
    /\ parked = [f \in Fibers |-> "no"]
    /\ yields = [f \in Fibers |-> 0]
    /\ hand = [w \in Workers |-> <<>>]
    /\ pc = [p \in Workers \cup {Owner} |-> "off"]
    /\ scan = [p \in Workers \cup {Owner} |-> <<>>]
    /\ idleTerm = {}
    /\ active = 0
    /\ autoStop = FALSE
    /\ stopFlag = TRUE
    /\ stage = "new"

Client ==
    \E f \in Fibers :
        \/ \E thread \in Pins : Submit(f, thread)
        \/ ExternalWake(f)

FindTask(w) ==
    PopLocal(w) \/ PopGlobal(w) \/ StealFrom(w) \/ Splice(w) \/ NoTask(w)

\* The ways a fiber's body hands its thread back to run().
GiveUp(w) ==
    \/ YieldToReady(w)
    \/ \E how \in Holds : Park(w, how)
    \/ YieldToHold(w)
    \/ \E end \in {"TERM", "EXCEPT"} : Finish(w, end)

FiberStep(w) ==
    \/ \E f \in Fibers, thread \in Pins : Spawn(w, f, thread)
    \/ \E f \in Fibers : SpawnGlobal(w, f) \/ FiberWake(w, f)
    \/ GiveUp(w)

RunTask(w) == Dispatch(w) \/ Settle(w)

StoppingCall(p) == CheckPending(p) \/ CheckGlobal(p) \/ CheckProcessor(p)

Idle(w) == LeaveIdle(w) \/ \E f \in Fibers : PollWake(w, f)

StopStep == StopFirst \/ StopSecond \/ StopCalled \/ StopJoin

\* After stop() has returned there is nothing left to do.
Stopped == stage = "down" /\ UNCHANGED vars

Next ==
    \/ Client
    \/ \E w \in Workers :
        FindTask(w) \/ RunTask(w) \/ FiberStep(w) \/ StoppingCall(w) \/ Idle(w)
    \/ StoppingCall(Owner)
    \/ Start \/ StopBegin \/ StopStep \/ Stopped

Spec == Init /\ [][Next]_vars

-----------------------------------------------------------------------------
(* Fairness: every thread keeps executing its own code, a fiber's body     *)
(* does not run forever, and what a parked fiber waits for does happen.    *)

Fairness ==
    /\ WF_vars(Start)
    /\ WF_vars(StopStep)
    /\ WF_vars(StoppingCall(Owner))
    /\ \A w \in Workers :
        /\ WF_vars(FindTask(w))
        /\ WF_vars(RunTask(w))
        /\ WF_vars(StoppingCall(w))
        /\ WF_vars(LeaveIdle(w))
        /\ WF_vars(GiveUp(w))
    /\ \A f \in Fibers :
        /\ WF_vars(ExternalWake(f))
        /\ SF_vars(\E w \in Workers : PollWake(w, f))

FairSpec == Spec /\ Fairness

-----------------------------------------------------------------------------
(* Properties.                                                             *)

\* Every entry of a queue or of a worker's hand names a fiber and a known
\* thread or none, and the fiber and control states stay among those that
\* Fiber::State, run() and stop() distinguish.
TypeOK ==
    /\ global \in Seq(Item)
    /\ local \in [Workers -> Seq(Item)]
    /\ fstate \in [Fibers -> FiberState]
    /\ parked \in [Fibers -> {"no", "io", "ext"}]
    /\ yields \in [Fibers -> 0..MaxYields]
    /\ hand \in [Workers -> Seq(Item)]
    /\ pc \in [Workers \cup {Owner} -> WorkerPC]
    /\ scan \in [Workers \cup {Owner} -> Seq(Workers)]
    /\ idleTerm \subseteq Workers
    /\ active \in Int
    /\ autoStop \in BOOLEAN
    /\ stopFlag \in BOOLEAN
    /\ stage \in Stages

\* A task pinned with schedule(fc, thread) is only ever held or run by that
\* thread, and never enters a Processor queue, from which any worker takes.
\* (popGlobalTask() and stealTask() filter on FiberAndThread::thread.)
PinRespected ==
    \A w \in Workers :
        /\ \A i \in DOMAIN hand[w] : hand[w][i].thread \in {AnyThread, w}
        /\ \A i \in 2..Len(hand[w]) : hand[w][i].thread = AnyThread
        /\ \A i \in DOMAIN local[w] : local[w][i].thread = AnyThread

\* The assertion of Fiber::swapIn(): a worker about to resume a fiber never
\* finds it EXEC, and no two workers are ever inside the same fiber.
NoDoubleRun ==
    \A w \in Workers :
        /\ pc[w] = "got" => ~Exec(Current(w))
        /\ pc[w] \in {"running", "parking"} =>
             \A v \in Workers \ {w} :
                 pc[v] \in {"running", "parking", "settle"} =>
                     Current(v) # Current(w)

\* Everything that will one day resume fiber f: queue entries, entries in a
\* worker's hand that have not been run yet, a registered wake-up.
Resumptions(f) ==
    {<<"global", 0, i>> : i \in {i \in DOMAIN global : global[i].fiber = f}}
    \cup (UNION {{<<"local", w, i>> :
                    i \in {i \in DOMAIN local[w] : local[w][i].fiber = f}} :
                 w \in Workers})
    \cup (UNION {{<<"hand", w, i>> :
                    i \in {i \in DOMAIN hand[w] : hand[w][i].fiber = f}} :
                 w \in {v \in Workers : pc[v] \in {"splice", "got"}}})
    \cup (IF parked[f] = "no" THEN {} ELSE {<<"parked", 0, 0>>})

\* A fiber has at most one outstanding resumption, and none while its body
\* runs and has not registered a new one: across batches, thefts, READY
\* re-queueing and wake-ups no entry is ever duplicated.  A second entry would
\* resume the fiber at the wrong point.
OneResumption ==
    \A f \in Fibers :
        /\ Cardinality(Resumptions(f)) <= 1
        /\ (\E w \in Workers : pc[w] = "running" /\ Current(w) = f)
             => Resumptions(f) = {}

\* A fiber that was scheduled and has not finished is always on its way to a
\* worker: queued, in a worker's hand, running, being settled, or parked with
\* its wake-up registered.  popLocalTask() calls what it drops an "old" entry.
NoTaskLost ==
    \A f \in Fibers :
        fstate[f] \in {"INIT", "READY", "HOLD"} =>
            \/ Resumptions(f) # {}
            \/ \E w \in Workers : pc[w] = "settle" /\ Current(w) = f

\* When stop() has returned no worker is in the middle of a task and no queue
\* holds one, but for tasks pinned to a thread that had already left run().
StopDrains ==
    stage = "down" =>
        /\ \A i \in DOMAIN global : global[i].thread # AnyThread
        /\ \A w \in Workers : local[w] = <<>> /\ hand[w] = <<>>

\* Every scheduled task runs to its end unless stop() is called first, but for
\* a task pinned to the use_caller thread, which runs tasks only inside stop().
EveryTaskFinishes ==
    \A f \in Fibers :
        fstate[f] = "INIT" ~>
            \/ fstate[f] \in {"TERM", "EXCEPT"}
            \/ autoStop
            \/ [fiber |-> f, thread |-> RootWorker] \in {global[i] : i \in DOMAIN global}

\* A task sits in the global queue that only one thread may take, and that
\* thread has left run(), or is the owner's and stop() is past m_rootFiber->call().
\* stopping() then stays false for every thread that is still there.
Stranded ==
    \E i \in DOMAIN global, w \in Workers :
        /\ global[i].thread = w
        /\ pc[w] = "exit" \/ (w = RootWorker /\ stage = "join")

\* stop() returns unless a pinned task is stranded, and that is the only way in
\* which it hangs.  It does happen: a worker that asks stopping() while the last
\* task is popped and not counted in m_activeThreadCount leaves run(), and that
\* task then schedules another one for its thread.
StopReturns == (stage = "first") ~> (stage = "down" \/ Stranded)

=============================================================================
