------------------------------- MODULE SociPool -------------------------------
(***************************************************************************)
(* One connection pool of SociManager (FiberServer/db/soci_db.{h,cpp}):    *)
(* get(), the timer callback that get() arms, and freeSoci(), the deleter  *)
(* of the shared_ptr that get() returns.                                   *)
(*                                                                         *)
(* A step is a critical section of PoolState::mutex or the code between    *)
(* two of them.  The scheduler is the one of module Scheduler: a fiber     *)
(* that has yielded is resumed at most once for every schedule() of it.    *)
(* That it is resumed at all is not assumed, for a schedule() that comes   *)
(* before the fiber is in HOLD may be dropped (run gmp_lost_wakeup).       *)
(* Time is abstract: an armed timer may expire at any moment.              *)
(***************************************************************************)
EXTENDS Integers, Sequences, FiniteSets

CONSTANTS
    Callers,   \* fibers that use the pool, each in one get() at a time
    Conns,     \* SociDB objects
    NoConn,    \* the null pointer
    MaxConn,   \* PoolState::maxConn, at least 1 (getPool())
    Timeouts,  \* what callers pass as timeout_ms, or "outside" a scheduler
    MayFail    \* whether createConnection() can fail

ASSUME PoolAssumption ==
    /\ IsFiniteSet(Callers)
    /\ NoConn \notin Conns
    /\ MaxConn \in Nat \ {0}
    /\ Timeouts \subseteq {"zero", "finite", "forever", "outside"}
    /\ MayFail \in BOOLEAN

VARIABLES
    idle,      \* PoolState::idle
    waiters,   \* PoolState::waiters, a Waiter being named by its caller
    total,     \* PoolState::totalCount
    live,      \* the SociDB objects that have been created
    pc,        \* where every caller is
    raw,       \* the connection in a caller's hands: raw, then the shared_ptr
    linked,    \* Waiter::linked
    done,      \* Waiter::done
    wdb,       \* Waiter::db
    timedOut,  \* Waiter::timedOut
    patience,  \* the timeout of the get() that waits
    timer,     \* that get()'s timer
    target,    \* the waiter freeSoci() is about to schedule, or the caller itself
    wakes      \* schedule() calls a caller's fiber has not consumed

poolVars   == <<idle, waiters, total, live>>
waiterVars == <<linked, done, wdb, timedOut>>
vars == <<idle, waiters, total, live, pc, raw, linked, done, wdb, timedOut,
          patience, timer, target, wakes>>

CallerPC == {"out", "create", "linked", "hold", "collect", "use", "wake"}

TimerState == {"none", "armed", "queued", "waking"}

-----------------------------------------------------------------------------
(* get(): the critical section at its head.                                *)

GetIdle(c) ==
    /\ pc[c] = "out"
    /\ idle # <<>>
    /\ raw' = [raw EXCEPT ![c] = Head(idle)]
    /\ idle' = Tail(idle)
    /\ pc' = [pc EXCEPT ![c] = "use"]
    /\ UNCHANGED <<waiters, total, live, waiterVars, patience, timer, target,
                   wakes>>

\* Below the limit a slot is taken first; the connection is made unlocked.
GetSlot(c) ==
    /\ pc[c] = "out"
    /\ idle = <<>>
    /\ total < MaxConn
    /\ total' = total + 1
    /\ pc' = [pc EXCEPT ![c] = "create"]
    /\ UNCHANGED <<idle, waiters, live, raw, waiterVars, patience, timer,
                   target, wakes>>

\* timeout_ms == 0, or no scheduler to wait in: null at once.
GetRefused(c) ==
    /\ pc[c] = "out"
    /\ idle = <<>>
    /\ total >= MaxConn
    /\ Timeouts \cap {"zero", "outside"} # {}
    /\ UNCHANGED vars

\* A new Waiter enters the list and the lock is released.
GetWait(c, timeout) ==
    /\ pc[c] = "out"
    /\ idle = <<>>
    /\ total >= MaxConn
    /\ waiters' = Append(waiters, c)
    /\ linked' = [linked EXCEPT ![c] = TRUE]
    /\ done' = [done EXCEPT ![c] = FALSE]
    /\ wdb' = [wdb EXCEPT ![c] = NoConn]
    /\ timedOut' = [timedOut EXCEPT ![c] = FALSE]
    /\ patience' = [patience EXCEPT ![c] = timeout]
    /\ pc' = [pc EXCEPT ![c] = "linked"]
    /\ UNCHANGED <<idle, total, live, raw, timer, target, wakes>>

-----------------------------------------------------------------------------
(* createConnection(), without the lock.                                   *)

CreateOk(c) ==
    /\ pc[c] = "create"
    /\ \E conn \in Conns \ live :
        /\ live' = live \cup {conn}
        /\ raw' = [raw EXCEPT ![c] = conn]
    /\ pc' = [pc EXCEPT ![c] = "use"]
    /\ UNCHANGED <<idle, waiters, total, waiterVars, patience, timer, target,
                   wakes>>

\* Mutant of CreateFail: --pool->totalCount is missing.
CreateFailLeaks(c) ==
    /\ MayFail
    /\ pc[c] = "create"
    /\ pc' = [pc EXCEPT ![c] = "out"]
    /\ UNCHANGED <<poolVars, raw, waiterVars, patience, timer, target, wakes>>

\* The slot is given back; the waiters are not told.
CreateFail(c) ==
    /\ MayFail
    /\ pc[c] = "create"
    /\ total' = total - 1
    /\ pc' = [pc EXCEPT ![c] = "out"]
    /\ UNCHANGED <<idle, waiters, live, raw, waiterVars, patience, timer,
                   target, wakes>>

-----------------------------------------------------------------------------
(* get(): the wait.                                                        *)

\* list::erase(waiter->iter).
Unlink(c) ==
    LET at == CHOOSE i \in DOMAIN waiters : waiters[i] = c
    IN  [k \in 1..(Len(waiters) - 1) |-> waiters[IF k < at THEN k ELSE k + 1]]

\* addTimer() for a positive timeout, then YieldToHold().
Hold(c) ==
    /\ pc[c] = "linked"
    /\ timer' = [timer EXCEPT ![c] = IF patience[c] = "finite"
                                     THEN "armed" ELSE "none"]
    /\ pc' = [pc EXCEPT ![c] = "hold"]
    /\ UNCHANGED <<poolVars, raw, waiterVars, patience, target, wakes>>

\* The fiber runs again: timer->cancel(), which is too late for a callback
\* that listExpiredCb() has already taken out.
Resume(c) ==
    /\ pc[c] = "hold"
    /\ wakes[c] > 0
    /\ wakes' = [wakes EXCEPT ![c] = @ - 1]
    /\ timer' = [timer EXCEPT ![c] = IF @ = "armed" THEN "none" ELSE @]
    /\ pc' = [pc EXCEPT ![c] = "collect"]
    /\ UNCHANGED <<poolVars, raw, waiterVars, patience, target>>

\* get() returns: its Waiter dies, so a callback still queued finds the
\* weak_ptr expired.
DropWaiter(c) ==
    /\ timer' = [timer EXCEPT ![c] = IF @ = "queued" THEN "none" ELSE @]
    /\ wdb' = [wdb EXCEPT ![c] = NoConn]

\* lock.lock(): the waiter was given a connection.
CollectConn(c) ==
    /\ pc[c] = "collect"
    /\ wdb[c] # NoConn
    /\ raw' = [raw EXCEPT ![c] = wdb[c]]
    /\ pc' = [pc EXCEPT ![c] = "use"]
    /\ DropWaiter(c)
    /\ UNCHANGED <<poolVars, linked, done, timedOut, patience, target, wakes>>

\* lock.lock(): no connection; get() returns null.
CollectNull(c) ==
    /\ pc[c] = "collect"
    /\ wdb[c] = NoConn
    /\ waiters' = IF linked[c] THEN Unlink(c) ELSE waiters
    /\ linked' = [linked EXCEPT ![c] = FALSE]
    /\ done' = [done EXCEPT ![c] = TRUE]
    /\ pc' = [pc EXCEPT ![c] = "out"]
    /\ DropWaiter(c)
    /\ UNCHANGED <<idle, total, live, raw, timedOut, patience, target, wakes>>

-----------------------------------------------------------------------------
(* The timer callback.                                                     *)

\* listExpiredCb() takes the callback out and queues it as a task.
TimerExpires(c) ==
    /\ timer[c] = "armed"
    /\ timer' = [timer EXCEPT ![c] = "queued"]
    /\ UNCHANGED <<poolVars, pc, raw, waiterVars, patience, target, wakes>>

\* Mutant of TimerLocked: the test of waiter->done is missing.
TimerAlways(c) ==
    /\ timer[c] = "queued"
    /\ waiters' = IF linked[c] THEN Unlink(c) ELSE waiters
    /\ linked' = [linked EXCEPT ![c] = FALSE]
    /\ done' = [done EXCEPT ![c] = TRUE]
    /\ timedOut' = [timedOut EXCEPT ![c] = TRUE]
    /\ timer' = [timer EXCEPT ![c] = "waking"]
    /\ UNCHANGED <<idle, total, live, pc, raw, wdb, patience, target, wakes>>

\* Its critical section: nothing to do if freeSoci() came first.
TimerLocked(c) ==
    /\ timer[c] = "queued"
    /\ IF done[c]
       THEN /\ timer' = [timer EXCEPT ![c] = "none"]
            /\ UNCHANGED <<waiters, linked, done, timedOut>>
       ELSE /\ waiters' = IF linked[c] THEN Unlink(c) ELSE waiters
            /\ linked' = [linked EXCEPT ![c] = FALSE]
            /\ done' = [done EXCEPT ![c] = TRUE]
            /\ timedOut' = [timedOut EXCEPT ![c] = TRUE]
            /\ timer' = [timer EXCEPT ![c] = "waking"]
    /\ UNCHANGED <<idle, total, live, pc, raw, wdb, patience, target, wakes>>

\* Mutant of TimerSchedules: the timed-out fiber is not scheduled.
TimerForgets(c) ==
    /\ timer[c] = "waking"
    /\ timer' = [timer EXCEPT ![c] = "none"]
    /\ UNCHANGED <<poolVars, pc, raw, waiterVars, patience, target, wakes>>

\* scheduler->schedule(fiber), after the unlock.
TimerSchedules(c) ==
    /\ timer[c] = "waking"
    /\ timer' = [timer EXCEPT ![c] = "none"]
    /\ wakes' = [wakes EXCEPT ![c] = @ + 1]
    /\ UNCHANGED <<poolVars, pc, raw, waiterVars, patience, target>>

-----------------------------------------------------------------------------
(* freeSoci().                                                             *)

\* Mutant of Free: the connection always goes back to the idle list.
FreeToIdle(c) ==
    /\ pc[c] = "use"
    /\ raw' = [raw EXCEPT ![c] = NoConn]
    /\ idle' = Append(idle, raw[c])
    /\ pc' = [pc EXCEPT ![c] = "out"]
    /\ UNCHANGED <<waiters, total, live, waiterVars, patience, timer, target,
                   wakes>>

\* Mutants of Free: after a hand-over something is put on the idle list too,
\* because "db = nullptr" or the test "if (db)" is missing.
FreeBoth(c, pushed) ==
    /\ pc[c] = "use"
    /\ raw' = [raw EXCEPT ![c] = NoConn]
    /\ \/ /\ waiters # <<>>
          /\ waiters' = Tail(waiters)
          /\ linked' = [linked EXCEPT ![Head(waiters)] = FALSE]
          /\ done' = [done EXCEPT ![Head(waiters)] = TRUE]
          /\ wdb' = [wdb EXCEPT ![Head(waiters)] = raw[c]]
          /\ target' = [target EXCEPT ![c] = Head(waiters)]
          /\ idle' = Append(idle, pushed)
          /\ pc' = [pc EXCEPT ![c] = "wake"]
       \/ /\ waiters = <<>>
          /\ idle' = Append(idle, raw[c])
          /\ pc' = [pc EXCEPT ![c] = "out"]
          /\ UNCHANGED <<waiters, linked, done, wdb, target>>
    /\ UNCHANGED <<total, live, timedOut, patience, timer, wakes>>

FreeKeepsDb(c)    == FreeBoth(c, raw[c])
FreePushesNull(c) == FreeBoth(c, NoConn)

\* Under the lock: the earliest waiter that is not done gets the connection,
\* those before it are dropped; with no such waiter it becomes idle.
Free(c) ==
    /\ pc[c] = "use"
    /\ raw' = [raw EXCEPT ![c] = NoConn]
    /\ \/ \E i \in DOMAIN waiters :
            LET d == waiters[i]
            IN  /\ ~done[d]
                /\ \A j \in 1..(i - 1) : done[waiters[j]]
                /\ waiters' = SubSeq(waiters, i + 1, Len(waiters))
                /\ linked' = [e \in Callers |->
                                linked[e] /\ e \notin {waiters[j] : j \in 1..i}]
                /\ done' = [done EXCEPT ![d] = TRUE]
                /\ wdb' = [wdb EXCEPT ![d] = raw[c]]
                /\ target' = [target EXCEPT ![c] = d]
            /\ pc' = [pc EXCEPT ![c] = "wake"]
            /\ UNCHANGED idle
       \/ /\ \A j \in DOMAIN waiters : done[waiters[j]]
          /\ waiters' = <<>>
          /\ linked' = [e \in Callers |->
                          linked[e] /\ e \notin {waiters[j] : j \in DOMAIN waiters}]
          /\ idle' = Append(idle, raw[c])
          /\ pc' = [pc EXCEPT ![c] = "out"]
          /\ UNCHANGED <<done, wdb, target>>
    /\ UNCHANGED <<total, live, timedOut, patience, timer, wakes>>

\* waiter->scheduler->schedule(waiter->fiber), after the unlock.
FreeSchedules(c) ==
    /\ pc[c] = "wake"
    /\ wakes' = [wakes EXCEPT ![target[c]] = @ + 1]
    /\ target' = [target EXCEPT ![c] = c]
    /\ pc' = [pc EXCEPT ![c] = "out"]
    /\ UNCHANGED <<poolVars, raw, waiterVars, patience, timer>>

-----------------------------------------------------------------------------
Init ==
    /\ idle = <<>>
    /\ waiters = <<>>
    /\ total = 0
    /\ live = {}
    /\ pc = [c \in Callers |-> "out"]
    /\ raw = [c \in Callers |-> NoConn]
    /\ linked = [c \in Callers |-> FALSE]
    /\ done = [c \in Callers |-> FALSE]
    /\ wdb = [c \in Callers |-> NoConn]
    /\ timedOut = [c \in Callers |-> FALSE]
    /\ patience = [c \in Callers |-> "zero"]
    /\ timer = [c \in Callers |-> "none"]
    /\ target = [c \in Callers |-> c]
    /\ wakes = [c \in Callers |-> 0]

Get(c) ==
    \/ GetIdle(c)
    \/ GetSlot(c)
    \/ GetRefused(c)
    \/ \E timeout \in Timeouts \cap {"finite", "forever"} : GetWait(c, timeout)

Create(c) == CreateOk(c) \/ CreateFail(c)

Wait(c) == Hold(c) \/ Resume(c) \/ CollectConn(c) \/ CollectNull(c)

TimerStep(c) == TimerExpires(c) \/ TimerLocked(c) \/ TimerSchedules(c)

Release(c) == Free(c) \/ FreeSchedules(c)

Next ==
    \E c \in Callers :
        Get(c) \/ Create(c) \/ Wait(c) \/ TimerStep(c) \/ Release(c)

Spec == Init /\ [][Next]_vars

\* The pool's own code goes on: get() arms its timer and yields, timers expire
\* and their callbacks, which are tasks and not parked fibers, run, and
\* freeSoci() schedules the waiter it has chosen.  No caller has to release a
\* connection, no connect has to answer, and no scheduled fiber has to run.
Fairness ==
    \A c \in Callers :
        WF_vars(Hold(c)) /\ WF_vars(TimerStep(c)) /\ WF_vars(FreeSchedules(c))

FairSpec == Spec /\ Fairness

-----------------------------------------------------------------------------
(* Properties.                                                             *)

\* The pool's lists hold connections and callers, the counter, unsigned in the
\* code, never goes below zero, and each Waiter field keeps to its values.
TypeOK ==
    /\ idle \in Seq(Conns)
    /\ waiters \in Seq(Callers)
    /\ total \in Nat
    /\ live \subseteq Conns
    /\ pc \in [Callers -> CallerPC]
    /\ raw \in [Callers -> Conns \cup {NoConn}]
    /\ linked \in [Callers -> BOOLEAN]
    /\ done \in [Callers -> BOOLEAN]
    /\ wdb \in [Callers -> Conns \cup {NoConn}]
    /\ timedOut \in [Callers -> BOOLEAN]
    /\ patience \in [Callers -> {"zero", "finite", "forever"}]
    /\ timer \in [Callers -> TimerState]
    /\ target \in [Callers -> Callers]
    /\ wakes \in [Callers -> Nat]

\* No connection is in two places: idle, in a caller's hands, or handed to a
\* waiter that has not collected it (get(), freeSoci() and the timer callback).
OneOwner ==
    /\ \A i, j \in DOMAIN idle : i # j => idle[i] # idle[j]
    /\ \A i \in DOMAIN idle, c \in Callers :
           idle[i] # raw[c] /\ idle[i] # wdb[c]
    /\ \A c, d \in Callers :
           /\ raw[c] # NoConn => raw[c] # wdb[d]
           /\ c # d /\ raw[c] # NoConn => raw[c] # raw[d]
           /\ c # d /\ wdb[c] # NoConn => wdb[c] # wdb[d]

\* totalCount counts the idle connections, the lent ones, the ones handed
\* over and the slots of connections being made, and never exceeds maxConn:
\* a timeout that races a hand-over neither leaks nor doubles a slot.
SlotsExact ==
    /\ total = Len(idle)
             + Cardinality({c \in Callers : raw[c] # NoConn})
             + Cardinality({c \in Callers : wdb[c] # NoConn})
             + Cardinality({c \in Callers : pc[c] = "create"})
    /\ total <= MaxConn

\* Every schedule() of caller c's fiber that is made or about to be made.
Wakers(c) ==
    wakes[c] + Cardinality({d \in Callers : pc[d] = "wake" /\ target[d] = c})
             + (IF timer[c] = "waking" THEN 1 ELSE 0)

\* The timeout and the hand-over together schedule a waiting fiber at most
\* once, and never a fiber that is not in the wait: a second schedule() would
\* resume it in the middle of whatever it waits for next.
WokenOnce ==
    \A c \in Callers :
        Wakers(c) = IF pc[c] \in {"linked", "hold"} /\ done[c] THEN 1 ELSE 0

\* get() comes out of the wait with a connection or timed out, never both and
\* never neither ("only one side really completes the wait").
OneSideCompletes ==
    \A c \in Callers : pc[c] = "collect" => ((wdb[c] # NoConn) # timedOut[c])

\* No fiber waits while a connection is idle.
NoIdleWhileWaiting ==
    \A c \in Callers : pc[c] \in {"linked", "hold"} /\ ~done[c] => idle = <<>>

\* What a caller has borrowed is what its get() returned.
Lend == INSTANCE Lending WITH lent <- raw

\* The pool implements module Lending: whatever the waiting, the hand-overs
\* and the timeouts do, callers see exclusive, bounded lending.
LendingSpec == Lend!Spec

\* A get() that waits with a timeout has its wait completed, by a hand-over or
\* by the timer, and its fiber scheduled, whatever the other callers do: also
\* when a failed connect gives its slot back and tells nobody.
BoundedWaitScheduled ==
    \A c \in Callers :
        pc[c] = "linked" /\ patience[c] = "finite" ~> done[c] /\ wakes[c] > 0

=============================================================================
