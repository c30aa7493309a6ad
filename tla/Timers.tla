-------------------------------- MODULE Timers --------------------------------
(***************************************************************************)
(* TimerManager (time.h, time.cpp) as the idle loop of IOManager drives    *)
(* it: any thread adds, cancels, refreshes and resets timers while the     *)
(* scheduler's threads sleep in epoll_wait() for at most the time          *)
(* getNextTimer() gave them, wake, and take the expired callbacks.         *)
(*                                                                         *)
(* The order of m_timers is kept (m_next, then the address), m_tickled and *)
(* m_previouseTime are the class's fields.  clock is what GetCurrentMS()   *)
(* reads, the wall clock, which may be set back; time asleep is measured   *)
(* by left[th], which only Tick lowers.  A tickle is the edge of the pipe: *)
(* one sleeping thread gets it, and reading the pipe removes an edge that  *)
(* came in between.  What a callback does is left to Scheduler, SociPool   *)
(* and IOManager; here it counts as fired once it is handed to schedule(). *)
(* m_next and m_ms of a timer without callback are never read again and    *)
(* are set to 0.                                                           *)
(***************************************************************************)
EXTENDS Integers, FiniteSets

CONSTANTS
    TimerIds,       \* timers, numbered in the order of their addresses
    Recurring,      \* the ones made with m_recurring
    Threads,        \* threads that run idle()
    Delays,         \* values of ms
    MAX_TIMEOUT,    \* longest sleep, 3000 in the code
    IntMax,         \* largest int, 2^31 - 1 in the code
    Rollover,       \* how far back the clock must go, one hour in the code
    Start,          \* the clock at first
    Jumps,          \* by how much the clock may be set back
    MaxTicks,       \* bound on the time that passes
    MaxCalls,       \* bound on calls of refresh() and reset()
    MaxJumps        \* bound on the times the clock is set back

ASSUME TimersAssumption ==
    /\ TimerIds \subseteq Nat
    /\ Recurring \subseteq TimerIds
    /\ Delays \subseteq Nat
    /\ Threads # {}
    /\ {MAX_TIMEOUT, IntMax, Rollover, Start, MaxTicks, MaxCalls, MaxJumps} \subseteq Nat
    /\ MAX_TIMEOUT <= IntMax
    /\ Jumps \subseteq Nat \ {0}

VARIABLES
    clock,              \* GetCurrentMS()
    m_timers,           \* the timers in the set
    m_next, m_ms,       \* Timer::m_next, Timer::m_ms
    m_cb,               \* Timer::m_cb is not empty
    m_tickled,          \* TimerManager::m_tickled
    m_previouseTime,    \* TimerManager::m_previouseTime
    call,               \* how far addTimer() has come for a timer
    pc, left,           \* a thread in idle(): its place and the sleep left
    edge,               \* the tickle pipe has an edge to report
    fired,              \* how often a timer's callback was taken, up to 2
    gone,               \* cancel() returned true
    endless,            \* getNextTimer() returned more than IntMax to a thread
    ticks, calls, back  \* time passed, calls made, times the clock went back

timerVars == <<m_timers, m_next, m_ms, m_cb, call, fired, gone>>
managerVars == <<m_tickled, m_previouseTime>>
threadVars == <<pc, left, endless>>
boundVars == <<ticks, calls, back>>
vars == <<clock, timerVars, managerVars, threadVars, edge, boundVars>>

\* A sleep without end: epoll_wait() with a negative timeout.
Forever == -1

Calls == {"none", "made", "front", "returned"}
ThreadPC == {"busy", "wait", "drain"}

\* Types: what the fields of Timer and TimerManager hold, and what idle() hands
\* to epoll_wait(): a sleep within int, or one without end.
TypeOK ==
    /\ clock \in Nat
    /\ m_timers \subseteq TimerIds
    /\ m_next \in [TimerIds -> Nat]
    /\ m_ms \in [TimerIds -> Nat]
    /\ m_cb \in [TimerIds -> BOOLEAN]
    /\ m_tickled \in BOOLEAN
    /\ m_previouseTime \in Nat
    /\ call \in [TimerIds -> Calls]
    /\ pc \in [Threads -> ThreadPC]
    /\ left \in [Threads -> (0 .. IntMax) \cup {Forever}]
    /\ edge \in BOOLEAN
    /\ fired \in [TimerIds -> 0 .. 2]
    /\ gone \in [TimerIds -> BOOLEAN]
    /\ endless \in BOOLEAN
    /\ ticks \in 0 .. MaxTicks
    /\ calls \in 0 .. MaxCalls
    /\ back \in 0 .. MaxJumps

-----------------------------------------------------------------------------
(* The ordered set *)

\* Timer::Comparator.
Before(s, t, next) == next[s] < next[t] \/ (next[s] = next[t] /\ s < t)

\* t is *m_timers.begin().
Begins(t, set, next) == t \in set /\ \A s \in set \ {t} : Before(t, s, next)

\* addTimer(val, lock): insert, and decide whether to tickle, under the lock.
AddTimer(t, next) ==
    LET at_front == Begins(t, m_timers \cup {t}, next) /\ ~m_tickled
    IN  /\ m_timers' = m_timers \cup {t}
        /\ m_next' = next
        /\ m_tickled' = (m_tickled \/ at_front)
        /\ call' = [call EXCEPT ![t] = IF at_front THEN "front" ELSE "returned"]

-----------------------------------------------------------------------------
(* Calls of the timers' owners *)

\* The constructor reads the clock before addTimer() takes the lock.
MakeTimer(t) ==
    /\ call[t] = "none"
    /\ \E ms \in Delays :
        /\ m_ms' = [m_ms EXCEPT ![t] = ms]
        /\ m_next' = [m_next EXCEPT ![t] = clock + ms]
    /\ m_cb' = [m_cb EXCEPT ![t] = TRUE]
    /\ call' = [call EXCEPT ![t] = "made"]
    /\ UNCHANGED <<clock, m_timers, fired, gone, managerVars, threadVars, edge, boundVars>>

InsertTimer(t) ==
    /\ call[t] = "made"
    /\ AddTimer(t, m_next)
    /\ UNCHANGED <<clock, m_ms, m_cb, fired, gone, m_previouseTime,
                   threadVars, edge, boundVars>>

\* onTimerInsertedAtFront() after the lock is released: tickle() writes to the
\* pipe only if some thread is in idle().
Tickle(t) ==
    /\ call[t] = "front"
    /\ edge' = (edge \/ \E th \in Threads : pc[th] # "busy")
    /\ call' = [call EXCEPT ![t] = "returned"]
    /\ UNCHANGED <<clock, m_timers, m_next, m_ms, m_cb, fired, gone,
                   managerVars, threadVars, boundVars>>

\* Mutant of Cancel: the callback is forgotten, the set is left alone.
CancelLazy(t) ==
    /\ call[t] = "returned"
    /\ m_cb[t]
    /\ m_cb' = [m_cb EXCEPT ![t] = FALSE]
    /\ gone' = [gone EXCEPT ![t] = TRUE]
    /\ UNCHANGED <<clock, m_timers, m_next, m_ms, call, fired,
                   managerVars, threadVars, edge, boundVars>>

\* cancel(): without a callback it returns false and changes nothing.
Cancel(t) ==
    /\ call[t] = "returned"
    /\ m_cb[t]
    /\ m_cb' = [m_cb EXCEPT ![t] = FALSE]
    /\ gone' = [gone EXCEPT ![t] = t \in m_timers]
    /\ m_timers' = m_timers \ {t}
    /\ m_next' = [m_next EXCEPT ![t] = 0]
    /\ m_ms' = [m_ms EXCEPT ![t] = 0]
    /\ UNCHANGED <<clock, call, fired,
                   managerVars, threadVars, edge, boundVars>>

\* refresh() and reset() return false unless the timer has its callback and is
\* in the set.
Live(t) == call[t] = "returned" /\ m_cb[t] /\ t \in m_timers

Refresh(t) ==
    /\ Live(t)
    /\ calls < MaxCalls
    /\ m_next' = [m_next EXCEPT ![t] = clock + m_ms[t]]
    /\ calls' = calls + 1
    /\ UNCHANGED <<clock, m_timers, m_ms, m_cb, call, fired, gone,
                   managerVars, threadVars, edge, ticks, back>>

Reset(t) ==
    /\ Live(t)
    /\ calls < MaxCalls
    /\ \E ms \in Delays, from_now \in BOOLEAN :
        LET start == IF from_now THEN clock ELSE m_next[t] - m_ms[t]
        IN  /\ ms # m_ms[t] \/ from_now
            /\ AddTimer(t, [m_next EXCEPT ![t] = start + ms])
            /\ m_ms' = [m_ms EXCEPT ![t] = ms]
    /\ calls' = calls + 1
    /\ UNCHANGED <<clock, m_cb, fired, gone, m_previouseTime,
                   threadVars, edge, ticks, back>>

-----------------------------------------------------------------------------
(* The threads *)

\* A conversion to int.
ToInt(v) == ((v + IntMax + 1) % (2 * (IntMax + 1))) - (IntMax + 1)

\* Mutant of SleepFor: what getNextTimer() returned is not cut.
SleepForUncut(th) ==
    IF m_timers = {} THEN MAX_TIMEOUT
    ELSE LET next == CHOOSE t \in m_timers : Begins(t, m_timers, m_next)
         IN  IF clock >= m_next[next] THEN 0 ELSE m_next[next] - clock

\* What getNextTimer() returns, cut to MAX_TIMEOUT by idle() and passed to
\* epoll_wait() as an int: a timer more than IntMax away slips through the
\* comparison as a negative number.
SleepFor(th) ==
    IF m_timers = {} THEN MAX_TIMEOUT
    ELSE LET next == CHOOSE t \in m_timers : Begins(t, m_timers, m_next)
             timeout == IF clock >= m_next[next] THEN 0 ELSE m_next[next] - clock
             cut == IF ToInt(timeout) > MAX_TIMEOUT THEN MAX_TIMEOUT ELSE ToInt(timeout)
         IN  IF cut < 0 THEN Forever ELSE cut

\* The first timer is out of the range of int.
BeyondInt == \E t \in m_timers : Begins(t, m_timers, m_next) /\ m_next[t] - clock > IntMax

\* Mutant of Sleep: getNextTimer() leaves m_tickled set.
SleepTickled(th) ==
    /\ pc[th] = "busy"
    /\ left' = [left EXCEPT ![th] = SleepFor(th)]
    /\ pc' = [pc EXCEPT ![th] = "wait"]
    /\ endless' = (endless \/ BeyondInt)
    /\ UNCHANGED <<clock, timerVars, managerVars, edge, boundVars>>

\* A thread without work enters idle(), or goes round its loop again:
\* getNextTimer() clears m_tickled, then epoll_wait().
Sleep(th) ==
    /\ pc[th] = "busy"
    /\ m_tickled' = FALSE
    /\ left' = [left EXCEPT ![th] = SleepFor(th)]
    /\ pc' = [pc EXCEPT ![th] = "wait"]
    /\ endless' = (endless \/ BeyondInt)
    /\ UNCHANGED <<clock, timerVars, m_previouseTime, edge, boundVars>>

\* Counting to two is enough.
Again(n) == IF n = 0 THEN 1 ELSE 2

\* detectClockRollover().
RolledBack == clock + Rollover < m_previouseTime

\* Mutant of Expired: the timers of the next millisecond are taken too.
ExpiredEarly == {t \in m_timers : RolledBack \/ m_next[t] <= clock + 1}

\* Timers up to lower_bound(now_ms) and those equal to it; all after a rollover.
Expired == {t \in m_timers : RolledBack \/ m_next[t] <= clock}

\* Mutant of ListExpiredCb: a one-shot timer keeps its callback.
ListExpiredCbKeeps ==
    LET expired == Expired
        again == expired \cap Recurring
    IN  /\ m_previouseTime' = IF m_timers = {} THEN m_previouseTime ELSE clock
        /\ m_timers' = (m_timers \ expired) \cup again
        /\ m_next' = [t \in TimerIds |-> IF t \in again THEN clock + m_ms[t] ELSE m_next[t]]
        /\ fired' = [t \in TimerIds |-> IF t \in expired THEN Again(fired[t]) ELSE fired[t]]
        /\ UNCHANGED <<m_ms, m_cb>>

\* listExpiredCb() and schedule() of what it took: one-shot timers lose their
\* callback, recurring ones are inserted again.
ListExpiredCb ==
    LET expired == Expired
        again == expired \cap Recurring
    IN  /\ m_previouseTime' = IF m_timers = {} THEN m_previouseTime ELSE clock
        /\ m_timers' = (m_timers \ expired) \cup again
        /\ m_next' = [t \in TimerIds |-> IF t \in again THEN clock + m_ms[t]
                                    ELSE IF t \in expired THEN 0 ELSE m_next[t]]
        /\ m_ms' = [t \in TimerIds |-> IF t \in expired \ again THEN 0 ELSE m_ms[t]]
        /\ m_cb' = [t \in TimerIds |-> m_cb[t] /\ t \notin expired \ again]
        /\ fired' = [t \in TimerIds |-> IF t \in expired THEN Again(fired[t]) ELSE fired[t]]

\* epoll_wait() returns, for a timeout, the tickle or an I/O event, so at any time;
\* the tickle is reported with whatever else is ready.
\* The clock is read and the write lock taken in one step: a thread held up in
\* between only takes the timers later.
Wake(th) ==
    /\ pc[th] = "wait"
    /\ ListExpiredCb
    /\ pc' = [pc EXCEPT ![th] = IF edge THEN "drain" ELSE "busy"]
    /\ edge' = FALSE
    /\ left' = [left EXCEPT ![th] = 0]
    /\ UNCHANGED <<clock, call, gone, m_tickled, endless, boundVars>>


\* The read loop on the pipe takes every byte; swapOut() then leaves idle().
Drain(th) ==
    /\ pc[th] = "drain"
    /\ edge' = FALSE
    /\ pc' = [pc EXCEPT ![th] = "busy"]
    /\ UNCHANGED <<clock, timerVars, managerVars, left, endless, boundVars>>

-----------------------------------------------------------------------------
(* Time *)

Tick ==
    /\ ticks < MaxTicks
    /\ ticks' = ticks + 1
    /\ clock' = clock + 1
    /\ left' = [th \in Threads |-> IF left[th] > 0 THEN left[th] - 1 ELSE left[th]]
    /\ UNCHANGED <<timerVars, managerVars, pc, endless, edge, calls, back>>

\* GetCurrentMS() is unsigned.
SetBack(by) ==
    /\ back < MaxJumps
    /\ by <= clock
    /\ back' = back + 1
    /\ clock' = clock - by
    /\ UNCHANGED <<timerVars, managerVars, threadVars, edge, ticks, calls>>

-----------------------------------------------------------------------------
Init ==
    /\ clock = Start
    /\ m_timers = {}
    /\ m_next = [t \in TimerIds |-> 0]
    /\ m_ms = [t \in TimerIds |-> 0]
    /\ m_cb = [t \in TimerIds |-> FALSE]
    /\ m_tickled = FALSE
    /\ m_previouseTime = Start
    /\ call = [t \in TimerIds |-> "none"]
    /\ pc = [th \in Threads |-> "busy"]
    /\ left = [th \in Threads |-> 0]
    /\ edge = FALSE
    /\ fired = [t \in TimerIds |-> 0]
    /\ gone = [t \in TimerIds |-> FALSE]
    /\ endless = FALSE
    /\ ticks = 0 /\ calls = 0 /\ back = 0

OwnerStep ==
    \E t \in TimerIds : MakeTimer(t) \/ InsertTimer(t) \/ Tickle(t)
                        \/ Cancel(t) \/ Refresh(t) \/ Reset(t)

IdleStep ==
    \E th \in Threads : Sleep(th) \/ Wake(th) \/ Drain(th)

Next == OwnerStep \/ IdleStep \/ Tick \/ \E by \in Jumps : SetBack(by)

Spec == Init /\ [][Next]_vars

-----------------------------------------------------------------------------
(* Properties *)

\* A timer is in m_timers exactly while it has its callback: listExpiredCb()
\* schedules no empty callback, and cancel(), refresh() and reset() never find
\* a live timer missing from the set, whatever the order of their locks.
ArmedExact ==
    \A t \in TimerIds : call[t] # "made" => (m_cb[t] <=> t \in m_timers)

\* For a one-shot timer cancel() and expiry exclude each other: if cancel()
\* returned true its callback was not and will not be scheduled, and it is
\* never scheduled twice.  (For a recurring timer an occurrence taken before
\* cancel() may still run after it.)
CancelIsFinal ==
    \A t \in TimerIds :
        call[t] # "none" /\ t \notin Recurring => fired[t] + (IF gone[t] THEN 1 ELSE 0) <= 1

\* When every thread is in epoll_wait() and no tickle is on its way, one of them
\* sleeps no longer than the first timer allows.  The m_tickled flag saves
\* tickles; it must not save the one that is needed.  Two exceptions: once the
\* clock was set back, refresh() can bring a timer forward without a tickle and
\* only MAX_TIMEOUT bounds the sleep; and a thread that found the first timer more
\* than IntMax away may sleep without end, past timers added behind that one.
NoOversleep ==
    /\ \A th \in Threads : pc[th] = "wait"
    /\ ~edge
    /\ \A t \in TimerIds : call[t] # "front"
    => \A t \in m_timers :
        Begins(t, m_timers, m_next) =>
            \E th \in Threads :
                \/ left[th] = 0
                \/ left[th] \in 1 .. m_next[t] - clock
                \/ back > 0 /\ left[th] \in 1 .. MAX_TIMEOUT
                \/ endless /\ left[th] = Forever

\* A callback is taken before its time only if the clock was set back by more than
\* Rollover.  detectClockRollover() has no other memory than m_previouseTime, which
\* is left alone while there are no timers.
NotEarly ==
    [][\A t \in TimerIds :
        fired'[t] > fired[t] => clock >= m_next[t] \/ clock + Rollover < Start + ticks]_vars

=============================================================================
