----------------------------- MODULE TimersProofs -----------------------------
(***************************************************************************)
(* Proofs about Timers for any timers, threads, delays and bounds.         *)
(*                                                                         *)
(* ArmedExact and CancelIsFinal are proved from one inductive invariant:   *)
(* OneShotLife says where a timer stands in its life (not made, made,      *)
(* armed, over), which neither property says of a timer still armed.       *)
(* ClockInv bounds what the clock and detectClockRollover() can have seen  *)
(* and gives NotEarly.  NoOversleep follows from WatchInv: unless some     *)
(* thread is about to look at the timers again, which is what m_tickled    *)
(* stands for, one sleeping thread is in time for all of them.             *)
(***************************************************************************)
EXTENDS Timers, WellFoundedInduction, TLAPS

\* The types the argument uses.
LifeTypes ==
    /\ m_timers \subseteq TimerIds
    /\ m_cb \in [TimerIds -> BOOLEAN]
    /\ call \in [TimerIds -> Calls]
    /\ fired \in [TimerIds -> 0 .. 2]
    /\ gone \in [TimerIds -> BOOLEAN]

Unmade(t) == ~m_cb[t] /\ t \notin m_timers /\ fired[t] = 0 /\ ~gone[t]

\* A timer that has its callback was neither taken nor cancelled, if it is
\* one-shot; one that has none was taken or cancelled but not both.
OneShotLife ==
    \A t \in TimerIds :
        /\ call[t] = "none" => Unmade(t)
        /\ call[t] = "made" => m_cb[t] /\ t \notin m_timers /\ fired[t] = 0 /\ ~gone[t]
        /\ t \notin Recurring /\ m_cb[t] => fired[t] = 0 /\ ~gone[t]
        /\ t \notin Recurring => fired[t] \in {0, 1} /\ (gone[t] => fired[t] = 0)

LifeInv == LifeTypes /\ ArmedExact /\ OneShotLife

\* Nothing but the calls on timers and listExpiredCb() touches a timer's life.
LEMMA LifeUnchanged ==
    ASSUME LifeInv, UNCHANGED <<m_timers, m_cb, call, fired, gone>>
    PROVE  LifeInv'
  BY DEF LifeInv, LifeTypes, ArmedExact, OneShotLife, Unmade

LEMMA LifeInit == Init => LifeInv
  BY DEF Init, LifeInv, LifeTypes, ArmedExact, OneShotLife, Unmade, Calls

\* addTimer() under its lock, for a timer that has its callback.
LEMMA LifeAdd ==
    ASSUME LifeInv, NEW t \in TimerIds, NEW next, AddTimer(t, next), m_cb[t],
           call[t] \in {"made", "returned"},
           UNCHANGED <<m_cb, fired, gone>>
    PROVE  LifeInv'
  <1>1. call'[t] \in {"front", "returned"} /\ call' \in [TimerIds -> Calls]
    BY DEF AddTimer, LifeInv, LifeTypes, Calls
  <1>2. \A s \in TimerIds \ {t} : call'[s] = call[s] /\ (s \in m_timers' <=> s \in m_timers)
    BY DEF AddTimer, LifeInv, LifeTypes
  <1>3. m_timers' \subseteq TimerIds /\ t \in m_timers'
    BY DEF AddTimer, LifeInv, LifeTypes
  <1>4. LifeTypes'
    BY <1>1, <1>3 DEF LifeInv, LifeTypes
  <1>5. ArmedExact'
    BY <1>1, <1>2, <1>3 DEF LifeInv, LifeTypes, ArmedExact
  <1>6. OneShotLife'
    BY <1>1, <1>2 DEF LifeInv, LifeTypes, OneShotLife, Unmade
  <1> QED BY <1>4, <1>5, <1>6 DEF LifeInv

\* listExpiredCb() takes armed timers only, and a one-shot timer for good.
LEMMA LifeExpire ==
    ASSUME LifeInv, ListExpiredCb, UNCHANGED <<call, gone>>
    PROVE  LifeInv'
  <1> DEFINE expired == Expired
             again == expired \cap Recurring
  <1>1. expired \subseteq m_timers
    BY DEF Expired
  <1>2. m_timers' = (m_timers \ expired) \cup again
    BY DEF ListExpiredCb
  <1>3. \A t \in TimerIds : m_cb'[t] <=> (m_cb[t] /\ t \notin expired \ again)
    BY DEF ListExpiredCb, LifeInv, LifeTypes
  <1>4. \A t \in TimerIds :
            fired'[t] = IF t \in expired THEN (IF fired[t] = 0 THEN 1 ELSE 2) ELSE fired[t]
    BY DEF ListExpiredCb, Again
  <1>5. m_cb' \in [TimerIds -> BOOLEAN] /\ fired' \in [TimerIds -> 0 .. 2]
    BY DEF ListExpiredCb, LifeInv, LifeTypes, Again
  <1> HIDE DEF expired
  <1>6. LifeTypes'
    BY <1>1, <1>2, <1>5 DEF LifeInv, LifeTypes
  <1>7. ArmedExact'
    BY <1>1, <1>2, <1>3 DEF LifeInv, LifeTypes, ArmedExact, OneShotLife
  <1>8. OneShotLife'
    <2> SUFFICES ASSUME NEW t \in TimerIds
                 PROVE  /\ call[t] = "none" => Unmade(t)'
                        /\ call[t] = "made" => m_cb'[t] /\ t \notin m_timers' /\ fired'[t] = 0 /\ ~gone[t]
                        /\ t \notin Recurring /\ m_cb'[t] => fired'[t] = 0 /\ ~gone[t]
                        /\ t \notin Recurring => fired'[t] \in {0, 1} /\ (gone[t] => fired'[t] = 0)
      BY DEF OneShotLife
    <2>1. CASE t \notin expired
      BY <2>1, <1>1, <1>2, <1>3, <1>4 DEF LifeInv, LifeTypes, OneShotLife, Unmade
    <2>2. CASE t \in expired
      <3>1. t \in m_timers /\ call[t] # "made" /\ call[t] # "none" /\ m_cb[t]
        BY <2>2, <1>1 DEF LifeInv, ArmedExact, OneShotLife, Unmade
      <3>2. t \notin Recurring => ~m_cb'[t] /\ fired[t] = 0 /\ ~gone[t]
        BY <2>2, <3>1, <1>3 DEF LifeInv, OneShotLife
      <3> QED BY <2>2, <3>1, <3>2, <1>4
    <2> QED BY <2>1, <2>2
  <1> QED BY <1>6, <1>7, <1>8 DEF LifeInv

LEMMA LifeMake ==
    ASSUME LifeInv, NEW t \in TimerIds, MakeTimer(t)
    PROVE  LifeInv'
  BY DEF MakeTimer, LifeInv, LifeTypes, ArmedExact, OneShotLife, Unmade, Calls

LEMMA LifeTickle ==
    ASSUME LifeInv, NEW t \in TimerIds, Tickle(t)
    PROVE  LifeInv'
  BY DEF Tickle, LifeInv, LifeTypes, ArmedExact, OneShotLife, Unmade, Calls

LEMMA LifeCancel ==
    ASSUME LifeInv, NEW t \in TimerIds, Cancel(t)
    PROVE  LifeInv'
  BY DEF Cancel, LifeInv, LifeTypes, ArmedExact, OneShotLife, Unmade, Calls

\* Every step keeps LifeInv.
LEMMA LifeNext ==
    ASSUME LifeInv, [Next]_vars
    PROVE  LifeInv'
  <1>1. CASE UNCHANGED vars
    BY <1>1, LifeUnchanged DEF vars, timerVars
  <1>2. ASSUME NEW t \in TimerIds, MakeTimer(t) PROVE LifeInv'
    BY <1>2, LifeMake
  <1>3. ASSUME NEW t \in TimerIds, InsertTimer(t) PROVE LifeInv'
    <2>1. m_cb[t]
      BY <1>3 DEF InsertTimer, LifeInv, OneShotLife
    <2> QED BY <1>3, <2>1, LifeAdd DEF InsertTimer
  <1>4. ASSUME NEW t \in TimerIds, Tickle(t) PROVE LifeInv'
    BY <1>4, LifeTickle
  <1>5. ASSUME NEW t \in TimerIds, Cancel(t) PROVE LifeInv'
    BY <1>5, LifeCancel
  <1>6. ASSUME NEW t \in TimerIds, Refresh(t) PROVE LifeInv'
    BY <1>6, LifeUnchanged DEF Refresh
  <1>7. ASSUME NEW t \in TimerIds, Reset(t) PROVE LifeInv'
    <2>1. PICK next : AddTimer(t, next)
      BY <1>7 DEF Reset
    <2> QED BY <1>7, <2>1, LifeAdd DEF Reset, Live
  <1>8. ASSUME NEW th \in Threads, Sleep(th) \/ Drain(th) PROVE LifeInv'
    BY <1>8, LifeUnchanged DEF Sleep, Drain, timerVars
  <1>9. ASSUME NEW th \in Threads, Wake(th) PROVE LifeInv'
    BY <1>9, LifeExpire DEF Wake
  <1>10. CASE Tick \/ \E by \in Jumps : SetBack(by)
    BY <1>10, LifeUnchanged DEF Tick, SetBack, timerVars
  <1> QED
    BY <1>1, <1>2, <1>3, <1>4, <1>5, <1>6, <1>7, <1>8, <1>9, <1>10 DEF Next, OwnerStep, IdleStep

LEMMA LifeAlways == Spec => []LifeInv
  BY LifeInit, LifeNext, PTL DEF Spec

\* listExpiredCb() never schedules an empty callback and cancel(), refresh() and
\* reset() never miss a live timer: a timer is in m_timers exactly while it has
\* its callback.
THEOREM TimersArmedExact == Spec => []ArmedExact
  <1>1. LifeInv => ArmedExact
    BY DEF LifeInv
  <1> QED BY <1>1, LifeAlways, PTL

\* cancel() returning true and the callback being scheduled exclude each other
\* for a one-shot timer, which is never scheduled twice.
THEOREM TimersCancelIsFinal == Spec => []CancelIsFinal
  <1>1. LifeInv => CancelIsFinal
    <2> SUFFICES ASSUME LifeInv, NEW t \in TimerIds, t \notin Recurring
                 PROVE  fired[t] + (IF gone[t] THEN 1 ELSE 0) <= 1
      BY DEF CancelIsFinal
    <2>1. fired[t] \in {0, 1} /\ (gone[t] => fired[t] = 0)
      BY DEF LifeInv, OneShotLife
    <2> QED BY <2>1
  <1> QED BY <1>1, LifeAlways, PTL

-----------------------------------------------------------------------------
(* The clock and the sleeping threads *)

\* The clock and the timers.  m_next lies at most m_ms ahead unless the clock was
\* set back, and detectClockRollover() remembers no time that was not read.
ClockInv ==
    /\ clock <= Start + ticks
    /\ m_previouseTime <= Start + ticks
    /\ \A t \in TimerIds :
        /\ m_ms[t] <= m_next[t]
        /\ back = 0 => m_next[t] <= clock + m_ms[t]

\* Some thread will call getNextTimer() before it sleeps: it is awake, the pipe
\* has an edge, or a tickle is about to be written.
Alert ==
    \/ edge
    \/ \E th \in Threads : pc[th] # "wait"
    \/ \E t \in TimerIds : call[t] = "front"

\* A thread's sleep ends in time for timer t.
InTime(th, t) ==
    \/ left[th] = 0
    \/ left[th] \in 1 .. m_next[t] - clock
    \/ back > 0 /\ left[th] \in 1 .. MAX_TIMEOUT
    \/ endless /\ left[th] = Forever

\* No sleep is longer than MAX_TIMEOUT, except those without end.
SleepInv ==
    \A th \in Threads : left[th] \in 0 .. MAX_TIMEOUT \/ (endless /\ left[th] = Forever)

\* m_tickled stands for a thread that will look again; if there is none, one
\* sleeping thread wakes in time for every timer.
WatchInv ==
    /\ m_tickled => Alert
    /\ Alert \/ \E th \in Threads : \A t \in m_timers : InTime(th, t)

-----------------------------------------------------------------------------
(* Operators *)

LEMMA Numbers ==
    /\ MAX_TIMEOUT \in Nat /\ IntMax \in Nat /\ Rollover \in Nat /\ Start \in Nat
    /\ MaxTicks \in Nat /\ MaxCalls \in Nat /\ MaxJumps \in Nat
    /\ MAX_TIMEOUT <= IntMax
    /\ TimerIds \subseteq Nat /\ Delays \subseteq Nat /\ Jumps \subseteq Nat \ {0}
    /\ Threads # {}
  BY TimersAssumption

\* The conversion to int: exact within its range, and never more than the value.
LEMMA ToIntBounds ==
    ASSUME NEW v \in Nat
    PROVE  /\ ToInt(v) \in Int
           /\ ToInt(v) <= IntMax
           /\ ToInt(v) <= v
           /\ v <= IntMax => ToInt(v) = v
  <1> DEFINE m == 2 * (IntMax + 1)
             w == v + IntMax + 1
  <1>1. m \in Nat /\ m > 0 /\ w \in Nat /\ m = 2 * IntMax + 2
    BY Numbers
  <1> HIDE DEF m, w
  <1>2. w % m \in 0 .. m - 1
    BY <1>1
  <1>3. w % m <= w
    BY <1>1
  <1>4. w < m => w % m = w
    BY <1>1
  <1>5. ToInt(v) = (w % m) - (IntMax + 1)
    BY DEF ToInt, m, w
  <1>6. w = v + IntMax + 1 
    BY DEF w
  <1> QED BY <1>1, <1>2, <1>3, <1>4, <1>5, <1>6, Numbers

\* A set of timers that is not empty has a first one.
LEMMA FirstExists ==
    ASSUME NEW set \in SUBSET TimerIds, set # {}, NEW next \in [TimerIds -> Nat]
    PROVE  \E t \in set : Begins(t, set, next)
  <1> DEFINE R == {ss \in Nat \X Nat : ss[1] < ss[2]}
  <1>0. \A i, j \in Nat : ~(<<i, j>> \in R) => j <= i
    OBVIOUS
  <1>1. IsWellFoundedOn(R, Nat)
    BY NatLessThanWellFounded DEF OpToRel
  <1> HIDE DEF R
  <1> DEFINE nexts == {next[t] : t \in set}
  <1>2. nexts \subseteq Nat /\ nexts # {}
    OBVIOUS
  <1> HIDE DEF nexts
  <1>3. PICK n \in nexts : \A k \in nexts : ~(<<k, n>> \in R)
    BY <1>1, <1>2, WFMin
  <1>4. n \in Nat /\ \A k \in nexts : n <= k
    BY <1>0, <1>2, <1>3
  <1> DEFINE ids == {t \in set : next[t] = n}
  <1>5. ids \subseteq Nat /\ ids # {}
    BY Numbers DEF nexts
  <1> HIDE DEF ids
  <1>6. PICK t \in ids : \A k \in ids : ~(<<k, t>> \in R)
    BY <1>1, <1>5, WFMin
  <1>7. t \in Nat /\ \A k \in ids : t <= k
    BY <1>0, <1>5, <1>6
  <1>8. t \in set /\ next[t] = n
    BY <1>6 DEF ids
  <1>9. ASSUME NEW s \in set \ {t} PROVE Before(t, s, next)
    <2>1. s \in Nat /\ next[s] \in Nat /\ n <= next[s]
      BY <1>4, Numbers DEF nexts
    <2>2. next[s] = n => t <= s
      BY <1>7 DEF ids
    <2> QED BY <2>1, <2>2, <1>4, <1>7, <1>8 DEF Before
  <1> QED BY <1>8, <1>9 DEF Begins

\* What idle() hands to epoll_wait(): at most MAX_TIMEOUT and in time for every
\* timer, or without end because the first timer is out of the range of int.
LEMMA SleepForInTime ==
    ASSUME TypeOK, NEW th \in Threads
    PROVE  /\ SleepFor(th) \in 0 .. MAX_TIMEOUT \/ (BeyondInt /\ SleepFor(th) = Forever)
           /\ \A t \in m_timers : \/ SleepFor(th) = 0
                                  \/ SleepFor(th) \in 1 .. m_next[t] - clock
                                  \/ BeyondInt /\ SleepFor(th) = Forever
  <1>0. /\ m_timers \in SUBSET TimerIds /\ m_next \in [TimerIds -> Nat] /\ clock \in Nat
        /\ \A t \in m_timers : m_next[t] \in Nat
    BY DEF TypeOK
  <1>1. CASE m_timers = {}
    BY <1>1, Numbers DEF SleepFor
  <1>2. CASE m_timers # {}
    <2> DEFINE first == CHOOSE t \in m_timers : Begins(t, m_timers, m_next)
               timeout == IF clock >= m_next[first] THEN 0 ELSE m_next[first] - clock
               cut == IF ToInt(timeout) > MAX_TIMEOUT THEN MAX_TIMEOUT ELSE ToInt(timeout)
    <2>1. first \in m_timers /\ Begins(first, m_timers, m_next)
      BY <1>0, <1>2, FirstExists
    <2>2. SleepFor(th) = IF cut < 0 THEN Forever ELSE cut
      BY <1>2 DEF SleepFor
    <2> HIDE DEF first
    <2>3. \A t \in m_timers : m_next[first] <= m_next[t]
      BY <1>0, <2>1 DEF Begins, Before
    <2>4. timeout \in Nat /\ m_next[first] \in Nat
      BY <1>0, <2>1
    <2>5. /\ timeout = 0 \/ timeout = m_next[first] - clock
          /\ timeout > IntMax => m_next[first] - clock > IntMax
      BY <1>0, <2>4, Numbers
    <2> HIDE DEF timeout
    <2>6. /\ ToInt(timeout) \in Int /\ ToInt(timeout) <= timeout
          /\ timeout <= IntMax => ToInt(timeout) = timeout
      BY <2>4, ToIntBounds
    <2>7. cut \in Int /\ cut <= MAX_TIMEOUT /\ cut <= timeout
      BY <2>4, <2>6, Numbers
    <2>8. cut < 0 => BeyondInt
      <3>1. cut < 0 => timeout > IntMax
        BY <2>4, <2>6, Numbers
      <3> QED BY <3>1, <2>1, <2>5 DEF BeyondInt
    <2> HIDE DEF cut
    <2>9. CASE cut < 0
      BY <2>2, <2>8, <2>9
    <2>10. CASE ~(cut < 0)
      <3>1. SleepFor(th) = cut /\ cut \in 0 .. MAX_TIMEOUT
        BY <2>2, <2>7, <2>10, Numbers
      <3>2. ASSUME NEW t \in m_timers, cut # 0 PROVE cut \in 1 .. m_next[t] - clock
        BY <1>0, <2>3, <2>4, <2>5, <2>7, <2>10, <3>2
      <3> QED BY <3>1, <3>2
    <2> QED BY <2>9, <2>10
  <1> QED BY <1>1, <1>2

-----------------------------------------------------------------------------
(* The clock and the types *)

Core == TypeOK /\ ClockInv

LEMMA CoreInit == Init => Core
  <1> SUFFICES ASSUME Init PROVE Core
    OBVIOUS
  <1>1. /\ clock \in Nat /\ m_timers \subseteq TimerIds
        /\ m_next \in [TimerIds -> Nat] /\ m_ms \in [TimerIds -> Nat]
        /\ m_previouseTime \in Nat /\ call \in [TimerIds -> Calls]
        /\ fired \in [TimerIds -> 0 .. 2]
    BY Numbers DEF Init, Calls
  <1>2. /\ m_cb \in [TimerIds -> BOOLEAN] /\ m_tickled \in BOOLEAN /\ edge \in BOOLEAN
        /\ gone \in [TimerIds -> BOOLEAN] /\ endless \in BOOLEAN
    BY DEF Init
  <1>3. /\ pc \in [Threads -> ThreadPC]
        /\ left \in [Threads -> (0 .. IntMax) \cup {Forever}]
        /\ ticks \in 0 .. MaxTicks /\ calls \in 0 .. MaxCalls /\ back \in 0 .. MaxJumps
    BY Numbers DEF Init, ThreadPC
  <1>4. TypeOK
    BY <1>1, <1>2, <1>3 DEF TypeOK
  <1>5. ClockInv
    BY Numbers DEF Init, ClockInv
  <1> QED BY <1>4, <1>5 DEF Core

\* addTimer() with a deadline that its owner computed from the clock.
LEMMA CoreAdd ==
    ASSUME Core, NEW t \in TimerIds, NEW next \in [TimerIds -> Nat], AddTimer(t, next)
    PROVE  /\ m_timers' \subseteq TimerIds
           /\ m_next' = next
           /\ m_tickled' \in BOOLEAN
           /\ call' \in [TimerIds -> Calls]
  <1>1. m_tickled' \in BOOLEAN
    BY DEF AddTimer
  <1>2. m_timers' \subseteq TimerIds /\ m_next' = next
    BY DEF AddTimer, Core, TypeOK
  <1>3. call' = [call EXCEPT ![t] = "front"] \/ call' = [call EXCEPT ![t] = "returned"]
    BY DEF AddTimer
  <1>4. call' \in [TimerIds -> Calls]
    BY <1>3 DEF Core, TypeOK, Calls
  <1> QED BY <1>1, <1>2, <1>4

LEMMA CoreOwner ==
    ASSUME Core, NEW t \in TimerIds, MakeTimer(t) \/ Tickle(t) \/ Cancel(t)
    PROVE  Core'
  <1>1. CASE MakeTimer(t)
    <2>1. PICK ms \in Delays : /\ m_ms' = [m_ms EXCEPT ![t] = ms]
                               /\ m_next' = [m_next EXCEPT ![t] = clock + ms]
      BY <1>1 DEF MakeTimer
    <2>2. ms \in Nat /\ clock \in Nat /\ clock + ms \in Nat
      BY Numbers DEF Core, TypeOK
    <2>3. m_ms' \in [TimerIds -> Nat] /\ m_next' \in [TimerIds -> Nat]
      BY <2>1, <2>2 DEF Core, TypeOK
    <2>4. call' \in [TimerIds -> Calls] /\ m_cb' \in [TimerIds -> BOOLEAN]
      BY <1>1 DEF MakeTimer, Core, TypeOK, Calls
    <2>5. UNCHANGED <<clock, m_timers, fired, gone, managerVars, threadVars, edge, boundVars>>
      BY <1>1 DEF MakeTimer
    <2>6. TypeOK'
      BY <2>3, <2>4, <2>5 DEF Core, TypeOK, managerVars, threadVars, boundVars
    <2>7. ClockInv'
      BY <2>1, <2>2, <2>5 DEF Core, TypeOK, ClockInv, managerVars, boundVars
    <2> QED BY <2>6, <2>7 DEF Core
  <1>2. CASE Tickle(t)
    <2>1. call' \in [TimerIds -> Calls]
      BY <1>2 DEF Tickle, Core, TypeOK, Calls
    <2>2. edge' \in BOOLEAN
      BY <1>2 DEF Tickle
    <2>3. UNCHANGED <<clock, m_timers, m_next, m_ms, m_cb, fired, gone,
                      managerVars, threadVars, boundVars>>
      BY <1>2 DEF Tickle
    <2> QED BY <2>1, <2>2, <2>3 DEF Core, TypeOK, ClockInv, managerVars, threadVars, boundVars
  <1>3. CASE Cancel(t)
    <2>1. m_next' \in [TimerIds -> Nat] /\ m_ms' \in [TimerIds -> Nat] /\ m_timers' \subseteq TimerIds
      BY <1>3 DEF Cancel, Core, TypeOK
    <2>2. m_cb' \in [TimerIds -> BOOLEAN]
      BY <1>3 DEF Cancel, Core, TypeOK
    <2>3. gone' \in [TimerIds -> BOOLEAN]
      BY <1>3 DEF Cancel, Core, TypeOK
    <2>4. UNCHANGED <<clock, call, fired, managerVars, threadVars, edge, boundVars>>
      BY <1>3 DEF Cancel
    <2>5. TypeOK'
      BY <2>1, <2>2, <2>3, <2>4 DEF Core, TypeOK, managerVars, threadVars, boundVars
    <2>6. ClockInv'
      BY <1>3, <2>4 DEF Cancel, Core, TypeOK, ClockInv, managerVars, boundVars
    <2> QED BY <2>5, <2>6 DEF Core
  <1> QED BY <1>1, <1>2, <1>3

LEMMA CoreInsert ==
    ASSUME Core, NEW t \in TimerIds, InsertTimer(t)
    PROVE  Core'
  <1>1. m_next \in [TimerIds -> Nat] /\ AddTimer(t, m_next)
    BY DEF Core, TypeOK, InsertTimer
  <1>2. /\ m_timers' \subseteq TimerIds /\ m_next' = m_next
        /\ m_tickled' \in BOOLEAN /\ call' \in [TimerIds -> Calls]
    BY <1>1, CoreAdd
  <1>3. UNCHANGED <<clock, m_ms, m_cb, fired, gone, m_previouseTime, threadVars, edge, boundVars>>
    BY DEF InsertTimer
  <1> QED BY <1>2, <1>3 DEF Core, TypeOK, ClockInv, threadVars, boundVars

LEMMA CoreRefresh ==
    ASSUME Core, NEW t \in TimerIds, Refresh(t)
    PROVE  Core'
  <1>1. m_ms[t] \in Nat /\ clock \in Nat /\ clock + m_ms[t] \in Nat
    BY DEF Core, TypeOK
  <1>2. m_next' = [m_next EXCEPT ![t] = clock + m_ms[t]] /\ m_next' \in [TimerIds -> Nat]
    BY <1>1 DEF Refresh, Core, TypeOK
  <1>3. calls' \in 0 .. MaxCalls
    BY Numbers DEF Refresh, Core, TypeOK
  <1>4. UNCHANGED <<clock, m_timers, m_ms, m_cb, call, fired, gone,
                    managerVars, threadVars, edge, ticks, back>>
    BY DEF Refresh
  <1>5. TypeOK'
    BY <1>2, <1>3, <1>4 DEF Core, TypeOK, managerVars, threadVars
  <1>6. ClockInv'
    BY <1>1, <1>2, <1>4 DEF Core, TypeOK, ClockInv, managerVars
  <1> QED BY <1>5, <1>6 DEF Core

\* reset() keeps the start of the timer's period, or takes now.
LEMMA CoreReset ==
    ASSUME Core, NEW t \in TimerIds, Reset(t)
    PROVE  Core'
  <1>1. PICK ms \in Delays, from_now \in BOOLEAN :
            LET start == IF from_now THEN clock ELSE m_next[t] - m_ms[t]
            IN  /\ AddTimer(t, [m_next EXCEPT ![t] = start + ms])
                /\ m_ms' = [m_ms EXCEPT ![t] = ms]
    BY DEF Reset
  <1> DEFINE start == IF from_now THEN clock ELSE m_next[t] - m_ms[t]
  <1>2. /\ start \in Nat /\ ms \in Nat /\ start + ms \in Nat
        /\ back = 0 => start <= clock
    BY Numbers DEF Core, TypeOK, ClockInv
  <1>3. AddTimer(t, [m_next EXCEPT ![t] = start + ms]) /\ m_ms' = [m_ms EXCEPT ![t] = ms]
    BY <1>1
  <1> HIDE DEF start
  <1>4. [m_next EXCEPT ![t] = start + ms] \in [TimerIds -> Nat]
    BY <1>2 DEF Core, TypeOK
  <1>5. /\ m_timers' \subseteq TimerIds /\ m_next' = [m_next EXCEPT ![t] = start + ms]
        /\ m_tickled' \in BOOLEAN /\ call' \in [TimerIds -> Calls]
    BY <1>3, <1>4, CoreAdd
  <1>6. calls' \in 0 .. MaxCalls
    BY Numbers DEF Reset, Core, TypeOK
  <1>7. UNCHANGED <<clock, m_cb, fired, gone, m_previouseTime, threadVars, edge, ticks, back>>
    BY DEF Reset
  <1>8. m_ms' \in [TimerIds -> Nat]
    BY <1>2, <1>3 DEF Core, TypeOK
  <1>9. TypeOK'
    BY <1>4, <1>5, <1>6, <1>7, <1>8 DEF Core, TypeOK, threadVars
  <1>10. ClockInv'
    <2>1. /\ m_next'[t] = start + ms /\ m_ms'[t] = ms
          /\ \A s \in TimerIds \ {t} : m_next'[s] = m_next[s] /\ m_ms'[s] = m_ms[s]
      BY <1>3, <1>5 DEF Core, TypeOK
    <2> QED BY <1>2, <1>7, <2>1 DEF Core, TypeOK, ClockInv
  <1> QED BY <1>9, <1>10 DEF Core

LEMMA CoreSleep ==
    ASSUME Core, NEW th \in Threads, Sleep(th)
    PROVE  Core'
  <1>1. SleepFor(th) \in (0 .. IntMax) \cup {Forever}
    <2>1. SleepFor(th) \in 0 .. MAX_TIMEOUT \/ SleepFor(th) = Forever
      BY SleepForInTime DEF Core
    <2> QED BY <2>1, Numbers
  <1>2. left' = [left EXCEPT ![th] = SleepFor(th)]
    BY DEF Sleep
  <1>3. left' \in [Threads -> (0 .. IntMax) \cup {Forever}]
    BY <1>1, <1>2 DEF Core, TypeOK
  <1>4. pc' \in [Threads -> ThreadPC]
    BY DEF Sleep, Core, TypeOK, ThreadPC
  <1>5. endless' \in BOOLEAN /\ m_tickled' \in BOOLEAN
    BY DEF Sleep
  <1>6. UNCHANGED <<clock, timerVars, m_previouseTime, edge, boundVars>>
    BY DEF Sleep
  <1> QED BY <1>3, <1>4, <1>5, <1>6 DEF Core, TypeOK, ClockInv, timerVars, boundVars

LEMMA CoreWake ==
    ASSUME Core, NEW th \in Threads, Wake(th)
    PROVE  Core'
  <1> DEFINE expired == Expired
             again == expired \cap Recurring
  <1>1. /\ m_previouseTime' = m_previouseTime \/ m_previouseTime' = clock
        /\ m_timers' = (m_timers \ expired) \cup again
        /\ m_next' = [t \in TimerIds |-> IF t \in again THEN clock + m_ms[t]
                                         ELSE IF t \in expired THEN 0 ELSE m_next[t]]
        /\ m_ms' = [t \in TimerIds |-> IF t \in expired \ again THEN 0 ELSE m_ms[t]]
    BY DEF Wake, ListExpiredCb
  <1>2. m_cb' \in [TimerIds -> BOOLEAN]
    BY DEF Wake, ListExpiredCb, Core, TypeOK
  <1>3. fired' \in [TimerIds -> 0 .. 2]
    BY DEF Wake, ListExpiredCb, Core, TypeOK, Again
  <1>4. left' \in [Threads -> (0 .. IntMax) \cup {Forever}]
    BY Numbers DEF Wake, Core, TypeOK
  <1>5. pc' = [pc EXCEPT ![th] = "drain"] \/ pc' = [pc EXCEPT ![th] = "busy"]
    BY DEF Wake
  <1>6. pc' \in [Threads -> ThreadPC]
    BY <1>5 DEF Core, TypeOK, ThreadPC
  <1>7. UNCHANGED <<clock, call, gone, m_tickled, endless, boundVars>> /\ edge' \in BOOLEAN
    BY DEF Wake
  <1>8. expired \subseteq TimerIds
    BY DEF Expired, Core, TypeOK
  <1> HIDE DEF expired
  <1>9. m_timers' \subseteq TimerIds /\ m_previouseTime' \in Nat
    BY <1>1, <1>8 DEF Core, TypeOK
  <1>10. m_next' \in [TimerIds -> Nat] /\ m_ms' \in [TimerIds -> Nat]
    BY <1>1 DEF Core, TypeOK
  <1>11. TypeOK'
    BY <1>2, <1>3, <1>4, <1>6, <1>7, <1>9, <1>10 DEF Core, TypeOK, boundVars
  <1>12. \A t \in TimerIds : \/ m_next'[t] = clock + m_ms[t] /\ m_ms'[t] = m_ms[t]
                             \/ m_next'[t] = 0 /\ m_ms'[t] = 0
                             \/ m_next'[t] = m_next[t] /\ m_ms'[t] = m_ms[t]
    BY <1>1
  <1>13. ClockInv'
    BY <1>1, <1>7, <1>12 DEF Core, TypeOK, ClockInv, boundVars
  <1> QED BY <1>11, <1>13 DEF Core

LEMMA CoreDrain ==
    ASSUME Core, NEW th \in Threads, Drain(th)
    PROVE  Core'
  <1>1. pc' \in [Threads -> ThreadPC] /\ edge' \in BOOLEAN
    BY DEF Drain, Core, TypeOK, ThreadPC
  <1>2. UNCHANGED <<clock, timerVars, managerVars, left, endless, boundVars>>
    BY DEF Drain
  <1> QED BY <1>1, <1>2 DEF Core, TypeOK, ClockInv, timerVars, managerVars, boundVars

LEMMA CoreTime ==
    ASSUME Core, Tick \/ \E by \in Jumps : SetBack(by)
    PROVE  Core'
  <1>1. CASE Tick
    <2>1. clock' \in Nat /\ ticks' \in 0 .. MaxTicks /\ clock' = clock + 1 /\ ticks' = ticks + 1
      BY <1>1, Numbers DEF Tick, Core, TypeOK
    <2>2. left' \in [Threads -> (0 .. IntMax) \cup {Forever}]
      BY <1>1, Numbers DEF Tick, Core, TypeOK, Forever
    <2>3. UNCHANGED <<timerVars, managerVars, pc, endless, edge, calls, back>>
      BY <1>1 DEF Tick
    <2>4. TypeOK'
      BY <2>1, <2>2, <2>3 DEF Core, TypeOK, timerVars, managerVars
    <2>5. ClockInv'
      BY <2>1, <2>3, Numbers DEF Core, TypeOK, ClockInv, timerVars, managerVars
    <2> QED BY <2>4, <2>5 DEF Core
  <1>2. ASSUME NEW by \in Jumps, SetBack(by) PROVE Core'
    <2>1. /\ clock' \in Nat /\ clock' <= clock
          /\ back' \in 0 .. MaxJumps /\ back' > 0
      BY <1>2, Numbers DEF SetBack, Core, TypeOK
    <2>2. UNCHANGED <<timerVars, managerVars, threadVars, edge, ticks, calls>>
      BY <1>2 DEF SetBack
    <2>3. TypeOK'
      BY <2>1, <2>2 DEF Core, TypeOK, timerVars, managerVars, threadVars
    <2>4. ClockInv'
      BY <2>1, <2>2, Numbers DEF Core, TypeOK, ClockInv, timerVars, managerVars
    <2> QED BY <2>3, <2>4 DEF Core
  <1> QED BY <1>1, <1>2

LEMMA CoreNext ==
    ASSUME Core, [Next]_vars
    PROVE  Core'
  <1>1. CASE UNCHANGED vars
    BY <1>1 DEF Core, TypeOK, ClockInv, vars, timerVars, managerVars, threadVars, boundVars
  <1>2. ASSUME NEW t \in TimerIds, MakeTimer(t) \/ InsertTimer(t) \/ Tickle(t)
                                   \/ Cancel(t) \/ Refresh(t) \/ Reset(t)
        PROVE  Core'
    BY <1>2, CoreOwner, CoreInsert, CoreRefresh, CoreReset
  <1>3. ASSUME NEW th \in Threads, Sleep(th) \/ Wake(th) \/ Drain(th)
        PROVE  Core'
    BY <1>3, CoreSleep, CoreWake, CoreDrain
  <1>4. CASE Tick \/ \E by \in Jumps : SetBack(by)
    BY <1>4, CoreTime
  <1> QED BY <1>1, <1>2, <1>3, <1>4 DEF Next, OwnerStep, IdleStep

LEMMA CoreAlways == Spec => []Core
  BY CoreInit, CoreNext, PTL DEF Spec

-----------------------------------------------------------------------------
(* Sleeps and tickles *)

Watch == SleepInv /\ WatchInv

\* Once some thread will look at the timers again, nothing is required of the
\* sleeping ones.
LEMMA WatchAlert ==
    ASSUME SleepInv', Alert'
    PROVE  Watch'
  BY DEF Watch, WatchInv

\* The owners' calls leave the threads alone: an alert stays, and if the deadlines
\* do not come forward, the thread that was in time still is.
LEMMA WatchOwner ==
    ASSUME Core, Watch, UNCHANGED <<clock, pc, left, endless, edge, back>>,
           m_tickled' = m_tickled, Alert => Alert',
           \A t \in m_timers' : \E s \in m_timers : m_next[s] <= m_next'[t],
           m_next' \in [TimerIds -> Nat], m_timers' \subseteq TimerIds
    PROVE  Watch'
  <1>1. SleepInv'
    BY DEF Watch, SleepInv
  <1>2. CASE Alert'
    BY <1>1, <1>2, WatchAlert
  <1>3. CASE ~Alert'
    <2>1. PICK th \in Threads : \A t \in m_timers : InTime(th, t)
      BY <1>3 DEF Watch, WatchInv
    <2>2. ASSUME NEW t \in m_timers' PROVE InTime(th, t)'
      <3>1. PICK s \in m_timers : m_next[s] <= m_next'[t]
        BY <2>2
      <3>2. m_next[s] \in Nat /\ m_next'[t] \in Nat /\ clock \in Nat
        BY <2>2 DEF Core, TypeOK
      <3>3. left[th] \in 1 .. m_next[s] - clock => left[th] \in 1 .. m_next'[t] - clock
        BY <3>1, <3>2
      <3>4. InTime(th, s)
        BY <2>1
      <3> QED BY <3>3, <3>4 DEF InTime
    <2> QED BY <1>1, <1>3, <2>1, <2>2 DEF Watch, WatchInv
  <1> QED BY <1>2, <1>3

LEMMA WatchMakeCancel ==
    ASSUME Core, LifeInv, Watch, Core', NEW t \in TimerIds, MakeTimer(t) \/ Cancel(t)
    PROVE  Watch'
  <1>1. UNCHANGED <<clock, pc, left, endless, edge, back, m_tickled>>
    BY DEF MakeTimer, Cancel, threadVars, managerVars, boundVars
  <1>2. Alert => Alert'
    <2>1. \A s \in TimerIds : call[s] = "front" => call'[s] = "front"
      BY DEF MakeTimer, Cancel, Core, TypeOK
    <2> QED BY <1>1, <2>1 DEF Alert
  <1>3. t \notin m_timers' /\ m_timers' \subseteq m_timers
    BY DEF MakeTimer, Cancel, LifeInv, OneShotLife, Unmade
  <1>4. \A s \in m_timers' : s \in m_timers /\ m_next[s] = m_next'[s] /\ m_next[s] \in Nat
    BY <1>3 DEF MakeTimer, Cancel, Core, TypeOK
  <1>5. \A s \in m_timers' : \E u \in m_timers : m_next[u] <= m_next'[s]
    BY <1>4
  <1>6. m_next' \in [TimerIds -> Nat] /\ m_timers' \subseteq TimerIds
    BY DEF Core, TypeOK
  <1> QED BY <1>1, <1>2, <1>5, <1>6, WatchOwner

\* addTimer(): at the front it alerts, unless m_tickled says that an alert is
\* under way; behind the front some earlier timer is watched already.
LEMMA WatchAdd ==
    ASSUME Core, Watch, Core', NEW t \in TimerIds, NEW next, AddTimer(t, next),
           UNCHANGED <<clock, pc, left, endless, edge, back>>,
           call[t] # "front",
           \A s \in TimerIds \ {t} : next[s] = m_next[s]
    PROVE  Watch'
  <1>1. m_timers' = m_timers \cup {t} /\ m_next' = next
    BY DEF AddTimer
  <1>2. m_next' \in [TimerIds -> Nat] /\ m_timers' \subseteq TimerIds
    BY DEF Core, TypeOK
  <1>3. SleepInv'
    BY DEF Watch, SleepInv
  <1>4. \A s \in TimerIds : call[s] = "front" => call'[s] = "front"
    BY DEF AddTimer, Core, TypeOK
  <1>5. Alert => Alert'
    BY <1>4 DEF Alert
  <1>6. CASE m_tickled
    BY <1>3, <1>5, <1>6, WatchAlert DEF Watch, WatchInv
  <1>7. CASE ~m_tickled /\ Begins(t, m_timers \cup {t}, next)
    <2>1. call'[t] = "front"
      BY <1>7 DEF AddTimer, Core, TypeOK
    <2>2. Alert'
      BY <2>1 DEF Alert
    <2> QED BY <1>3, <2>2, WatchAlert
  <1>8. CASE ~m_tickled /\ ~Begins(t, m_timers \cup {t}, next)
    <2>1. PICK s \in m_timers \ {t} : ~Before(t, s, next)
      BY <1>8 DEF Begins
    <2>2. next[s] = m_next[s] /\ next[s] <= next[t] /\ next[s] \in Nat
      BY <1>1, <1>2, <2>1, Numbers DEF Before
    <2>3. ASSUME NEW u \in m_timers' PROVE \E v \in m_timers : m_next[v] <= m_next'[u]
      <3>1. CASE u = t
        BY <1>1, <2>1, <2>2, <3>1
      <3>2. CASE u # t
        <4>1. u \in m_timers /\ m_next'[u] = m_next[u] /\ m_next'[u] \in Nat
          BY <1>1, <1>2, <2>3, <3>2
        <4> QED BY <4>1
      <3> QED BY <3>1, <3>2
    <2>4. m_tickled' = m_tickled
      <3>1. m_tickled \in BOOLEAN
        BY DEF Core, TypeOK
      <3> QED BY <3>1, <1>8 DEF AddTimer
    <2> QED BY <1>2, <1>5, <2>3, <2>4, WatchOwner
  <1> QED BY <1>6, <1>7, <1>8

LEMMA WatchInsertReset ==
    ASSUME Core, Watch, Core', NEW t \in TimerIds, InsertTimer(t) \/ Reset(t)
    PROVE  Watch'
  <1>1. UNCHANGED <<clock, pc, left, endless, edge, back>> /\ call[t] # "front"
    BY DEF InsertTimer, Reset, Live, threadVars, boundVars
  <1>2. PICK next : AddTimer(t, next) /\ \A s \in TimerIds \ {t} : next[s] = m_next[s]
    <2>1. CASE InsertTimer(t)
      BY <2>1 DEF InsertTimer
    <2>2. CASE Reset(t)
      <3>1. PICK n : AddTimer(t, [m_next EXCEPT ![t] = n])
        BY <2>2 DEF Reset
      <3>2. \A s \in TimerIds \ {t} : [m_next EXCEPT ![t] = n][s] = m_next[s]
        BY DEF Core, TypeOK
      <3> QED BY <3>1, <3>2
    <2> QED BY <2>1, <2>2
  <1> QED BY <1>1, <1>2, WatchAdd

\* The tickle reaches the pipe, or all threads are awake.
LEMMA WatchTickle ==
    ASSUME Core, Watch, NEW t \in TimerIds, Tickle(t)
    PROVE  Watch'
  <1>1. edge' = (edge \/ \E th \in Threads : pc[th] # "busy") /\ UNCHANGED <<pc, left, endless>>
    BY DEF Tickle, threadVars
  <1>2. SleepInv'
    BY <1>1 DEF Watch, SleepInv
  <1>3. Alert'
    <2>1. CASE \E th \in Threads : pc[th] # "busy"
      BY <1>1, <2>1 DEF Alert
    <2>2. CASE \A th \in Threads : pc[th] = "busy"
      BY <1>1, <2>2, Numbers DEF Alert
    <2> QED BY <2>1, <2>2
  <1> QED BY <1>2, <1>3, WatchAlert

\* refresh() moves a deadline back, unless the clock went back; then MAX_TIMEOUT
\* bounds the sleeps.
LEMMA WatchRefresh ==
    ASSUME Core, Watch, Core', NEW t \in TimerIds, Refresh(t)
    PROVE  Watch'
  <1>1. UNCHANGED <<clock, m_timers, call, managerVars, threadVars, edge, ticks, back>>
    BY DEF Refresh
  <1>2. UNCHANGED <<pc, left, endless, m_tickled>>
    BY <1>1 DEF managerVars, threadVars
  <1>3. Alert => Alert'
    BY <1>1, <1>2 DEF Alert
  <1>4. SleepInv'
    BY <1>2 DEF Watch, SleepInv
  <1>5. back \in Nat /\ clock \in Nat
    BY Numbers DEF Core, TypeOK
  <1>6. CASE back = 0
    <2>1. m_next' = [m_next EXCEPT ![t] = clock + m_ms[t]]
      BY DEF Refresh
    <2>2. \A s \in m_timers' : s \in m_timers /\ m_next[s] <= m_next'[s]
      BY <1>1, <1>6, <2>1 DEF Core, TypeOK, ClockInv
    <2>3. m_next' \in [TimerIds -> Nat] /\ m_timers' \subseteq TimerIds
      BY DEF Core, TypeOK
    <2> QED BY <1>1, <1>2, <1>3, <2>2, <2>3, WatchOwner
  <1>7. CASE back > 0 /\ ~Alert'
    <2>1. PICK th \in Threads : TRUE
      BY Numbers
    <2>2. left[th] \in 0 .. MAX_TIMEOUT \/ (endless /\ left[th] = Forever)
      BY DEF Watch, SleepInv
    <2>3. \A s : InTime(th, s)'
      BY <1>1, <1>2, <1>7, <2>2, Numbers DEF InTime
    <2>4. ~m_tickled'
      BY <1>2, <1>3, <1>7 DEF Watch, WatchInv
    <2> QED BY <1>4, <2>3, <2>4 DEF Watch, WatchInv
  <1> QED BY <1>4, <1>5, <1>6, <1>7, WatchAlert

\* The thread that goes to sleep looks at the timers first.
LEMMA WatchSleep ==
    ASSUME Core, Watch, NEW th \in Threads, Sleep(th)
    PROVE  Watch'
  <1>1. /\ left' = [left EXCEPT ![th] = SleepFor(th)]
        /\ endless' = (endless \/ BeyondInt)
        /\ m_tickled' = FALSE
        /\ UNCHANGED <<clock, timerVars, boundVars>>
    BY DEF Sleep
  <1>2. left'[th] = SleepFor(th) /\ \A u \in Threads \ {th} : left'[u] = left[u]
    BY <1>1 DEF Core, TypeOK
  <1>3. /\ SleepFor(th) \in 0 .. MAX_TIMEOUT \/ (BeyondInt /\ SleepFor(th) = Forever)
        /\ \A t \in m_timers : \/ SleepFor(th) = 0
                               \/ SleepFor(th) \in 1 .. m_next[t] - clock
                               \/ BeyondInt /\ SleepFor(th) = Forever
    BY SleepForInTime DEF Core
  <1>4. SleepInv'
    <2> SUFFICES ASSUME NEW u \in Threads
                 PROVE  left'[u] \in 0 .. MAX_TIMEOUT \/ (endless' /\ left'[u] = Forever)
      BY DEF SleepInv
    <2>1. CASE u = th
      BY <1>1, <1>2, <1>3, <2>1
    <2>2. CASE u # th
      BY <1>1, <1>2, <2>2 DEF Watch, SleepInv
    <2> QED BY <2>1, <2>2
  <1>5. \A t \in m_timers' : InTime(th, t)'
    BY <1>1, <1>2, <1>3 DEF InTime, timerVars
  <1> QED BY <1>1, <1>4, <1>5 DEF Watch, WatchInv

\* A thread that is awake will look at the timers.
LEMMA WatchAwake ==
    ASSUME Core, Watch, NEW th \in Threads, Wake(th) \/ Drain(th)
    PROVE  Watch'
  <1>1. pc'[th] # "wait"
    BY DEF Wake, Drain, Core, TypeOK
  <1>2. \A u \in Threads : left'[u] = 0 \/ left'[u] = left[u]
    BY DEF Wake, Drain, Core, TypeOK
  <1>3. endless' = endless
    BY DEF Wake, Drain
  <1>4. SleepInv'
    BY <1>2, <1>3, Numbers DEF Watch, SleepInv
  <1>5. Alert'
    BY <1>1 DEF Alert
  <1> QED BY <1>4, <1>5, WatchAlert

\* Time shortens the sleeps and the time to the timers alike.
LEMMA WatchTick ==
    ASSUME Core, Watch, Tick
    PROVE  Watch'
  <1>1. /\ left' = [th \in Threads |-> IF left[th] > 0 THEN left[th] - 1 ELSE left[th]]
        /\ clock' = clock + 1
        /\ UNCHANGED <<timerVars, managerVars, pc, endless, edge, back>>
    BY DEF Tick
  <1>2. \A th \in Threads : left[th] \in Int
    BY DEF Core, TypeOK, Forever
  <1>3. SleepInv'
    BY <1>1, <1>2, Numbers DEF Watch, SleepInv, Forever
  <1>4. Alert' <=> Alert
    BY <1>1 DEF Alert, timerVars
  <1>5. ASSUME NEW th \in Threads, NEW t \in m_timers, InTime(th, t) PROVE InTime(th, t)'
    <2>1. m_next[t] \in Nat /\ clock \in Nat /\ m_next' = m_next
      BY <1>1 DEF Core, TypeOK, timerVars
    <2>2. CASE left[th] <= 0
      BY <1>1, <1>2, <1>5, <2>1, <2>2, Numbers DEF InTime, Forever
    <2>3. CASE left[th] > 0
      <3>1. left'[th] = left[th] - 1 /\ left[th] # Forever
        BY <1>1, <2>3 DEF Forever
      <3> QED BY <1>1, <1>2, <1>5, <2>1, <2>3, <3>1, Numbers DEF InTime
    <2> QED BY <1>2, <2>2, <2>3
  <1>6. m_timers' = m_timers /\ m_tickled' = m_tickled
    BY <1>1 DEF timerVars, managerVars
  <1> QED BY <1>3, <1>4, <1>5, <1>6 DEF Watch, WatchInv

LEMMA WatchSetBack ==
    ASSUME Core, Watch, NEW by \in Jumps, SetBack(by)
    PROVE  Watch'
  <1>1. /\ UNCHANGED <<timerVars, managerVars, threadVars, edge>>
        /\ clock' \in Nat /\ clock \in Nat /\ clock' <= clock /\ back' > 0
    BY Numbers DEF SetBack, Core, TypeOK
  <1>2. UNCHANGED <<m_timers, m_next, call, m_tickled, pc, left, endless>>
    BY <1>1 DEF timerVars, managerVars, threadVars
  <1>3. SleepInv'
    BY <1>2 DEF Watch, SleepInv
  <1>4. Alert' <=> Alert
    BY <1>1, <1>2 DEF Alert
  <1>5. ASSUME NEW th \in Threads, NEW t \in m_timers, InTime(th, t) PROVE InTime(th, t)'
    <2>1. m_next[t] \in Nat
      BY DEF Core, TypeOK
    <2> QED BY <1>1, <1>2, <1>5, <2>1, Numbers DEF InTime
  <1> QED BY <1>2, <1>3, <1>4, <1>5 DEF Watch, WatchInv

LEMMA WatchInit == Init => Watch
  <1> SUFFICES ASSUME Init PROVE Watch
    OBVIOUS
  <1>1. SleepInv
    BY Numbers DEF Init, SleepInv
  <1>2. WatchInv
    BY Numbers DEF Init, WatchInv, Alert
  <1> QED BY <1>1, <1>2 DEF Watch

TimeInv == Core /\ LifeInv /\ Watch

LEMMA TimeNext ==
    ASSUME TimeInv, [Next]_vars
    PROVE  TimeInv'
  <1>1. Core /\ LifeInv /\ Watch /\ Core' /\ LifeInv'
    BY CoreNext, LifeNext DEF TimeInv
  <1>2. CASE UNCHANGED vars
    <2>1. Watch'
      BY <1>1, <1>2 DEF Watch, SleepInv, WatchInv, Alert, InTime, vars, timerVars, managerVars,
                        threadVars, boundVars
    <2> QED BY <1>1, <2>1 DEF TimeInv
  <1>3. ASSUME NEW t \in TimerIds, MakeTimer(t) \/ InsertTimer(t) \/ Tickle(t)
                                   \/ Cancel(t) \/ Refresh(t) \/ Reset(t)
        PROVE  Watch'
    BY <1>1, <1>3, WatchMakeCancel, WatchInsertReset, WatchTickle, WatchRefresh
  <1>4. ASSUME NEW th \in Threads, Sleep(th) \/ Wake(th) \/ Drain(th)
        PROVE  Watch'
    BY <1>1, <1>4, WatchSleep, WatchAwake
  <1>5. CASE Tick \/ \E by \in Jumps : SetBack(by)
    <2>1. CASE Tick
      BY <1>1, <2>1, WatchTick DEF TimeInv
    <2>2. ASSUME NEW by \in Jumps, SetBack(by) PROVE Watch'
      BY <1>1, <2>2, WatchSetBack
    <2> QED BY <1>1, <1>5, <2>1, <2>2 DEF TimeInv
  <1> QED BY <1>1, <1>2, <1>3, <1>4, <1>5 DEF Next, OwnerStep, IdleStep, TimeInv

LEMMA TimeAlways == Spec => []TimeInv
  <1>1. Init => TimeInv
    BY CoreInit, LifeInit, WatchInit DEF TimeInv
  <1> QED BY <1>1, TimeNext, PTL DEF Spec

\* Timers, threads and the clock keep their types; in particular what idle() hands
\* to epoll_wait() is within int or without end.
THEOREM TimersTypeCorrect == Spec => []TypeOK
  <1>1. Core => TypeOK
    BY DEF Core
  <1> QED BY <1>1, CoreAlways, PTL

\* The tickle that m_tickled saves is never the one that is needed: with every
\* thread in epoll_wait() and no tickle on its way, one sleep ends in time for the
\* first timer.
THEOREM TimersNoOversleep == Spec => []NoOversleep
  <1>1. TimeInv => NoOversleep
    <2> SUFFICES ASSUME TimeInv, ~Alert, NEW t \in m_timers
                 PROVE  \E th \in Threads : InTime(th, t)
      BY DEF NoOversleep, Alert, InTime
    <2> QED BY DEF TimeInv, Watch, WatchInv
  <1> QED BY <1>1, TimeAlways, PTL

\* listExpiredCb() takes a callback before its time only after the clock was set
\* back by more than Rollover.
THEOREM TimersNotEarly == Spec => NotEarly
  <1>1. ASSUME Core, [Next]_vars, NEW t \in TimerIds, fired'[t] > fired[t]
        PROVE  clock >= m_next[t] \/ clock + Rollover < Start + ticks
    <2>1. fired[t] \in Nat
      BY <1>1 DEF Core, TypeOK
    <2>2. fired' # fired
      BY <1>1, <2>1
    <2>3. PICK th \in Threads : Wake(th)
      BY <1>1, <2>2 DEF Next, OwnerStep, IdleStep, MakeTimer, InsertTimer, Tickle, Cancel, Refresh,
                        Reset, Sleep, Drain, Tick, SetBack, vars, timerVars
    <2>4. t \in Expired
      BY <1>1, <2>1, <2>3 DEF Wake, ListExpiredCb
    <2>5. clock + Rollover < m_previouseTime \/ m_next[t] <= clock
      BY <2>4 DEF Expired, RolledBack
    <2> QED BY <1>1, <2>5, Numbers DEF Core, TypeOK, ClockInv
  <1>2. Core /\ [Next]_vars =>
          [\A t \in TimerIds :
             fired'[t] > fired[t] => clock >= m_next[t] \/ clock + Rollover < Start + ticks]_vars
    BY <1>1
  <1> QED BY <1>2, CoreAlways, PTL DEF Spec, NotEarly

=============================================================================
