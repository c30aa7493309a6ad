----------------------------- MODULE IOManager -----------------------------
(***************************************************************************)
(* Waiting for a descriptor: the hooked calls (do_io), IOManager's event   *)
(* contexts, the idle threads that poll epoll, the timers of the calls and *)
(* close().  One descriptor is modelled; each fiber uses it for one event, *)
(* as the code requires (a second fiber on the same event is an assertion  *)
(* failure in addEvent).                                                   *)
(*                                                                         *)
(* epoll is edge triggered: a descriptor is put on the ready list when a   *)
(* condition it is polled for becomes true, or is true at EPOLL_CTL_ADD or *)
(* _MOD, and one epoll_wait takes it off.  When a timer expires is left    *)
(* open here; Timers has the clock.                                        *)
(***************************************************************************)
EXTENDS Integers, FiniteSets

CONSTANTS Fibers,      \* fibers in hooked calls
          Waits,       \* fiber -> the event it waits for
          Threads,     \* threads in IOManager::idle
          Timed,       \* fibers whose calls have a timeout
          MaxCalls,    \* bound: calls of each fiber
          MaxEdges,    \* bound: times a condition becomes true
          MaxCloses,   \* bound: closes of the descriptor
          NDEBUG,      \* a Release build: assert() is empty
          None

Events == {"READ", "WRITE"}
HUP == "HUP"           \* EPOLLERR and EPOLLHUP

ASSUME WaitsAssumption ==
  /\ Waits \in [Fibers -> Events]
  /\ \A f, g \in Fibers : Waits[f] = Waits[g] => f = g
ASSUME TimedAssumption == Timed \subseteq Fibers
ASSUME BuildAssumption == NDEBUG \in BOOLEAN
ASSUME NoneAssumption ==
  None \notin Fibers /\ \A S \in SUBSET (Events \cup {HUP}) : S # None

VARIABLES
  events,     \* FdContext::events
  ctx,        \* event -> the fiber in its EventContext, or None
  pending,    \* m_pendingEventCount; the size_t of -n is 2^64 - n
  misfires,   \* history: triggers of events that were not registered
  interest,   \* the kernel's epoll entry: polled events, None if absent
  level,      \* conditions of the descriptor that hold
  listed,     \* the descriptor is on epoll's ready list
  fetched,    \* thread -> what epoll_wait reported to it, not handled yet
  pc,         \* fiber -> where it is in do_io
  timer,      \* fiber -> its timer is in the timer set
  queued,     \* fiber -> expired callbacks of its call that have not run
  cancelled,  \* fiber -> timer_info::cancelled of its call
  cancelling, \* event -> callbacks about to call cancelEvent
  wakes,      \* fiber -> times it is scheduled
  open,       \* the descriptor is open
  closing,    \* close() is between cancelAll and close_f
  calls, edges, closes,
  aborted,    \* an assertion failed in a build that has them
  raced       \* the descriptor was closed with events registered

vars == <<events, ctx, pending, misfires, interest, level, listed, fetched, pc,
          timer, queued, cancelled, cancelling, wakes, open, closing, calls,
          edges, closes, aborted, raced>>
ctxVars == <<events, ctx, pending, misfires, interest, listed>>
fdVars == <<level, open, closing, edges, closes, raced>>
timerVars == <<timer, queued, cancelled, cancelling>>

Init ==
  /\ events = {} /\ ctx = [e \in Events |-> None] /\ pending = 0 /\ misfires = 0
  /\ interest = None /\ level = {} /\ listed = FALSE
  /\ fetched = [t \in Threads |-> None]
  /\ pc = [f \in Fibers |-> "idle"]
  /\ timer = [f \in Fibers |-> FALSE]
  /\ queued = [f \in Fibers |-> 0]
  /\ cancelled = [f \in Fibers |-> FALSE]
  /\ cancelling = [e \in Events |-> 0]
  /\ wakes = [f \in Fibers |-> 0]
  /\ open = TRUE /\ closing = FALSE
  /\ calls = [f \in Fibers |-> 0] /\ edges = 0 /\ closes = 0
  /\ aborted = FALSE /\ raced = FALSE

\* FIBER_ASSERT ends the program, unless the build has NDEBUG.
Running == ~aborted

----------------------------------------------------------------------------
(***************************************************************************)
(* epoll_ctl with the events `new': EPOLL_CTL_DEL when it is empty, _ADD   *)
(* when nothing was registered, _MOD otherwise.  It fails on a closed      *)
(* descriptor and when the kernel's entry is not the expected one.         *)
(***************************************************************************)
EpollCtlOk == open /\ ((interest = None) <=> (events = {}))

\* Mutant of EpollCtl: _MOD with no events where the code uses _DEL.
EpollCtlNoDel(new) ==
  /\ interest' = new
  /\ listed' = (listed \/ level \cap (new \cup {HUP}) # {})

EpollCtl(new) ==
  /\ interest' = IF new = {} THEN None ELSE new
  /\ listed' = (new # {} /\ (listed \/ level \cap (new \cup {HUP}) # {}))

Woken(evs) ==
  [f \in Fibers |-> wakes[f] + Cardinality({e \in evs : ctx[e] = f})]

\* Mutant of Trigger: the context keeps its fiber and the event its bit.
TriggerKeeps(evs) ==
  /\ wakes' = Woken(evs)
  /\ pending' = pending - Cardinality(evs)
  /\ UNCHANGED <<ctx, events, misfires, aborted>>

\* Mutant of Trigger: m_pendingEventCount goes down once for two events.
TriggerOnce(evs) ==
  /\ wakes' = Woken(evs)
  /\ ctx' = [e \in Events |-> IF e \in evs THEN None ELSE ctx[e]]
  /\ events' = events \ evs
  /\ pending' = pending - 1
  /\ misfires' = misfires + Cardinality(evs \ events)
  /\ UNCHANGED aborted

(***************************************************************************)
(* triggerEvent and --m_pendingEventCount for every event of `evs'.  The   *)
(* fiber in the context is scheduled and the context emptied.  An event    *)
(* that is not registered fails the assertion; in a Release build its      *)
(* context is empty, nobody is scheduled, and the count goes down.         *)
(***************************************************************************)
Trigger(evs) ==
  IF NDEBUG \/ evs \subseteq events
  THEN /\ wakes' = Woken(evs)
       /\ ctx' = [e \in Events |-> IF e \in evs THEN None ELSE ctx[e]]
       /\ events' = events \ evs
       /\ pending' = pending - Cardinality(evs)
       /\ misfires' = misfires + Cardinality(evs \ events)
       /\ UNCHANGED aborted
  ELSE aborted' = TRUE /\ UNCHANGED <<wakes, ctx, events, pending, misfires>>

----------------------------------------------------------------------------
(***************************************************************************)
(* do_io.  A call owns its timer_info: when it returns, callbacks of its   *)
(* timers find it gone and do nothing.                                     *)
(***************************************************************************)
Return(f) ==
  /\ pc' = [pc EXCEPT ![f] = "idle"]
  /\ timer' = [timer EXCEPT ![f] = FALSE]
  /\ queued' = [queued EXCEPT ![f] = 0]
  /\ cancelled' = [cancelled EXCEPT ![f] = FALSE]

Call(f) ==
  /\ Running
  /\ pc[f] = "idle"
  /\ calls[f] < MaxCalls
  /\ open /\ ~closing
  /\ calls' = [calls EXCEPT ![f] = @ + 1]
  /\ pc' = [pc EXCEPT ![f] = "try"]
  /\ UNCHANGED <<ctxVars, fdVars, timerVars, fetched, wakes, aborted>>

(***************************************************************************)
(* retry: the system call.  It fails on a closed descriptor, succeeds when *)
(* the condition holds (and may use it up), and would block otherwise.     *)
(***************************************************************************)
Try(f) ==
  /\ Running
  /\ pc[f] = "try"
  /\ \/ /\ ~open \/ level \cap {Waits[f], HUP} # {}
        /\ Return(f)
        /\ level' \in {level, level \ {Waits[f]}}
     \/ /\ open /\ level \cap {Waits[f], HUP} = {}
        /\ pc' = [pc EXCEPT ![f] = "arm"]
        /\ UNCHANGED <<level, timer, queued, cancelled>>
  /\ UNCHANGED <<ctxVars, cancelling, fetched, wakes, open, closing, calls,
                 edges, closes, aborted, raced>>

(***************************************************************************)
(* addConditionTimer, before the event is added.                           *)
(***************************************************************************)
Arm(f) ==
  /\ Running
  /\ pc[f] = "arm"
  /\ timer' = [timer EXCEPT ![f] = f \in Timed]
  /\ pc' = [pc EXCEPT ![f] = "add"]
  /\ UNCHANGED <<ctxVars, fdVars, queued, cancelled, cancelling, fetched,
                 wakes, calls, aborted>>

(***************************************************************************)
(* addEvent, under the descriptor's mutex, then YieldToHold.  A failing    *)
(* epoll_ctl cancels the timer and ends the call.  The assertion that the  *)
(* context is empty comes last; a Release build overwrites the context.    *)
(***************************************************************************)
AddEvent(f) ==
  /\ Running
  /\ pc[f] = "add"
  /\ IF ~EpollCtlOk
       THEN Return(f) /\ UNCHANGED <<ctxVars, aborted>>
     ELSE IF ~NDEBUG /\ ctx[Waits[f]] # None
       THEN aborted' = TRUE /\ UNCHANGED <<ctxVars, pc, timer, queued, cancelled>>
     ELSE /\ EpollCtl(events \cup {Waits[f]})
          /\ events' = events \cup {Waits[f]}
          /\ ctx' = [ctx EXCEPT ![Waits[f]] = f]
          /\ pending' = pending + 1
          /\ pc' = [pc EXCEPT ![f] = "hold"]
          /\ UNCHANGED <<misfires, timer, queued, cancelled, aborted>>
  /\ UNCHANGED <<fdVars, cancelling, fetched, wakes, calls>>

(***************************************************************************)
(* The fiber is resumed: it cancels its timer, and either reports the      *)
(* timeout or tries again with a new full timeout.                         *)
(***************************************************************************)
Resume(f) ==
  /\ Running
  /\ pc[f] = "hold"
  /\ wakes[f] > 0
  /\ wakes' = [wakes EXCEPT ![f] = @ - 1]
  /\ IF cancelled[f] THEN Return(f)
     ELSE /\ timer' = [timer EXCEPT ![f] = FALSE]
          /\ pc' = [pc EXCEPT ![f] = "try"]
          /\ UNCHANGED <<queued, cancelled>>
  /\ UNCHANGED <<ctxVars, fdVars, cancelling, fetched, calls, aborted>>

----------------------------------------------------------------------------
(***************************************************************************)
(* The timer expires: listExpiredCb takes it out of the set and schedules  *)
(* a copy of its callback, which a later Timer::cancel does not reach.     *)
(***************************************************************************)
Expire(f) ==
  /\ Running
  /\ timer[f]
  /\ timer' = [timer EXCEPT ![f] = FALSE]
  /\ queued' = [queued EXCEPT ![f] = @ + 1]
  /\ UNCHANGED <<ctxVars, fdVars, cancelled, cancelling, fetched, pc, wakes,
                 calls, aborted>>

(***************************************************************************)
(* The callback runs: unless the call already timed out, it marks the call *)
(* and goes on to cancelEvent, which is a step of its own.                 *)
(***************************************************************************)
RunTimer(f) ==
  /\ Running
  /\ queued[f] > 0
  /\ queued' = [queued EXCEPT ![f] = @ - 1]
  /\ cancelled' = [cancelled EXCEPT ![f] = TRUE]
  /\ cancelling' = [cancelling EXCEPT ![Waits[f]] =
                      IF cancelled[f] THEN @ ELSE @ + 1]
  /\ UNCHANGED <<ctxVars, fdVars, timer, fetched, pc, wakes, calls, aborted>>

\* Mutant of CancelEvent: like delEvent, it removes the event unannounced.
CancelEventQuiet(e) ==
  /\ Running
  /\ cancelling[e] > 0
  /\ cancelling' = [cancelling EXCEPT ![e] = @ - 1]
  /\ IF e \notin events \/ ~EpollCtlOk THEN UNCHANGED ctxVars
     ELSE /\ EpollCtl(events \ {e})
          /\ events' = events \ {e}
          /\ ctx' = [ctx EXCEPT ![e] = None]
          /\ pending' = pending - 1
          /\ UNCHANGED misfires
  /\ UNCHANGED <<fdVars, timer, queued, cancelled, fetched, pc, wakes, calls,
                 aborted>>

(***************************************************************************)
(* cancelEvent: nothing when the event is not registered or epoll_ctl      *)
(* fails; otherwise the event is removed and triggered.                    *)
(***************************************************************************)
CancelEvent(e) ==
  /\ Running
  /\ cancelling[e] > 0
  /\ cancelling' = [cancelling EXCEPT ![e] = @ - 1]
  /\ IF e \notin events \/ ~EpollCtlOk
       THEN UNCHANGED <<ctxVars, wakes, aborted>>
     ELSE EpollCtl(events \ {e}) /\ Trigger({e})
  /\ UNCHANGED <<fdVars, timer, queued, cancelled, fetched, pc, calls>>

----------------------------------------------------------------------------
(***************************************************************************)
(* IOManager::idle: epoll_wait reports the polled conditions that hold.    *)
(***************************************************************************)
EpollWait(t) ==
  /\ Running
  /\ fetched[t] = None
  /\ listed
  /\ listed' = FALSE
  /\ LET report == level \cap (interest \cup {HUP})
     IN fetched' = [fetched EXCEPT ![t] = IF report = {} THEN None ELSE report]
  /\ UNCHANGED <<events, ctx, pending, misfires, interest, fdVars, timerVars,
                 pc, wakes, calls, aborted>>

\* Mutant of Handle: of a report with both events only one is triggered.
HandleOne(t) ==
  /\ Running
  /\ fetched[t] # None
  /\ fetched' = [fetched EXCEPT ![t] = None]
  /\ LET real == (fetched[t] \ {HUP}) \cup
                 (IF HUP \in fetched[t] THEN events ELSE {})
     IN IF events \cap real = {} \/ ~EpollCtlOk
          THEN UNCHANGED <<ctxVars, wakes, aborted>>
        ELSE /\ EpollCtl(events \ real)
             /\ Trigger(IF "READ" \in real THEN {"READ"} ELSE real)
  /\ UNCHANGED <<fdVars, timerVars, pc, calls>>

(***************************************************************************)
(* The report is handled under the descriptor's mutex, against what is     *)
(* registered by now.  An error stands for every registered event.         *)
(***************************************************************************)
Handle(t) ==
  /\ Running
  /\ fetched[t] # None
  /\ fetched' = [fetched EXCEPT ![t] = None]
  /\ LET real == (fetched[t] \ {HUP}) \cup
                 (IF HUP \in fetched[t] THEN events ELSE {})
     IN IF events \cap real = {} \/ ~EpollCtlOk
          THEN UNCHANGED <<ctxVars, wakes, aborted>>
        ELSE EpollCtl(events \ real) /\ Trigger(real)
  /\ UNCHANGED <<fdVars, timerVars, pc, calls>>

----------------------------------------------------------------------------
(***************************************************************************)
(* The kernel: a condition becomes true.                                   *)
(***************************************************************************)
Edge(e) ==
  /\ Running
  /\ open /\ e \notin level
  /\ edges < MaxEdges
  /\ edges' = edges + 1
  /\ level' = level \cup {e}
  /\ listed' = (listed \/ (interest # None /\ e \in interest \cup {HUP}))
  /\ UNCHANGED <<events, ctx, pending, misfires, interest, timerVars, fetched,
                 pc, wakes, open, closing, calls, closes, aborted, raced>>

(***************************************************************************)
(* close(): cancelAll triggers what is registered ...                      *)
(***************************************************************************)
CancelAll ==
  /\ Running
  /\ open /\ ~closing
  /\ closes < MaxCloses
  /\ closing' = TRUE
  /\ closes' = closes + 1
  /\ IF events = {} \/ ~EpollCtlOk
       THEN UNCHANGED <<ctxVars, wakes, aborted>>
     ELSE EpollCtl({}) /\ Trigger(events)
  /\ UNCHANGED <<timerVars, fetched, pc, level, open, edges, calls, raced>>

(***************************************************************************)
(* ... and then close_f drops the kernel's epoll entry.  An event that was *)
(* added in between stays in its context (raced).                          *)
(***************************************************************************)
Close ==
  /\ Running
  /\ closing
  /\ closing' = FALSE
  /\ open' = FALSE
  /\ interest' = None /\ listed' = FALSE /\ level' = {}
  /\ raced' = (raced \/ events # {})
  /\ UNCHANGED <<events, ctx, pending, misfires, timerVars, fetched, pc, wakes,
                 calls, edges, closes, aborted>>

(***************************************************************************)
(* socket() or accept() hands out the same descriptor number again.        *)
(***************************************************************************)
Reopen ==
  /\ Running
  /\ ~open
  /\ open' = TRUE
  /\ UNCHANGED <<ctxVars, timerVars, fetched, pc, wakes, level, closing, calls,
                 edges, closes, aborted, raced>>

----------------------------------------------------------------------------
FiberStep(f) == \/ Try(f) \/ Arm(f) \/ AddEvent(f) \/ Resume(f)
ThreadStep(t) == EpollWait(t) \/ Handle(t)

Next ==
  \/ \E f \in Fibers : Call(f) \/ FiberStep(f) \/ Expire(f) \/ RunTimer(f)
  \/ \E e \in Events : CancelEvent(e)
  \/ \E t \in Threads : ThreadStep(t)
  \/ \E e \in Events \cup {HUP} : Edge(e)
  \/ CancelAll \/ Close \/ Reopen

(***************************************************************************)
(* A thread in idle() polls and handles what it fetched.  Nothing obliges  *)
(* a condition to become true, a timer to expire or a descriptor to be     *)
(* closed or opened, nor the scheduler to resume a fiber it was given: a   *)
(* schedule() that comes before the fiber is in HOLD may be dropped (run   *)
(* gmp_lost_wakeup).                                                       *)
(***************************************************************************)
Fairness == \A t \in Threads : WF_vars(ThreadStep(t))

Spec == Init /\ [][Next]_vars /\ Fairness

----------------------------------------------------------------------------
(***************************************************************************)
(* Types of the contexts, the kernel's entry, the timers and the fibers.   *)
(***************************************************************************)
TypeOK ==
  /\ events \subseteq Events
  /\ ctx \in [Events -> Fibers \cup {None}]
  /\ pending \in Int /\ misfires \in Nat
  /\ interest \in ((SUBSET Events) \ {{}}) \cup {None}
  /\ level \subseteq Events \cup {HUP}
  /\ fetched \in [Threads -> ((SUBSET (Events \cup {HUP})) \ {{}}) \cup {None}]
  /\ pc \in [Fibers -> {"idle", "try", "arm", "add", "hold"}]
  /\ timer \in [Fibers -> BOOLEAN] /\ cancelled \in [Fibers -> BOOLEAN]
  /\ queued \in [Fibers -> Nat] /\ cancelling \in [Events -> Nat]
  /\ wakes \in [Fibers -> Nat]

(***************************************************************************)
(* m_pendingEventCount is the number of registered events, less one for    *)
(* each time idle() handled a report with an event that had been cancelled *)
(* since (real_events is not masked with what is registered, and a Release *)
(* build goes on behind the assertion of triggerEvent).  No other race of  *)
(* reports, timeouts, close() and reuse of the descriptor moves it.  It is *)
(* what stopping() looks at: one too low, threads end under a waiting      *)
(* fiber, or with none registered it is 2^64 - 1 and they never end.       *)
(***************************************************************************)
PendingExact == pending = Cardinality(events) - misfires

(***************************************************************************)
(* A fiber is scheduled at most once per wait and never while it is not    *)
(* waiting, however report, timeout and close race for its event.          *)
(***************************************************************************)
WokenOnce ==
  \A f \in Fibers : wakes[f] > 0 => wakes[f] = 1 /\ pc[f] = "hold"

(***************************************************************************)
(* A waiting fiber is scheduled, or its event is registered with epoll;    *)
(* and if its condition already holds, the ready list or a report that a   *)
(* thread still has to handle will bring it: no edge is lost between the   *)
(* failing system call, addEvent and the threads' handling.                *)
(***************************************************************************)
NoLostWait ==
  ~raced /\ ~aborted =>
    \A f \in Fibers : pc[f] = "hold" =>
      \/ wakes[f] = 1
      \/ /\ ctx[Waits[f]] = f
         /\ interest # None /\ Waits[f] \in events \cap interest
         /\ level \cap {Waits[f], HUP} # {} =>
              listed \/ \E t \in Threads : fetched[t] # None

(***************************************************************************)
(* A fiber that waits for a condition that holds is scheduled, unless an   *)
(* assertion or a racing close() came in between.  (That a scheduled fiber *)
(* runs is the scheduler's part.)                                          *)
(***************************************************************************)
Delivery ==
  \A f \in Fibers :
    pc[f] = "hold" /\ Waits[f] \in level ~> wakes[f] > 0 \/ aborted \/ raced

============================================================================
