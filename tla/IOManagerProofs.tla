--------------------------- MODULE IOManagerProofs ---------------------------
(***************************************************************************)
(* Proofs about IOManager for any fibers, threads and bounds.              *)
(*                                                                         *)
(* One inductive invariant, IInv, gives the four invariants.  CtxInv ties  *)
(* the events' bits to the fibers in the contexts, WaitInv the contexts to *)
(* what the fibers do, and ReadyInv the contexts to the kernel: it follows *)
(* an edge through the ready list and the report a thread still has.       *)
(***************************************************************************)
EXTENDS IOManager, FiniteSetTheorems, TLAPS

\* An event is registered exactly when its context holds a fiber, which is one
\* that waits for this event.
CtxInv ==
  \A e \in Events :
    /\ e \in events <=> ctx[e] # None
    /\ \A f \in Fibers : ctx[e] = f => Waits[f] = e

\* A fiber in a context waits and is not scheduled; a scheduled one waits and
\* is scheduled once.
WaitInv ==
  \A f \in Fibers :
    /\ ctx[Waits[f]] = f => pc[f] = "hold" /\ wakes[f] = 0
    /\ wakes[f] > 0 => wakes[f] = 1 /\ pc[f] = "hold"

\* Some thread has to handle a report of condition c.
Reported(c) == \E t \in Threads : fetched[t] # None /\ c \in fetched[t]

\* As long as no event was added under close(): a waiting fiber is scheduled or
\* registered, the kernel polls for exactly the registered events of an open
\* descriptor, and each of them that holds is on its way to a thread.
ReadyInv ==
  ~raced /\ ~aborted =>
    /\ \A f \in Fibers : pc[f] = "hold" => wakes[f] = 1 \/ ctx[Waits[f]] = f
    /\ interest = IF events = {} THEN None ELSE events
    /\ events # {} => open
    /\ \A c \in level : c \in events \/ (c = HUP /\ events # {}) =>
         listed \/ Reported(c)

\* The part of the invariant that holds even after an assertion failed.
CtxPart ==
  /\ TypeOK
  /\ listed \in BOOLEAN
  /\ CtxInv
  /\ WaitInv
  /\ PendingExact

IInv == CtxPart /\ ReadyInv

----------------------------------------------------------------------------
(* What a step does to the contexts *)

\* Sets of events are finite.
LEMMA EventsFinite ==
  ASSUME NEW S \in SUBSET Events
  PROVE  IsFiniteSet(S) /\ Cardinality(S) \in Nat
  <1>1. IsFiniteSet({} \cup {"READ"})
    BY FS_EmptySet, FS_AddElement
  <1>2. IsFiniteSet(({} \cup {"READ"}) \cup {"WRITE"})
    BY <1>1, FS_AddElement
  <1>3. ({} \cup {"READ"}) \cup {"WRITE"} = Events
    BY DEF Events
  <1>4. IsFiniteSet(Events)
    BY <1>2, <1>3
  <1>5. IsFiniteSet(S)
    BY <1>4, FS_Subset
  <1> QED BY <1>5, FS_CardinalityType

\* triggerEvent() schedules the fiber of a triggered context once and nobody else.
LEMMA TriggerWakes ==
  ASSUME TypeOK, CtxInv, NEW evs \in SUBSET Events, NDEBUG \/ evs \subseteq events,
         Trigger(evs)
  PROVE  /\ events' = events \ evs
         /\ ctx' \in [Events -> Fibers \cup {None}]
         /\ \A e \in Events : ctx'[e] = IF e \in evs THEN None ELSE ctx[e]
         /\ wakes' \in [Fibers -> Nat]
         /\ \A f \in Fibers : wakes'[f] = IF Waits[f] \in evs /\ ctx[Waits[f]] = f
                                            THEN wakes[f] + 1 ELSE wakes[f]
         /\ pending' = pending - Cardinality(evs)
         /\ misfires' = misfires + Cardinality(evs \ events)
         /\ aborted' = aborted
  <1>1. \A f \in Fibers : {e \in evs : ctx[e] = f} =
            IF Waits[f] \in evs /\ ctx[Waits[f]] = f THEN {Waits[f]} ELSE {}
    BY WaitsAssumption DEF CtxInv
  <1>2. \A x : Cardinality({x}) = 1
    BY FS_Singleton
  <1>3. Cardinality({}) = 0
    BY FS_EmptySet
  <1>4. \A f \in Fibers : Cardinality({e \in evs : ctx[e] = f}) =
            IF Waits[f] \in evs /\ ctx[Waits[f]] = f THEN 1 ELSE 0
    BY <1>1, <1>2, <1>3
  <1>5. wakes' = [f \in Fibers |-> wakes[f] + Cardinality({e \in evs : ctx[e] = f})]
    BY DEF Trigger, Woken
  <1>6. \A f \in Fibers : wakes[f] \in Nat
    BY DEF TypeOK
  <1>7. \A f \in Fibers : wakes'[f] = IF Waits[f] \in evs /\ ctx[Waits[f]] = f
                                        THEN wakes[f] + 1 ELSE wakes[f]
    BY <1>4, <1>5, <1>6
  <1>8. wakes' \in [Fibers -> Nat]
    <2>1. wakes' = [f \in Fibers |-> wakes'[f]]
      BY <1>5
    <2>2. \A f \in Fibers : wakes'[f] \in Nat
      BY <1>6, <1>7
    <2> QED BY <2>1, <2>2
  <1>9. /\ ctx' = [e \in Events |-> IF e \in evs THEN None ELSE ctx[e]]
        /\ events' = events \ evs
        /\ pending' = pending - Cardinality(evs)
        /\ misfires' = misfires + Cardinality(evs \ events)
        /\ aborted' = aborted
    BY DEF Trigger
  <1>10. ctx' \in [Events -> Fibers \cup {None}]
    BY <1>9 DEF TypeOK
  <1> QED BY <1>7, <1>8, <1>9, <1>10

\* Triggering events, registered or not, keeps the contexts consistent, and the
\* count lacks those that were not.
LEMMA TriggerKeepsCtx ==
  ASSUME CtxPart, NEW evs \in SUBSET Events, NDEBUG \/ evs \subseteq events,
         Trigger(evs), pc' = pc
  PROVE  CtxInv' /\ WaitInv' /\ PendingExact'
  <1>1. TypeOK /\ CtxInv /\ WaitInv /\ PendingExact
    BY DEF CtxPart
  <1>2. /\ events' = events \ evs
        /\ \A e \in Events : ctx'[e] = IF e \in evs THEN None ELSE ctx[e]
        /\ \A f \in Fibers : wakes'[f] = IF Waits[f] \in evs /\ ctx[Waits[f]] = f
                                           THEN wakes[f] + 1 ELSE wakes[f]
        /\ pending' = pending - Cardinality(evs)
        /\ misfires' = misfires + Cardinality(evs \ events)
    BY <1>1, TriggerWakes
  <1>3. CtxInv'
    BY <1>1, <1>2, NoneAssumption DEF CtxInv
  <1>4. WaitInv'
    <2> SUFFICES ASSUME NEW f \in Fibers
                 PROVE  /\ ctx'[Waits[f]] = f => pc'[f] = "hold" /\ wakes'[f] = 0
                        /\ wakes'[f] > 0 => wakes'[f] = 1 /\ pc'[f] = "hold"
      BY DEF WaitInv
    <2>1. Waits[f] \in Events /\ f # None /\ wakes[f] \in Nat
      BY <1>1, WaitsAssumption, NoneAssumption DEF TypeOK
    <2>2. /\ ctx[Waits[f]] = f => pc[f] = "hold" /\ wakes[f] = 0
          /\ wakes[f] > 0 => wakes[f] = 1 /\ pc[f] = "hold"
      BY <1>1 DEF WaitInv
    <2> QED BY <1>2, <2>1, <2>2
  <1>5. PendingExact'
    <2>1. events \cap evs = evs \cap events
      OBVIOUS
    <2>2. /\ IsFiniteSet(events) /\ Cardinality(events) \in Nat
          /\ IsFiniteSet(evs) /\ Cardinality(evs) \in Nat
          /\ Cardinality(evs \cap events) \in Nat
      BY <1>1, EventsFinite DEF TypeOK
    <2>3. Cardinality(events \ evs) = Cardinality(events) - Cardinality(evs \cap events)
      <3>1. Cardinality(events \ evs) = Cardinality(events) - Cardinality(events \cap evs)
        BY <2>2, FS_Difference
      <3> QED BY <3>1, <2>1
    <2>4. Cardinality(evs \ events) = Cardinality(evs) - Cardinality(evs \cap events)
      BY <2>2, FS_Difference
    <2>5. pending = Cardinality(events) - misfires /\ misfires \in Nat
      BY <1>1 DEF PendingExact, TypeOK
    <2>6. pending' = Cardinality(events \ evs) - misfires'
      BY <1>2, <2>2, <2>3, <2>4, <2>5
    <2> QED BY <1>2, <2>6 DEF PendingExact
  <1> QED BY <1>3, <1>4, <1>5

\* epoll_ctl() leaves the kernel's entry well typed.
LEMMA EpollCtlType ==
  ASSUME NEW new \in SUBSET Events, EpollCtl(new), listed \in BOOLEAN
  PROVE  /\ interest' \in ((SUBSET Events) \ {{}}) \cup {None}
         /\ listed' \in BOOLEAN
         /\ interest' = IF new = {} THEN None ELSE new
  BY DEF EpollCtl

\* triggerEvent(), whether its assertion holds or not: the types, and the
\* contexts, which a failed assertion leaves alone.
LEMMA TriggerAny ==
  ASSUME CtxPart, NEW evs \in SUBSET Events, Trigger(evs), pc' = pc
  PROVE  /\ CtxInv' /\ WaitInv' /\ PendingExact'
         /\ events' \subseteq Events
         /\ ctx' \in [Events -> Fibers \cup {None}]
         /\ pending' \in Int /\ misfires' \in Nat
         /\ wakes' \in [Fibers -> Nat]
  <1>1. CASE NDEBUG \/ evs \subseteq events
    <2>1. Cardinality(evs) \in Nat /\ Cardinality(evs \ events) \in Nat
      BY EventsFinite
    <2> QED BY <1>1, <2>1, TriggerWakes, TriggerKeepsCtx DEF CtxPart, TypeOK
  <1>2. CASE ~(NDEBUG \/ evs \subseteq events)
    <2>1. UNCHANGED <<wakes, ctx, events, pending, misfires>>
      BY <1>2 DEF Trigger
    <2> QED BY <2>1 DEF CtxPart, TypeOK, CtxInv, WaitInv, PendingExact
  <1> QED BY <1>1, <1>2

\* Steps that leave the contexts, the kernel's entry and the wake-ups alone, and
\* neither make a fiber wait nor end its wait.
LEMMA CtxQuiet ==
  ASSUME CtxPart, TypeOK', listed' \in BOOLEAN, UNCHANGED <<events, ctx, pending, misfires, wakes>>,
         \A f \in Fibers : pc'[f] = "hold" <=> pc[f] = "hold"
  PROVE  CtxPart'
  BY DEF CtxPart, CtxInv, WaitInv, PendingExact

----------------------------------------------------------------------------
(* The contexts: one lemma per action *)

LEMMA CtxCall ==
  ASSUME CtxPart, NEW f \in Fibers, Call(f)
  PROVE  CtxPart'
  <1>1. TypeOK'
    BY DEF CtxPart, TypeOK, Call, ctxVars, fdVars, timerVars
  <1>2. \A g \in Fibers : pc'[g] = "hold" <=> pc[g] = "hold"
    BY DEF CtxPart, TypeOK, Call
  <1> QED BY <1>1, <1>2, CtxQuiet DEF Call, ctxVars, CtxPart

\* The end of a call.
LEMMA ReturnType ==
  ASSUME TypeOK, NEW f \in Fibers, Return(f)
  PROVE  /\ pc' \in [Fibers -> {"idle", "try", "arm", "add", "hold"}]
         /\ timer' \in [Fibers -> BOOLEAN] /\ cancelled' \in [Fibers -> BOOLEAN]
         /\ queued' \in [Fibers -> Nat]
         /\ pc'[f] = "idle" /\ \A g \in Fibers \ {f} : pc'[g] = pc[g]
  BY DEF TypeOK, Return

LEMMA CtxTry ==
  ASSUME CtxPart, NEW f \in Fibers, Try(f)
  PROVE  CtxPart'
  <1>1. CASE Return(f)
    <2>1. TypeOK'
      BY <1>1, ReturnType DEF CtxPart, TypeOK, Try, ctxVars
    <2> QED BY <1>1, <2>1, ReturnType, CtxQuiet DEF CtxPart, Try, ctxVars
  <1>2. CASE pc' = [pc EXCEPT ![f] = "arm"] /\ UNCHANGED <<level, timer, queued, cancelled>>
    <2>1. TypeOK'
      BY <1>2 DEF CtxPart, TypeOK, Try, ctxVars
    <2>2. \A g \in Fibers : pc'[g] = "hold" <=> pc[g] = "hold"
      BY <1>2 DEF CtxPart, TypeOK, Try
    <2> QED BY <2>1, <2>2, CtxQuiet DEF CtxPart, Try, ctxVars
  <1> QED BY <1>1, <1>2 DEF Try

LEMMA CtxArm ==
  ASSUME CtxPart, NEW f \in Fibers, Arm(f)
  PROVE  CtxPart'
  <1>1. TypeOK'
    BY DEF CtxPart, TypeOK, Arm, ctxVars, fdVars
  <1>2. \A g \in Fibers : pc'[g] = "hold" <=> pc[g] = "hold"
    BY DEF CtxPart, TypeOK, Arm
  <1> QED BY <1>1, <1>2, CtxQuiet DEF Arm, ctxVars, CtxPart

\* addEvent() puts the fiber into an empty context; the assertion that it is
\* empty cannot fail, since one fiber at a time waits for an event.
LEMMA CtxAddEvent ==
  ASSUME CtxPart, NEW f \in Fibers, AddEvent(f)
  PROVE  CtxPart' /\ aborted' = aborted /\ ctx[Waits[f]] = None
  <1>0. Waits[f] \in Events /\ f # None /\ pc[f] = "add" /\ wakes[f] \in Nat
    BY WaitsAssumption, NoneAssumption DEF AddEvent, CtxPart, TypeOK
  <1>1. wakes[f] = 0 /\ ctx[Waits[f]] # f
    BY <1>0 DEF CtxPart, WaitInv
  <1>2. ctx[Waits[f]] = None
    BY <1>0, <1>1, WaitsAssumption DEF CtxPart, TypeOK, CtxInv
  <1>3. Waits[f] \notin events
    BY <1>0, <1>2 DEF CtxPart, CtxInv
  <1>4. CASE ~EpollCtlOk
    <2>1. Return(f) /\ UNCHANGED <<ctxVars, aborted>>
      BY <1>4 DEF AddEvent
    <2>2. TypeOK'
      BY <2>1, ReturnType DEF CtxPart, TypeOK, AddEvent, ctxVars, fdVars
    <2>3. \A g \in Fibers : pc'[g] = "hold" <=> pc[g] = "hold"
      BY <2>1, <1>0, ReturnType DEF CtxPart
    <2> QED BY <1>2, <2>1, <2>2, <2>3, CtxQuiet DEF CtxPart, AddEvent, ctxVars
  <1>5. CASE EpollCtlOk
    <2>1. /\ EpollCtl(events \cup {Waits[f]})
          /\ events' = events \cup {Waits[f]}
          /\ ctx' = [ctx EXCEPT ![Waits[f]] = f]
          /\ pending' = pending + 1
          /\ pc' = [pc EXCEPT ![f] = "hold"]
          /\ UNCHANGED <<misfires, timer, queued, cancelled, aborted>>
          /\ UNCHANGED <<level, cancelling, fetched, wakes>>
      BY <1>2, <1>5 DEF AddEvent, fdVars
    <2>2. events \cup {Waits[f]} \in SUBSET Events
      BY <1>0 DEF CtxPart, TypeOK
    <2>3. interest' \in ((SUBSET Events) \ {{}}) \cup {None} /\ listed' \in BOOLEAN
      BY <2>1, <2>2, EpollCtlType DEF CtxPart
    <2>4. TypeOK'
      BY <2>1, <2>2, <2>3, <1>0 DEF CtxPart, TypeOK
    <2>5. /\ ctx'[Waits[f]] = f /\ \A e \in Events \ {Waits[f]} : ctx'[e] = ctx[e]
          /\ pc'[f] = "hold" /\ \A g \in Fibers \ {f} : pc'[g] = pc[g]
      BY <2>1, <1>0 DEF CtxPart, TypeOK
    <2>6. CtxInv'
      BY <2>1, <2>5, <1>0 DEF CtxPart, CtxInv
    <2>7. WaitInv'
      BY <2>1, <2>5, <1>0, <1>1, WaitsAssumption DEF CtxPart, WaitInv
    <2>8. PendingExact'
      <3>1. IsFiniteSet(events) /\ Cardinality(events) \in Nat
        BY EventsFinite DEF CtxPart, TypeOK
      <3>2. Cardinality(events \cup {Waits[f]}) = Cardinality(events) + 1
        BY <3>1, <1>3, FS_AddElement
      <3>3. pending = Cardinality(events) - misfires /\ misfires \in Nat
        BY DEF CtxPart, TypeOK, PendingExact
      <3>4. pending + 1 = (Cardinality(events) + 1) - misfires
        BY <3>1, <3>3
      <3> QED BY <2>1, <3>2, <3>4 DEF PendingExact
    <2> QED BY <1>2, <2>1, <2>3, <2>4, <2>6, <2>7, <2>8 DEF CtxPart
  <1> QED BY <1>2, <1>4, <1>5 DEF AddEvent

LEMMA CtxResume ==
  ASSUME CtxPart, NEW f \in Fibers, Resume(f)
  PROVE  CtxPart'
  <1>1. wakes[f] = 1 /\ ctx[Waits[f]] # f /\ wakes[f] \in Nat
    BY DEF CtxPart, WaitInv, Resume, TypeOK
  <1>2. wakes'[f] = 0 /\ (\A g \in Fibers \ {f} : wakes'[g] = wakes[g]) /\ wakes' \in [Fibers -> Nat]
    BY <1>1 DEF CtxPart, TypeOK, Resume
  <1>3. /\ pc'[f] # "hold" /\ \A g \in Fibers \ {f} : pc'[g] = pc[g]
        /\ pc' \in [Fibers -> {"idle", "try", "arm", "add", "hold"}]
        /\ timer' \in [Fibers -> BOOLEAN] /\ cancelled' \in [Fibers -> BOOLEAN]
        /\ queued' \in [Fibers -> Nat]
    <2>1. CASE cancelled[f]
      BY <2>1, ReturnType DEF Resume, CtxPart
    <2>2. CASE ~cancelled[f]
      BY <2>2 DEF Resume, CtxPart, TypeOK
    <2> QED BY <2>1, <2>2
  <1>4. UNCHANGED <<events, ctx, pending, misfires, interest, listed, level, fetched, cancelling>>
    BY DEF Resume, ctxVars, fdVars
  <1>5. TypeOK'
    BY <1>2, <1>3, <1>4 DEF CtxPart, TypeOK
  <1>6. CtxInv' /\ PendingExact' /\ listed' \in BOOLEAN
    BY <1>4 DEF CtxPart, CtxInv, PendingExact
  <1>7. WaitInv'
    BY <1>1, <1>2, <1>3, <1>4 DEF CtxPart, WaitInv
  <1> QED BY <1>5, <1>6, <1>7 DEF CtxPart

\* The timer and its callback do not touch the contexts.
LEMMA CtxTimer ==
  ASSUME CtxPart, NEW f \in Fibers, Expire(f) \/ RunTimer(f)
  PROVE  CtxPart'
  <1>1. CASE Expire(f)
    <2>1. TypeOK'
      BY <1>1 DEF CtxPart, TypeOK, Expire, ctxVars, fdVars
    <2> QED BY <1>1, <2>1, CtxQuiet DEF CtxPart, Expire, ctxVars
  <1>2. CASE RunTimer(f)
    <2>1. queued' \in [Fibers -> Nat]
      BY <1>2 DEF CtxPart, TypeOK, RunTimer
    <2>2. cancelling' \in [Events -> Nat]
      <3>1. PICK n \in Nat : cancelling' = [cancelling EXCEPT ![Waits[f]] = n]
        <4>1. Waits[f] \in Events /\ cancelling[Waits[f]] \in Nat
          BY WaitsAssumption DEF CtxPart, TypeOK
        <4>2. cancelling' = [cancelling EXCEPT ![Waits[f]] = IF cancelled[f] THEN @ ELSE @ + 1]
          BY <1>2 DEF RunTimer
        <4>3. CASE cancelled[f]
          BY <4>1, <4>2, <4>3
        <4>4. CASE ~cancelled[f]
          <5>1. cancelling' = [cancelling EXCEPT ![Waits[f]] = cancelling[Waits[f]] + 1]
            BY <4>2, <4>4
          <5>2. cancelling[Waits[f]] + 1 \in Nat
            BY <4>1
          <5> QED BY <5>1, <5>2
        <4> QED BY <4>3, <4>4
      <3> QED BY <3>1 DEF CtxPart, TypeOK
    <2>3. cancelled' \in [Fibers -> BOOLEAN]
      BY <1>2 DEF CtxPart, TypeOK, RunTimer
    <2>4. UNCHANGED <<events, ctx, pending, misfires, interest, listed, level, timer,
                      fetched, pc, wakes>>
      BY <1>2 DEF RunTimer, ctxVars, fdVars
    <2>5. TypeOK'
      BY <2>1, <2>2, <2>3, <2>4 DEF CtxPart, TypeOK
    <2> QED BY <2>4, <2>5, CtxQuiet DEF CtxPart
  <1> QED BY <1>1, <1>2

\* cancelEvent() and the handling of a report, whose epoll_ctl() and
\* triggerEvent() are about the same events.
LEMMA CtxTrigger ==
  ASSUME CtxPart, NEW evs \in SUBSET Events, NEW new \in SUBSET Events,
         EpollCtl(new), Trigger(evs),
         UNCHANGED <<level, timer, queued, cancelled, pc>>,
         fetched' \in [Threads -> ((SUBSET (Events \cup {HUP})) \ {{}}) \cup {None}],
         cancelling' \in [Events -> Nat]
  PROVE  CtxPart'
  <1>1. /\ CtxInv' /\ WaitInv' /\ PendingExact'
        /\ events' \subseteq Events
        /\ ctx' \in [Events -> Fibers \cup {None}]
        /\ pending' \in Int /\ misfires' \in Nat
        /\ wakes' \in [Fibers -> Nat]
    BY TriggerAny
  <1>2. interest' \in ((SUBSET Events) \ {{}}) \cup {None} /\ listed' \in BOOLEAN
    BY EpollCtlType DEF CtxPart
  <1>3. TypeOK'
    BY <1>1, <1>2 DEF CtxPart, TypeOK
  <1> QED BY <1>1, <1>2, <1>3 DEF CtxPart

LEMMA CtxCancelEvent ==
  ASSUME CtxPart, NEW e \in Events, CancelEvent(e)
  PROVE  CtxPart'
  <1>1. cancelling' \in [Events -> Nat]
    BY DEF CtxPart, TypeOK, CancelEvent
  <1>2. UNCHANGED <<level, timer, queued, cancelled, fetched, pc>>
    BY DEF CancelEvent, fdVars
  <1>3. CASE e \notin events \/ ~EpollCtlOk
    <2>1. UNCHANGED <<events, ctx, pending, misfires, interest, listed, wakes>>
      BY <1>3 DEF CancelEvent, ctxVars
    <2>2. TypeOK'
      BY <1>1, <1>2, <2>1 DEF CtxPart, TypeOK
    <2> QED BY <1>2, <2>1, <2>2, CtxQuiet DEF CtxPart
  <1>4. CASE ~(e \notin events \/ ~EpollCtlOk)
    <2>1. EpollCtl(events \ {e}) /\ Trigger({e})
      BY <1>4 DEF CancelEvent
    <2>2. events \ {e} \in SUBSET Events /\ {e} \in SUBSET Events
      BY DEF CtxPart, TypeOK
    <2>3. fetched' \in [Threads -> ((SUBSET (Events \cup {HUP})) \ {{}}) \cup {None}]
      BY <1>2 DEF CtxPart, TypeOK
    <2> QED BY <1>1, <1>2, <2>1, <2>2, <2>3, CtxTrigger
  <1> QED BY <1>3, <1>4

LEMMA CtxEpollWait ==
  ASSUME CtxPart, NEW t \in Threads, EpollWait(t)
  PROVE  CtxPart'
  <1>1. fetched' \in [Threads -> ((SUBSET (Events \cup {HUP})) \ {{}}) \cup {None}]
    BY DEF CtxPart, TypeOK, EpollWait
  <1>2. UNCHANGED <<events, ctx, pending, misfires, interest, level, timer, queued, cancelled,
                    cancelling, pc, wakes>> /\ listed' = FALSE
    BY DEF EpollWait, fdVars, timerVars
  <1>3. TypeOK'
    BY <1>1, <1>2 DEF CtxPart, TypeOK
  <1> QED BY <1>2, <1>3, CtxQuiet

\* What a report stands for.
Real(t) == (fetched[t] \ {HUP}) \cup (IF HUP \in fetched[t] THEN events ELSE {})

LEMMA RealEvents ==
  ASSUME TypeOK, NEW t \in Threads, fetched[t] # None
  PROVE  Real(t) \in SUBSET Events
  BY DEF TypeOK, Real

LEMMA CtxHandle ==
  ASSUME CtxPart, NEW t \in Threads, Handle(t)
  PROVE  CtxPart'
  <1>1. fetched' \in [Threads -> ((SUBSET (Events \cup {HUP})) \ {{}}) \cup {None}]
    BY DEF CtxPart, TypeOK, Handle
  <1>2. UNCHANGED <<level, timer, queued, cancelled, cancelling, pc>>
    BY DEF Handle, fdVars, timerVars
  <1>3. CASE events \cap Real(t) = {} \/ ~EpollCtlOk
    <2>1. UNCHANGED <<events, ctx, pending, misfires, interest, listed, wakes>>
      BY <1>3 DEF Handle, ctxVars, Real
    <2>2. TypeOK'
      BY <1>1, <1>2, <2>1 DEF CtxPart, TypeOK
    <2> QED BY <1>2, <2>1, <2>2, CtxQuiet DEF CtxPart
  <1>4. CASE ~(events \cap Real(t) = {} \/ ~EpollCtlOk)
    <2>1. EpollCtl(events \ Real(t)) /\ Trigger(Real(t))
      BY <1>4 DEF Handle, Real
    <2>2. events \ Real(t) \in SUBSET Events /\ Real(t) \in SUBSET Events
      BY RealEvents DEF CtxPart, TypeOK, Handle
    <2>3. cancelling' \in [Events -> Nat]
      BY <1>2 DEF CtxPart, TypeOK
    <2> QED BY <1>1, <1>2, <2>1, <2>2, <2>3, CtxTrigger
  <1> QED BY <1>3, <1>4

\* The kernel and the descriptor.
LEMMA CtxEdge ==
  ASSUME CtxPart, NEW e \in Events \cup {HUP}, Edge(e)
  PROVE  CtxPart'
  <1>1. listed' \in BOOLEAN
    BY DEF Edge
  <1>2. TypeOK'
    BY DEF CtxPart, TypeOK, Edge, timerVars
  <1> QED BY <1>1, <1>2, CtxQuiet DEF Edge

LEMMA CtxCancelAll ==
  ASSUME CtxPart, CancelAll
  PROVE  CtxPart'
  <1>1. UNCHANGED <<level, timer, queued, cancelled, cancelling, fetched, pc>>
    BY DEF CancelAll, timerVars
  <1>2. CASE events = {} \/ ~EpollCtlOk
    <2>1. UNCHANGED <<events, ctx, pending, misfires, interest, listed, wakes>>
      BY <1>2 DEF CancelAll, ctxVars
    <2>2. TypeOK'
      BY <1>1, <2>1 DEF CtxPart, TypeOK
    <2> QED BY <1>1, <2>1, <2>2, CtxQuiet DEF CtxPart
  <1>3. CASE ~(events = {} \/ ~EpollCtlOk)
    <2>1. EpollCtl({}) /\ Trigger(events)
      BY <1>3 DEF CancelAll
    <2>2. {} \in SUBSET Events /\ events \in SUBSET Events
      BY DEF CtxPart, TypeOK
    <2>3. /\ fetched' \in [Threads -> ((SUBSET (Events \cup {HUP})) \ {{}}) \cup {None}]
          /\ cancelling' \in [Events -> Nat]
      BY <1>1 DEF CtxPart, TypeOK
    <2> QED BY <1>1, <2>1, <2>2, <2>3, CtxTrigger
  <1> QED BY <1>2, <1>3

LEMMA CtxDescriptor ==
  ASSUME CtxPart, Close \/ Reopen
  PROVE  CtxPart'
  <1>1. TypeOK'
    BY DEF CtxPart, TypeOK, Close, Reopen, ctxVars, timerVars
  <1>2. listed' \in BOOLEAN
    BY DEF CtxPart, Close, Reopen, ctxVars
  <1> QED BY <1>1, <1>2, CtxQuiet DEF Close, Reopen, ctxVars

----------------------------------------------------------------------------
(* The kernel: no edge is lost *)

\* Fibers and timers: what is registered and reported stays, and no fiber's wait
\* begins or ends.
LEMMA ReadyQuiet ==
  ASSUME ReadyInv, level' \subseteq level, raced' = raced, aborted' = aborted,
         UNCHANGED <<events, ctx, interest, listed, fetched, open>>,
         \A f \in Fibers : pc'[f] = "hold" => pc[f] = "hold" /\ wakes'[f] = wakes[f]
  PROVE  ReadyInv'
  <1> SUFFICES ASSUME ~raced, ~aborted
               PROVE  ReadyInv'
    BY DEF ReadyInv
  <1>1. \A c : Reported(c)' <=> Reported(c)
    BY DEF Reported
  <1> QED BY <1>1 DEF ReadyInv

\* A successful epoll_ctl() with the events that are registered from now on puts
\* the descriptor on the ready list if one of them holds: a report that this step
\* used up is not missed.
LEMMA ReadyCtl ==
  ASSUME EpollCtl(events'), open', level' = level,
         \A f \in Fibers : pc'[f] = "hold" => wakes'[f] = 1 \/ ctx'[Waits[f]] = f
  PROVE  ReadyInv'
  <1>1. interest' = IF events' = {} THEN None ELSE events'
    BY DEF EpollCtl
  <1>2. \A c \in level' : c \in events' \/ (c = HUP /\ events' # {}) => listed'
    BY DEF EpollCtl
  <1> QED BY <1>1, <1>2 DEF ReadyInv

LEMMA ReadyAddEvent ==
  ASSUME IInv, NEW f \in Fibers, AddEvent(f)
  PROVE  ReadyInv'
  <1>1. /\ Waits[f] \in Events /\ f # None /\ pc[f] = "add" /\ aborted' = aborted
        /\ ctx[Waits[f]] = None
    BY CtxAddEvent, WaitsAssumption, NoneAssumption DEF AddEvent, IInv
  <1>2. CASE ~EpollCtlOk
    <2>1. Return(f) /\ UNCHANGED <<ctxVars, fdVars, fetched, wakes>>
      BY <1>2 DEF AddEvent
    <2>2. \A g \in Fibers : pc'[g] = "hold" => pc[g] = "hold"
      BY <2>1, ReturnType DEF IInv, CtxPart
    <2> QED BY <1>1, <2>1, <2>2, ReadyQuiet DEF IInv, ctxVars, fdVars
  <1>3. CASE EpollCtlOk
    <2>1. /\ EpollCtl(events \cup {Waits[f]})
          /\ events' = events \cup {Waits[f]}
          /\ ctx' = [ctx EXCEPT ![Waits[f]] = f]
          /\ pc' = [pc EXCEPT ![f] = "hold"]
          /\ UNCHANGED <<level, wakes, open, raced>>
      BY <1>1, <1>3 DEF AddEvent, fdVars
    <2>2. open' /\ EpollCtl(events')
      BY <1>3, <2>1 DEF EpollCtlOk
    <2>3. SUFFICES ASSUME ~raced, ~aborted PROVE ReadyInv'
      BY <2>1, <1>1 DEF ReadyInv
    <2>4. \A g \in Fibers : pc[g] = "hold" => wakes[g] = 1 \/ ctx[Waits[g]] = g
      BY <2>3 DEF IInv, ReadyInv
    <2>5. \A g \in Fibers \ {f} : Waits[g] # Waits[f] /\ Waits[g] \in Events
      BY WaitsAssumption
    <2>6. \A g \in Fibers : pc'[g] = "hold" => wakes'[g] = 1 \/ ctx'[Waits[g]] = g
      BY <1>1, <2>1, <2>4, <2>5 DEF IInv, CtxPart, TypeOK
    <2> QED BY <2>1, <2>2, <2>6, ReadyCtl
  <1> QED BY <1>2, <1>3

\* Whoever's event is triggered is scheduled; the others stay registered.
LEMMA ReadyTrigger ==
  ASSUME IInv, NEW evs \in SUBSET Events, EpollCtlOk, EpollCtl(events \ evs), Trigger(evs),
         UNCHANGED <<pc, level, open, raced>>
  PROVE  ReadyInv'
  <1>1. CASE ~(NDEBUG \/ evs \subseteq events)
    BY <1>1 DEF Trigger, ReadyInv
  <1>2. CASE NDEBUG \/ evs \subseteq events
    <2>1. /\ events' = events \ evs
          /\ \A e \in Events : ctx'[e] = IF e \in evs THEN None ELSE ctx[e]
          /\ \A f \in Fibers : wakes'[f] = IF Waits[f] \in evs /\ ctx[Waits[f]] = f
                                             THEN wakes[f] + 1 ELSE wakes[f]
          /\ aborted' = aborted
      BY <1>2, TriggerWakes DEF IInv, CtxPart
    <2>2. SUFFICES ASSUME ~raced, ~aborted PROVE ReadyInv'
      BY <2>1 DEF ReadyInv
    <2>3. ASSUME NEW f \in Fibers, pc'[f] = "hold"
          PROVE  wakes'[f] = 1 \/ ctx'[Waits[f]] = f
      <3>1. wakes[f] = 1 \/ ctx[Waits[f]] = f
        BY <2>2, <2>3 DEF IInv, ReadyInv
      <3>2. Waits[f] \in Events /\ (ctx[Waits[f]] = f => wakes[f] = 0)
        BY WaitsAssumption DEF IInv, CtxPart, WaitInv
      <3> QED BY <2>1, <3>1, <3>2
    <2>4. EpollCtl(events') /\ open'
      BY <2>1 DEF EpollCtlOk
    <2> QED BY <2>3, <2>4, ReadyCtl
  <1> QED BY <1>1, <1>2

LEMMA ReadyCancelEvent ==
  ASSUME IInv, NEW e \in Events, CancelEvent(e)
  PROVE  ReadyInv'
  <1>1. CASE e \notin events \/ ~EpollCtlOk
    <2>1. UNCHANGED <<ctxVars, fdVars, wakes, aborted, fetched, pc>>
      BY <1>1 DEF CancelEvent
    <2> QED BY <2>1, ReadyQuiet DEF IInv, ctxVars, fdVars
  <1>2. CASE ~(e \notin events \/ ~EpollCtlOk)
    <2>1. EpollCtl(events \ {e}) /\ Trigger({e}) /\ EpollCtlOk /\ UNCHANGED <<fdVars, pc>>
      BY <1>2 DEF CancelEvent
    <2> QED BY <2>1, ReadyTrigger DEF fdVars
  <1> QED BY <1>1, <1>2

\* epoll_wait() takes the descriptor off the ready list and hands every polled
\* condition that holds to the thread.
LEMMA ReadyEpollWait ==
  ASSUME IInv, NEW t \in Threads, EpollWait(t)
  PROVE  ReadyInv'
  <1>1. /\ fetched[t] = None
        /\ UNCHANGED <<events, ctx, interest, level, open, raced, aborted, pc, wakes>>
    BY DEF EpollWait, fdVars
  <1>2. SUFFICES ASSUME ~raced, ~aborted,
                        NEW c \in level, c \in events \/ (c = HUP /\ events # {})
                 PROVE  Reported(c)'
    BY <1>1 DEF IInv, ReadyInv
  <1>3. interest = events
    BY <1>2 DEF IInv, ReadyInv
  <1>4. c \in level \cap (interest \cup {HUP})
    BY <1>2, <1>3
  <1> DEFINE report == level \cap (interest \cup {HUP})
  <1>5. report # {} /\ report # None
    BY <1>4, NoneAssumption DEF IInv, CtxPart, TypeOK
  <1>6. fetched' = [fetched EXCEPT ![t] = report]
    BY <1>5 DEF EpollWait
  <1> HIDE DEF report
  <1>7. fetched'[t] = report
    BY <1>6 DEF IInv, CtxPart, TypeOK
  <1>8. c \in report
    BY <1>4 DEF report
  <1> QED BY <1>5, <1>7, <1>8 DEF Reported

\* A report is used up without epoll_ctl() only if none of what it names is
\* registered.
LEMMA ReadyHandle ==
  ASSUME IInv, NEW t \in Threads, Handle(t)
  PROVE  ReadyInv'
  <1>1. fetched[t] # None /\ UNCHANGED <<fdVars, pc>>
    BY DEF Handle
  <1>2. CASE events \cap Real(t) = {} \/ ~EpollCtlOk
    <2>1. UNCHANGED <<ctxVars, wakes, aborted>>
      BY <1>2 DEF Handle, Real
    <2>2. SUFFICES ASSUME ~raced, ~aborted,
                          NEW c \in level, c \in events \/ (c = HUP /\ events # {}), ~listed
                   PROVE  Reported(c)'
      BY <1>1, <2>1 DEF IInv, ReadyInv, ctxVars, fdVars
    <2>3. EpollCtlOk
      BY <2>2, NoneAssumption DEF IInv, CtxPart, TypeOK, ReadyInv, EpollCtlOk
    <2>4. HUP \notin Events
      BY DEF HUP, Events
    <2>5. events \cap Real(t) = {} /\ events \subseteq Events
      BY <1>2, <2>3 DEF IInv, CtxPart, TypeOK
    <2>6. c \notin fetched[t]
      BY <2>2, <2>4, <2>5 DEF Real
    <2>7. PICK u \in Threads : fetched[u] # None /\ c \in fetched[u]
      BY <2>2 DEF IInv, ReadyInv, Reported
    <2>8. u # t
      BY <2>6, <2>7
    <2>9. fetched'[u] = fetched[u]
      BY <2>8 DEF Handle, IInv, CtxPart, TypeOK
    <2> QED BY <2>7, <2>9 DEF Reported
  <1>3. CASE ~(events \cap Real(t) = {} \/ ~EpollCtlOk)
    <2>1. EpollCtl(events \ Real(t)) /\ Trigger(Real(t)) /\ EpollCtlOk
      BY <1>3 DEF Handle, Real
    <2>2. Real(t) \in SUBSET Events
      BY <1>1, RealEvents DEF IInv, CtxPart
    <2> QED BY <1>1, <2>1, <2>2, ReadyTrigger DEF fdVars
  <1> QED BY <1>2, <1>3

\* An edge of a polled condition lists the descriptor.
LEMMA ReadyEdge ==
  ASSUME IInv, NEW e \in Events \cup {HUP}, Edge(e)
  PROVE  ReadyInv'
  <1>1. /\ UNCHANGED <<events, ctx, interest, fetched, pc, wakes, open, aborted, raced>>
        /\ level' = level \cup {e}
        /\ listed' = (listed \/ (interest # None /\ e \in interest \cup {HUP}))
    BY DEF Edge
  <1>2. SUFFICES ASSUME ~raced, ~aborted,
                        NEW c \in level', c \in events \/ (c = HUP /\ events # {}), ~listed'
                 PROVE  Reported(c)'
    BY <1>1 DEF IInv, ReadyInv
  <1>3. interest = events /\ interest # None
    BY <1>2, NoneAssumption DEF IInv, ReadyInv, CtxPart, TypeOK
  <1>4. c # e /\ c \in level /\ ~listed
    BY <1>1, <1>2, <1>3
  <1>5. Reported(c)
    BY <1>2, <1>4 DEF IInv, ReadyInv
  <1> QED BY <1>1, <1>5 DEF Reported

LEMMA ReadyCancelAll ==
  ASSUME IInv, CancelAll
  PROVE  ReadyInv'
  <1>1. UNCHANGED <<fetched, pc, level, open, raced>>
    BY DEF CancelAll
  <1>2. CASE events = {} \/ ~EpollCtlOk
    <2>1. UNCHANGED <<ctxVars, wakes, aborted>>
      BY <1>2 DEF CancelAll
    <2> QED BY <1>1, <2>1, ReadyQuiet DEF IInv, ctxVars
  <1>3. CASE ~(events = {} \/ ~EpollCtlOk)
    <2>1. EpollCtl({}) /\ Trigger(events) /\ EpollCtlOk
      BY <1>3 DEF CancelAll
    <2>2. events \ events = {} /\ events \in SUBSET Events
      BY DEF IInv, CtxPart, TypeOK
    <2>3. EpollCtl(events \ events)
      BY <2>1, <2>2
    <2> QED BY <1>1, <2>1, <2>2, <2>3, ReadyTrigger
  <1> QED BY <1>2, <1>3

\* close_f() drops the epoll entry: harmless unless an event is registered.
LEMMA ReadyClose ==
  ASSUME IInv, Close
  PROVE  ReadyInv'
  <1>1. /\ interest' = None /\ level' = {}
        /\ raced' = (raced \/ events # {})
        /\ UNCHANGED <<events, ctx, pc, wakes, aborted>>
    BY DEF Close
  <1>2. SUFFICES ASSUME ~raced, events = {}, ~aborted PROVE ReadyInv'
    BY <1>1 DEF ReadyInv
  <1> QED BY <1>1, <1>2 DEF IInv, ReadyInv

----------------------------------------------------------------------------
(* The inductive step *)

LEMMA IInvInit == Init => IInv
  <1> SUFFICES ASSUME Init PROVE IInv
    OBVIOUS
  <1>1. TypeOK /\ listed \in BOOLEAN
    <2>1. timer \in [Fibers -> BOOLEAN] /\ cancelled \in [Fibers -> BOOLEAN] /\ listed \in BOOLEAN
      BY DEF Init
    <2>2. /\ events \subseteq Events /\ ctx \in [Events -> Fibers \cup {None}]
          /\ pending \in Int /\ misfires \in Nat /\ level \subseteq Events \cup {HUP}
          /\ interest \in ((SUBSET Events) \ {{}}) \cup {None}
      BY DEF Init
    <2>3. fetched \in [Threads -> ((SUBSET (Events \cup {HUP})) \ {{}}) \cup {None}]
      BY DEF Init
    <2>4. /\ pc \in [Fibers -> {"idle", "try", "arm", "add", "hold"}]
          /\ queued \in [Fibers -> Nat] /\ cancelling \in [Events -> Nat]
          /\ wakes \in [Fibers -> Nat]
      BY DEF Init
    <2> QED BY <2>1, <2>2, <2>3, <2>4 DEF TypeOK
  <1>2. CtxInv
    BY NoneAssumption DEF Init, CtxInv
  <1>3. WaitInv
    BY WaitsAssumption, NoneAssumption DEF Init, WaitInv
  <1>4. PendingExact
    BY FS_EmptySet DEF Init, PendingExact
  <1>5. ReadyInv
    BY DEF Init, ReadyInv
  <1> QED BY <1>1, <1>2, <1>3, <1>4, <1>5 DEF IInv, CtxPart

\* A fiber's steps outside addEvent().
LEMMA ReadyFiber ==
  ASSUME IInv, NEW f \in Fibers,
         Call(f) \/ Try(f) \/ Arm(f) \/ Resume(f) \/ Expire(f) \/ RunTimer(f)
  PROVE  ReadyInv'
  <1>1. /\ level' \subseteq level /\ raced' = raced /\ aborted' = aborted
        /\ UNCHANGED <<events, ctx, interest, listed, fetched, open>>
    BY DEF Call, Try, Arm, Resume, Expire, RunTimer, ctxVars, fdVars
  <1>2. \A g \in Fibers : pc'[g] = "hold" => pc[g] = "hold" /\ wakes'[g] = wakes[g]
    <2>1. pc \in [Fibers -> {"idle", "try", "arm", "add", "hold"}] /\ wakes \in [Fibers -> Nat]
      BY DEF IInv, CtxPart, TypeOK
    <2>2. CASE Call(f)
      BY <2>1, <2>2 DEF Call
    <2>3. CASE Try(f)
      BY <2>1, <2>3 DEF Try, Return
    <2>4. CASE Arm(f)
      BY <2>1, <2>4 DEF Arm
    <2>5. CASE Resume(f)
      BY <2>1, <2>5 DEF Resume, Return
    <2>6. CASE Expire(f) \/ RunTimer(f)
      BY <2>6 DEF Expire, RunTimer
    <2> QED BY <2>2, <2>3, <2>4, <2>5, <2>6
  <1> QED BY <1>1, <1>2, ReadyQuiet DEF IInv

LEMMA IInvNext ==
  ASSUME IInv, [Next]_vars
  PROVE  IInv'
  <1>0. CtxPart
    BY DEF IInv
  <1>1. CASE UNCHANGED vars
    <2>1. TypeOK' /\ listed' \in BOOLEAN
      BY <1>0, <1>1 DEF CtxPart, TypeOK, vars
    <2>2. CtxPart'
      BY <1>0, <1>1, <2>1, CtxQuiet DEF vars
    <2> QED BY <1>1, <2>2, ReadyQuiet DEF IInv, vars
  <1>2. ASSUME NEW f \in Fibers, Call(f) \/ FiberStep(f) \/ Expire(f) \/ RunTimer(f)
        PROVE  IInv'
    <2>1. CtxPart'
      BY <1>0, <1>2, CtxCall, CtxTry, CtxArm, CtxAddEvent, CtxResume, CtxTimer DEF FiberStep
    <2>2. ReadyInv'
      BY <1>2, ReadyFiber, ReadyAddEvent DEF FiberStep
    <2> QED BY <2>1, <2>2 DEF IInv
  <1>3. ASSUME NEW e \in Events, CancelEvent(e) PROVE IInv'
    BY <1>0, <1>3, CtxCancelEvent, ReadyCancelEvent DEF IInv
  <1>4. ASSUME NEW t \in Threads, EpollWait(t) PROVE IInv'
    BY <1>0, <1>4, CtxEpollWait, ReadyEpollWait DEF IInv
  <1>5. ASSUME NEW t \in Threads, Handle(t) PROVE IInv'
    BY <1>0, <1>5, CtxHandle, ReadyHandle DEF IInv
  <1>6. ASSUME NEW e \in Events \cup {HUP}, Edge(e) PROVE IInv'
    BY <1>0, <1>6, CtxEdge, ReadyEdge DEF IInv
  <1>7. CASE CancelAll
    BY <1>0, <1>7, CtxCancelAll, ReadyCancelAll DEF IInv
  <1>8. CASE Close
    BY <1>0, <1>8, CtxDescriptor, ReadyClose DEF IInv
  <1>9. CASE Reopen
    <2>1. ReadyInv'
      BY <1>9, NoneAssumption DEF Reopen, ctxVars, IInv, ReadyInv, Reported
    <2> QED BY <1>0, <1>9, <2>1, CtxDescriptor DEF IInv
  <1> QED BY <1>1, <1>2, <1>3, <1>4, <1>5, <1>6, <1>7, <1>8, <1>9 DEF Next, ThreadStep

LEMMA IInvAlways == Spec => []IInv
  BY IInvInit, IInvNext, PTL DEF Spec

----------------------------------------------------------------------------
(* The theorems *)

\* Contexts, reports, timers and wake-ups keep their types.
THEOREM ReactorTypeCorrect == Spec => []TypeOK
  <1>1. IInv => TypeOK
    BY DEF IInv, CtxPart
  <1> QED BY <1>1, IInvAlways, PTL

\* In a Debug and in a Release build m_pendingEventCount is the number of
\* registered events less the stale triggers of idle(), and nothing else moves
\* it, for any number of threads and however timeouts and close() race.
THEOREM ReactorPendingExact == Spec => []PendingExact
  <1>1. IInv => PendingExact
    BY DEF IInv, CtxPart
  <1> QED BY <1>1, IInvAlways, PTL

\* The epoll handler, cancelEvent() of a timeout and cancelAll() of a close never
\* schedule a fiber twice for one wait, nor one that does not wait.
THEOREM ReactorWokenOnce == Spec => []WokenOnce
  <1>1. IInv => WokenOnce
    BY DEF IInv, CtxPart, WaitInv, WokenOnce
  <1> QED BY <1>1, IInvAlways, PTL

\* A fiber in YieldToHold() is scheduled, or registered with epoll and, if its
\* condition holds, on the ready list or in a report: edge triggering loses no edge.
THEOREM ReactorNoLostWait == Spec => []NoLostWait
  <1>1. IInv => NoLostWait
    <2> SUFFICES ASSUME IInv, ~raced, ~aborted, NEW f \in Fibers, pc[f] = "hold", wakes[f] # 1
                 PROVE  /\ ctx[Waits[f]] = f
                        /\ interest # None /\ Waits[f] \in events \cap interest
                        /\ level \cap {Waits[f], HUP} # {} =>
                             listed \/ \E t \in Threads : fetched[t] # None
      BY DEF NoLostWait
    <2>1. ctx[Waits[f]] = f
      BY DEF IInv, ReadyInv
    <2>2. Waits[f] \in events
      BY <2>1, WaitsAssumption, NoneAssumption DEF IInv, CtxPart, CtxInv
    <2>3. interest = events /\ interest # None
      BY <2>2, NoneAssumption DEF IInv, ReadyInv, CtxPart, TypeOK
    <2>4. \A c \in level \cap {Waits[f], HUP} : listed \/ Reported(c)
      BY <2>2 DEF IInv, ReadyInv
    <2> QED BY <2>1, <2>2, <2>3, <2>4 DEF Reported
  <1> QED BY <1>1, IInvAlways, PTL

============================================================================
