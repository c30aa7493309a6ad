--------------------------- MODULE SchedulerProofs ---------------------------
(***************************************************************************)
(* Proofs, for any number of workers and fibers, that the scheduler is     *)
(* type correct, that a pinned task never reaches a thread other than its  *)
(* own, that no fiber is ever run by two workers at a time, that none ever *)
(* has two resumptions outstanding, that stop() leaves no task behind that *)
(* a worker could have taken, and that no task is lost while no fiber      *)
(* waits for an event (TasksKept).                                         *)
(***************************************************************************)
EXTENDS Scheduler, FiniteSetTheorems, SequenceTheorems, TLAPS

-----------------------------------------------------------------------------
(* The queue operators.                                                    *)

\* In a finite set of integers every rank below the cardinality is taken.
LEMMA RankExists ==
    ASSUME NEW T, IsFiniteSet(T), T \subseteq Int,
           NEW k \in 1..Cardinality(T)
    PROVE  \E j \in T : Cardinality({i \in T : i < j}) = k - 1
<1> DEFINE below(j) == {i \in T : i < j}
           n == Cardinality(T)
           f == [j \in T |-> Cardinality(below(j))]
<1>1. n \in Nat
  BY FS_CardinalityType
<1>2. ASSUME NEW j \in T
      PROVE  IsFiniteSet(below(j)) /\ Cardinality(below(j)) \in 0..(n - 1)
  <2>1. below(j) \in SUBSET T
    OBVIOUS
  <2>2. IsFiniteSet(below(j)) /\ Cardinality(below(j)) <= n
        /\ (n = Cardinality(below(j)) => T = below(j))
    BY <2>1, FS_Subset
  <2>3. Cardinality(below(j)) \in Nat
    BY <2>2, FS_CardinalityType
  <2>4. j \in T /\ j \notin below(j)
    OBVIOUS
  <2>5. QED
    BY <1>1, <2>2, <2>3, <2>4
<1>3. ASSUME NEW i \in T, NEW j \in T, i < j
      PROVE  f[i] # f[j]
  <2>1. below(i) \in SUBSET below(j)
    <3>1. ASSUME NEW x \in below(i)
          PROVE  x \in below(j)
      <4>1. x \in Int /\ i \in Int /\ j \in Int /\ x < i /\ i < j
        BY <1>3
      <4>2. x < j
        BY <4>1
      <4>3. QED
        BY <4>2
    <3>2. QED
      BY <3>1
  <2>2. i \in below(j) /\ i \notin below(i)
    BY <1>3
  <2>3. Cardinality(below(i)) # Cardinality(below(j))
    BY <1>2, <2>1, <2>2, FS_Subset
  <2>4. QED
    BY <2>3
<1>4. f \in Injection(T, 0..(n - 1))
  <2>1. f \in [T -> 0..(n - 1)]
    BY <1>2
  <2>2. \A i, j \in T : f[i] = f[j] => i = j
    BY <1>3
  <2>3. QED
    BY <2>1, <2>2 DEF Injection, IsInjective
<1>5. IsFiniteSet(0..(n - 1)) /\ Cardinality(0..(n - 1)) = n
  <2>1. n - 1 \in Int
    BY <1>1
  <2>2. Cardinality(0..(n - 1)) = IF 0 > n - 1 THEN 0 ELSE n - 1 - 0 + 1
    BY <2>1, FS_Interval
  <2>3. IsFiniteSet(0..(n - 1))
    BY <2>1, FS_Interval
  <2>4. QED
    BY <1>1, <2>2, <2>3
<1>6. f \in Surjection(T, 0..(n - 1))
  BY <1>4, <1>5, FS_Injection
<1>7. k - 1 \in 0..(n - 1)
  BY <1>1
<1>8. PICK j \in T : f[j] = k - 1
  BY <1>6, <1>7 DEF Surjection
<1>9. QED
  BY <1>8

\* Pick returns a sequence over any set that holds the picked elements.
LEMMA PickSeq ==
    ASSUME NEW q, NEW T, IsFiniteSet(T), T \subseteq Int, NEW S,
           \A j \in T : q[j] \in S
    PROVE  Pick(q, T) \in Seq(S) /\ Len(Pick(q, T)) = Cardinality(T)
<1> DEFINE at(k) == CHOOSE j \in T : Cardinality({i \in T : i < j}) = k - 1
<1>1. Cardinality(T) \in Nat
  BY FS_CardinalityType
<1>2. ASSUME NEW k \in 1..Cardinality(T)
      PROVE  q[at(k)] \in S
  <2>1. \E j \in T : Cardinality({i \in T : i < j}) = k - 1
    BY RankExists
  <2>2. at(k) \in T
    BY <2>1
  <2>3. QED
    BY <2>2
<1>3. Pick(q, T) = [k \in 1..Cardinality(T) |-> q[at(k)]]
  BY DEF Pick
<1> HIDE DEF at
<1>4. QED
  BY <1>1, <1>2, <1>3

\* What is left of a queue is still a queue over the same set.
LEMMA WithoutSeq ==
    ASSUME NEW S, NEW q \in Seq(S), NEW T
    PROVE  Without(q, T) \in Seq(S)
<1>1. IsFiniteSet((DOMAIN q) \ T) /\ (DOMAIN q) \ T \subseteq Int
  <2>1. Len(q) \in Nat /\ DOMAIN q = 1..Len(q)
    BY LenProperties
  <2>2. IsFiniteSet(1..Len(q))
    BY <2>1, FS_Interval
  <2>3. IsFiniteSet((DOMAIN q) \ T)
    BY <2>1, <2>2, FS_Difference
  <2>4. (DOMAIN q) \ T \subseteq Int
    BY <2>1
  <2>5. QED
    BY <2>3, <2>4
<1>2. \A j \in (DOMAIN q) \ T : q[j] \in S
  BY LenProperties
<1>3. QED
  BY <1>1, <1>2, PickSeq DEF Without

\* The reversed order in which stealTask() collects is still a queue.
LEMMA BackwardsSeq ==
    ASSUME NEW S, NEW q \in Seq(S)
    PROVE  Backwards(q) \in Seq(S) /\ Len(Backwards(q)) = Len(q)
<1>1. Len(q) \in Nat /\ q \in [1..Len(q) -> S]
  BY LenProperties
<1>2. \A k \in 1..Len(q) : q[Len(q) + 1 - k] \in S
  BY <1>1
<1>3. QED
  BY <1>1, <1>2 DEF Backwards

\* The positions a batch or a theft takes are finitely many positions of q.
LEMMA MovablePositions ==
    ASSUME NEW S, NEW q \in Seq(S), NEW T \in SUBSET Movable(q)
    PROVE  /\ IsFiniteSet(T)
           /\ T \subseteq Int
           /\ T \subseteq DOMAIN q
<1>1. Len(q) \in Nat /\ DOMAIN q = 1..Len(q)
  BY LenProperties
<1>2. T \in SUBSET (1..Len(q))
  BY <1>1 DEF Movable
<1>3. IsFiniteSet(1..Len(q))
  BY <1>1, FS_Interval
<1>4. IsFiniteSet(T)
  BY <1>2, <1>3, FS_Subset
<1>5. T \subseteq Int /\ T \subseteq DOMAIN q
  BY <1>1, <1>2
<1>6. QED
  BY <1>4, <1>5

-----------------------------------------------------------------------------
(* The inductive invariant.  Typing alone is not inductive: Head(hand[w])  *)
(* is an item only because a worker past "got" holds one.  PinRespected is *)
(* stated through the sets the queues range over, so that it travels with  *)
(* the sequence operators.                                                 *)

FreeItem == [fiber : Fibers, thread : {AnyThread}]

OwnItem(w) == [fiber : Fibers, thread : {AnyThread, w}]

HoldingPC == {"splice", "got", "running", "parking", "settle"}

HandHeld ==
    \A w \in Workers : pc[w] \in HoldingPC => hand[w] # <<>>

PinInv ==
    /\ local \in [Workers -> Seq(FreeItem)]
    /\ \A w \in Workers :
        /\ hand[w] \in Seq(OwnItem(w))
        /\ hand[w] # <<>> => Tail(hand[w]) \in Seq(FreeItem)

IInv == TypeOK /\ HandHeld /\ PinInv

\* The owner and "no thread" are not workers.
LEMMA WorkersFacts ==
    /\ Workers \subseteq Int
    /\ Owner \notin Workers
    /\ AnyThread \notin Workers
BY ConstantsAssumption DEF Workers, Owner, AnyThread

\* Unpinned tasks and a worker's own tasks are queue entries.
LEMMA ItemSets ==
    /\ FreeItem \subseteq Item
    /\ \A w \in Workers : OwnItem(w) \subseteq Item /\ FreeItem \subseteq OwnItem(w)
BY DEF FreeItem, OwnItem, Item

\* Init establishes the inductive invariant.
LEMMA InitIInv == Init => IInv
<1> SUFFICES ASSUME Init PROVE IInv
  OBVIOUS
<1>1. TypeOK
  <2>1. yields \in [Fibers -> 0..MaxYields]
    BY ConstantsAssumption DEF Init
  <2>2. global \in Seq(Item) /\ local \in [Workers -> Seq(Item)]
    BY DEF Init
  <2>3. hand \in [Workers -> Seq(Item)]
    BY DEF Init
  <2>4. scan \in [Workers \cup {Owner} -> Seq(Workers)]
    BY DEF Init
  <2>5. pc \in [Workers \cup {Owner} -> WorkerPC]
    BY DEF Init, WorkerPC
  <2>6. fstate \in [Fibers -> FiberState] /\ parked \in [Fibers -> {"no", "io", "ext"}]
    BY DEF Init, FiberState
  <2>7. idleTerm \subseteq Workers /\ active \in Int /\ stage \in Stages
    BY DEF Init, Stages
  <2>8. autoStop \in BOOLEAN /\ stopFlag \in BOOLEAN
    BY Zenon DEF Init
  <2>9. QED
    BY <2>1, <2>2, <2>3, <2>4, <2>5, <2>6, <2>7, <2>8 DEF TypeOK
<1>2. HandHeld
  BY WorkersFacts DEF Init, HandHeld, HoldingPC
<1>3. PinInv
  BY DEF Init, PinInv
<1>4. QED
  BY <1>1, <1>2, <1>3 DEF IInv

\* The current task of a worker that holds one is an item.
LEMMA CurrentType ==
    ASSUME IInv, NEW w \in Workers, pc[w] \in HoldingPC
    PROVE  /\ hand[w] # <<>>
           /\ Head(hand[w]) \in OwnItem(w)
           /\ Current(w) \in Fibers
           /\ <<Head(hand[w])>> \in Seq(OwnItem(w))
<1>1. hand[w] # <<>> /\ hand[w] \in Seq(OwnItem(w))
  BY DEF IInv, HandHeld, PinInv
<1>2. Head(hand[w]) \in OwnItem(w)
  BY <1>1, HeadTailProperties
<1>3. QED
  BY <1>1, <1>2 DEF Current, OwnItem

\* A step that leaves the queues, the hands and the fibers alone, and sends no
\* worker into the part of run() that needs a task.
LEMMA QuietStep ==
    ASSUME IInv,
           UNCHANGED <<queueVars, fiberVars, hand, active>>,
           pc' \in [Workers \cup {Owner} -> WorkerPC],
           \A w \in Workers : pc'[w] \in HoldingPC => pc[w] \in HoldingPC,
           scan' \in [Workers \cup {Owner} -> Seq(Workers)],
           idleTerm' \subseteq Workers,
           autoStop' \in BOOLEAN, stopFlag' \in BOOLEAN, stage' \in Stages
    PROVE  IInv'
<1>1. UNCHANGED <<global, local, fstate, parked, yields, hand, active>>
  BY DEF queueVars, fiberVars
<1>2. TypeOK'
  BY <1>1 DEF IInv, TypeOK
<1>3. HandHeld'
  BY <1>1 DEF IInv, HandHeld
<1>4. PinInv'
  BY <1>1 DEF IInv, PinInv
<1>5. QED
  BY <1>2, <1>3, <1>4 DEF IInv

\* A step that adds to the queues and may change fibers, but no worker's place.
LEMMA QueueStep ==
    ASSUME IInv,
           UNCHANGED <<hand, pc, scan, idleTerm, active, stopVars>>,
           global' \in Seq(Item),
           local' \in [Workers -> Seq(FreeItem)],
           fstate' \in [Fibers -> FiberState],
           parked' \in [Fibers -> {"no", "io", "ext"}],
           yields' \in [Fibers -> 0..MaxYields]
    PROVE  IInv'
<1>1. UNCHANGED <<hand, pc, scan, idleTerm, active, autoStop, stopFlag, stage>>
  BY DEF stopVars
<1>2. local' \in [Workers -> Seq(Item)]
  BY ItemSets, SeqMonotonic
<1>3. TypeOK'
  BY <1>1, <1>2 DEF IInv, TypeOK
<1>4. HandHeld'
  BY <1>1 DEF IInv, HandHeld
<1>5. PinInv'
  BY <1>1 DEF IInv, PinInv
<1>6. QED
  BY <1>3, <1>4, <1>5 DEF IInv

\* What schedule() leaves in the queues.
LEMMA ScheduleTypes ==
    ASSUME IInv, NEW f \in Fibers, NEW thread \in Workers \cup {AnyThread}
    PROVE  /\ ScheduleGlobal(f, thread) =>
                /\ global' \in Seq(Item)
                /\ local' \in [Workers -> Seq(FreeItem)]
           /\ \A w \in Workers : ScheduleFrom(w, f, thread) =>
                /\ global' \in Seq(Item)
                /\ local' \in [Workers -> Seq(FreeItem)]
<1> DEFINE item == [fiber |-> f, thread |-> thread]
<1>1. item \in Item /\ Append(global, item) \in Seq(Item)
  <2>1. item \in Item
    BY DEF Item
  <2>2. global \in Seq(Item)
    BY DEF IInv, TypeOK
  <2>3. QED
    BY <2>1, <2>2, AppendProperties
<1>2. local \in [Workers -> Seq(FreeItem)]
  BY DEF IInv, PinInv
<1>3. ASSUME NEW w \in Workers, thread = AnyThread
      PROVE  Append(local[w], item) \in Seq(FreeItem)
  <2>1. item \in FreeItem
    BY <1>3 DEF FreeItem
  <2>2. QED
    BY <1>2, <2>1, AppendProperties
<1>4. ScheduleGlobal(f, thread) =>
        global' \in Seq(Item) /\ local' \in [Workers -> Seq(FreeItem)]
  BY <1>1, <1>2 DEF ScheduleGlobal
<1>5. ASSUME NEW w \in Workers, ScheduleFrom(w, f, thread)
      PROVE  global' \in Seq(Item) /\ local' \in [Workers -> Seq(FreeItem)]
  <2>1. CASE thread = AnyThread
    <3>1. global' = global /\ local' = [local EXCEPT ![w] = Append(local[w], item)]
      BY <1>5, <2>1 DEF ScheduleFrom
    <3>2. QED
      BY <1>2, <1>3, <2>1, <3>1 DEF IInv, TypeOK
  <2>2. CASE thread # AnyThread
    BY <1>1, <1>2, <1>5, <2>2 DEF ScheduleFrom
  <2>3. QED
    BY <2>1, <2>2
<1>6. QED
  BY <1>4, <1>5

-----------------------------------------------------------------------------
(* One lemma per group of actions.                                         *)

\* schedule() from outside and wake-ups from other schedulers.
LEMMA ClientIInv ==
    ASSUME IInv, Client
    PROVE  IInv'
<1>1. ASSUME NEW f \in Fibers, NEW thread \in Pins, Submit(f, thread)
      PROVE  IInv'
  <2>1. thread \in Workers \cup {AnyThread}
    BY ConstantsAssumption
  <2>2. global' \in Seq(Item) /\ local' \in [Workers -> Seq(FreeItem)]
    BY <1>1, <2>1, ScheduleTypes DEF Submit
  <2>3. fstate' \in [Fibers -> FiberState] /\ UNCHANGED <<parked, yields>>
    BY <1>1 DEF Submit, IInv, TypeOK, FiberState
  <2>4. UNCHANGED <<hand, pc, scan, idleTerm, active, stopVars>>
    BY <1>1 DEF Submit
  <2>5. parked' \in [Fibers -> {"no", "io", "ext"}] /\ yields' \in [Fibers -> 0..MaxYields]
    BY <2>3 DEF IInv, TypeOK
  <2>6. QED
    BY <2>2, <2>3, <2>4, <2>5, QueueStep
<1>2. ASSUME NEW f \in Fibers, ExternalWake(f)
      PROVE  IInv'
  <2>1. global' \in Seq(Item) /\ local' \in [Workers -> Seq(FreeItem)]
    BY <1>2, ScheduleTypes DEF ExternalWake
  <2>2. parked' \in [Fibers -> {"no", "io", "ext"}] /\ UNCHANGED <<fstate, yields>>
    BY <1>2 DEF ExternalWake, IInv, TypeOK
  <2>3. UNCHANGED <<hand, pc, scan, idleTerm, active, stopVars>>
    BY <1>2 DEF ExternalWake
  <2>4. fstate' \in [Fibers -> FiberState] /\ yields' \in [Fibers -> 0..MaxYields]
    BY <2>2 DEF IInv, TypeOK
  <2>5. QED
    BY <2>1, <2>2, <2>3, <2>4, QueueStep
<1>3. QED
  BY <1>1, <1>2 DEF Client

\* Spawn, SpawnGlobal, FiberWake and PollWake only add to the queues.
LEMMA SpawnWakeIInv ==
    ASSUME IInv, NEW w \in Workers, NEW f \in Fibers
    PROVE  /\ \A thread \in Pins : Spawn(w, f, thread) => IInv'
           /\ SpawnGlobal(w, f) => IInv'
           /\ FiberWake(w, f) => IInv'
           /\ PollWake(w, f) => IInv'
<1>1. ASSUME NEW thread \in Workers \cup {AnyThread},
             ScheduleFrom(w, f, thread) \/ ScheduleGlobal(f, thread),
             fstate' = [fstate EXCEPT ![f] = "INIT"],
             UNCHANGED <<parked, yields, hand, pc, scan, idleTerm, active, stopVars>>
      PROVE  IInv'
  <2>1. global' \in Seq(Item) /\ local' \in [Workers -> Seq(FreeItem)]
    BY <1>1, ScheduleTypes
  <2>2. /\ fstate' \in [Fibers -> FiberState]
        /\ parked' \in [Fibers -> {"no", "io", "ext"}]
        /\ yields' \in [Fibers -> 0..MaxYields]
    BY <1>1 DEF IInv, TypeOK, FiberState
  <2>3. QED
    BY <1>1, <2>1, <2>2, QueueStep
<1>2. ASSUME ScheduleFrom(w, f, AnyThread),
             parked' = [parked EXCEPT ![f] = "no"],
             UNCHANGED <<fstate, yields, hand, pc, scan, idleTerm, active, stopVars>>
      PROVE  IInv'
  <2>1. global' \in Seq(Item) /\ local' \in [Workers -> Seq(FreeItem)]
    BY <1>2, ScheduleTypes
  <2>2. /\ fstate' \in [Fibers -> FiberState]
        /\ parked' \in [Fibers -> {"no", "io", "ext"}]
        /\ yields' \in [Fibers -> 0..MaxYields]
    BY <1>2 DEF IInv, TypeOK, FiberState
  <2>3. QED
    BY <1>2, <2>1, <2>2, QueueStep
<1>3. ASSUME NEW thread \in Pins, Spawn(w, f, thread)
      PROVE  IInv'
  BY <1>1, <1>3, ConstantsAssumption DEF Spawn
<1>4. SpawnGlobal(w, f) => IInv'
  BY <1>1 DEF SpawnGlobal
<1>5. FiberWake(w, f) => IInv'
  BY <1>2 DEF FiberWake
<1>6. PollWake(w, f) => IInv'
  BY <1>2 DEF PollWake
<1>7. QED
  BY <1>3, <1>4, <1>5, <1>6

\* A worker's hand and queue may change if they keep to the item sets.
LEMMA WorkerStep ==
    ASSUME IInv, NEW w \in Workers,
           UNCHANGED <<idleTerm, stopVars>>,
           global' \in Seq(Item),
           local' \in [Workers -> Seq(FreeItem)],
           fstate' \in [Fibers -> FiberState],
           parked' \in [Fibers -> {"no", "io", "ext"}],
           yields' \in [Fibers -> 0..MaxYields],
           active' \in Int,
           scan' \in [Workers \cup {Owner} -> Seq(Workers)],
           NEW place \in WorkerPC, pc' = [pc EXCEPT ![w] = place],
           NEW new \in Seq(OwnItem(w)), hand' = [hand EXCEPT ![w] = new],
           place \in HoldingPC => new # <<>>,
           new # <<>> => Tail(new) \in Seq(FreeItem)
    PROVE  IInv'
<1>1. UNCHANGED <<idleTerm, autoStop, stopFlag, stage>>
  BY DEF stopVars
<1>2. local' \in [Workers -> Seq(Item)]
  BY ItemSets, SeqMonotonic
<1>3. new \in Seq(Item)
  BY ItemSets, SeqMonotonic
<1>4. hand' \in [Workers -> Seq(Item)]
  BY <1>3 DEF IInv, TypeOK
<1>5. pc' \in [Workers \cup {Owner} -> WorkerPC]
  BY DEF IInv, TypeOK
<1>6. TypeOK'
  BY <1>1, <1>2, <1>4, <1>5 DEF IInv, TypeOK
<1>7. HandHeld'
  BY DEF IInv, HandHeld, TypeOK
<1>8. PinInv'
  BY DEF IInv, PinInv, TypeOK
<1>9. QED
  BY <1>6, <1>7, <1>8 DEF IInv

\* The empty hand and a hand of one item meet the conditions of WorkerStep.
LEMMA SmallHands ==
    ASSUME NEW w \in Workers
    PROVE  /\ <<>> \in Seq(OwnItem(w))
           /\ \A x \in OwnItem(w) :
                /\ <<x>> \in Seq(OwnItem(w))
                /\ <<x>> # <<>>
                /\ Tail(<<x>>) \in Seq(FreeItem)
OBVIOUS

\* popLocalTask(): what it takes is unpinned.
LEMMA PopLocalIInv ==
    ASSUME IInv, NEW w \in Workers, PopLocal(w)
    PROVE  IInv'
<1> DEFINE q == local[w]
<1>1. q \in Seq(FreeItem) /\ local \in [Workers -> Seq(FreeItem)]
  BY DEF IInv, PinInv
<1>2. UNCHANGED <<idleTerm, stopVars>>
  BY DEF PopLocal
<1>3. /\ global' \in Seq(Item)
      /\ fstate' \in [Fibers -> FiberState]
      /\ parked' \in [Fibers -> {"no", "io", "ext"}]
      /\ yields' \in [Fibers -> 0..MaxYields]
      /\ active' \in Int
      /\ scan' \in [Workers \cup {Owner} -> Seq(Workers)]
  BY DEF PopLocal, fiberVars, IInv, TypeOK
<1>4. ASSUME NEW i \in DOMAIN q,
             local' = [local EXCEPT ![w] = SubSeq(q, i + 1, Len(q))],
             hand' = [hand EXCEPT ![w] = <<q[i]>>],
             pc' = [pc EXCEPT ![w] = "got"]
      PROVE  IInv'
  <2>1. Len(q) \in Nat /\ DOMAIN q = 1..Len(q) /\ i \in 1..Len(q)
    BY <1>1, LenProperties
  <2>2. \A j \in (i + 1)..Len(q) : q[j] \in FreeItem
    BY <1>1, <2>1, ElementOfSeq
  <2>3. SubSeq(q, i + 1, Len(q)) \in Seq(FreeItem)
    BY <2>1, <2>2, SubSeqProperties
  <2>4. local' \in [Workers -> Seq(FreeItem)]
    BY <1>1, <1>4, <2>3
  <2>5. q[i] \in OwnItem(w)
    BY <1>1, <2>1, ElementOfSeq, ItemSets
  <2>6. <<q[i]>> \in Seq(OwnItem(w)) /\ <<q[i]>> # <<>> /\ Tail(<<q[i]>>) \in Seq(FreeItem)
    BY <2>5, SmallHands
  <2>7. "got" \in WorkerPC
    BY DEF WorkerPC
  <2> HIDE DEF q
  <2>8. QED
    BY <1>2, <1>3, <1>4, <2>4, <2>6, <2>7, WorkerStep
<1>5. ASSUME local' = [local EXCEPT ![w] = <<>>],
             pc' = [pc EXCEPT ![w] = "global"],
             hand' = hand
      PROVE  IInv'
  <2>1. local' \in [Workers -> Seq(FreeItem)]
    BY <1>1, <1>5
  <2>2. hand' = [hand EXCEPT ![w] = hand[w]] /\ hand[w] \in Seq(OwnItem(w))
        /\ (hand[w] # <<>> => Tail(hand[w]) \in Seq(FreeItem))
    BY <1>5 DEF IInv, TypeOK, PinInv
  <2>3. "global" \in WorkerPC /\ "global" \notin HoldingPC
    BY DEF WorkerPC, HoldingPC
  <2>4. QED
    BY <1>2, <1>3, <1>5, <2>1, <2>2, <2>3, WorkerStep
<1>6. QED
  BY <1>4, <1>5 DEF PopLocal

\* A hand made of one own item and of free items.
LEMMA ConsHand ==
    ASSUME NEW w \in Workers, NEW x \in OwnItem(w), NEW rest \in Seq(FreeItem)
    PROVE  /\ <<x>> \o rest \in Seq(OwnItem(w))
           /\ <<x>> \o rest # <<>>
           /\ Tail(<<x>> \o rest) \in Seq(FreeItem)
<1>1. rest \in Seq(OwnItem(w)) /\ <<x>> \in Seq(OwnItem(w)) /\ Len(<<x>>) = 1
  BY ItemSets, SeqMonotonic
<1>2. <<x>> \o rest \in Seq(OwnItem(w)) /\ Len(<<x>> \o rest) = 1 + Len(rest)
  BY <1>1, ConcatProperties
<1>3. Len(rest) \in Nat
  BY LenProperties
<1>4. <<x>> \o rest # <<>>
  BY <1>2, <1>3, EmptySeq
<1>5. Tail(<<x>> \o rest) = rest
  BY <1>1, <1>2, <1>4
<1>6. QED
  BY <1>2, <1>4, <1>5

\* stealTask() visits workers only.
LEMMA VictimsType ==
    ASSUME NEW w \in Workers, NEW start \in 0..(NWorkers - 1)
    PROVE  Victims(w, start) \in Seq(Workers)
<1> DEFINE all == [k \in 1..NWorkers |-> 1 + ((start + (k - 1)) % NWorkers)]
           T == {k \in 1..NWorkers : all[k] # w}
<1>1. NWorkers \in Nat \ {0}
  BY ConstantsAssumption
<1>2. ASSUME NEW k \in 1..NWorkers
      PROVE  all[k] \in Workers
  <2>1. start + (k - 1) \in Nat
    BY <1>1
  <2>2. (start + (k - 1)) % NWorkers \in 0..(NWorkers - 1)
    BY <1>1, <2>1
  <2>3. QED
    BY <1>1, <2>2 DEF Workers
<1>3. IsFiniteSet(1..NWorkers)
  BY <1>1, FS_Interval
<1>4. IsFiniteSet(T)
  BY <1>3, FS_Subset
<1>5. T \subseteq Int /\ T \subseteq 1..NWorkers
  BY <1>1
<1>6. Victims(w, start) = Pick(all, T)
  BY DEF Victims
<1> HIDE DEF all, T
<1>7. QED
  BY <1>2, <1>4, <1>5, <1>6, PickSeq

\* popGlobalTask(): the task is the worker's own or free, the batch is free.
LEMMA PopGlobalIInv ==
    ASSUME IInv, NEW w \in Workers, PopGlobal(w)
    PROVE  IInv'
<1>1. UNCHANGED <<idleTerm, stopVars>> /\ global \in Seq(Item)
  BY DEF PopGlobal, IInv, TypeOK
<1>2. /\ local' \in [Workers -> Seq(FreeItem)]
      /\ fstate' \in [Fibers -> FiberState]
      /\ parked' \in [Fibers -> {"no", "io", "ext"}]
      /\ yields' \in [Fibers -> 0..MaxYields]
      /\ active' \in Int
  BY DEF PopGlobal, fiberVars, IInv, TypeOK, PinInv
<1>3. ASSUME NEW i \in Eligible(w, global),
             NEW batch \in SUBSET Movable(global),
             hand' = [hand EXCEPT ![w] = <<global[i]>> \o Pick(global, batch)],
             global' = Without(global, {i} \cup batch),
             NEW place \in {"got", "splice"},
             pc' = [pc EXCEPT ![w] = place],
             scan' = scan
      PROVE  IInv'
  <2>1. global' \in Seq(Item)
    BY <1>1, <1>3, WithoutSeq
  <2>2. global[i] \in OwnItem(w)
    <3>1. i \in DOMAIN global /\ global[i].thread \in {AnyThread, w}
      BY DEF Eligible
    <3>2. global[i] \in Item
      BY <1>1, <3>1, LenProperties
    <3>3. QED
      BY <3>1, <3>2 DEF Item, OwnItem
  <2>3. Pick(global, batch) \in Seq(FreeItem)
    <3>1. IsFiniteSet(batch) /\ batch \subseteq Int /\ batch \subseteq DOMAIN global
      BY <1>1, MovablePositions
    <3>2. \A j \in batch : global[j] \in Item /\ global[j].thread = AnyThread
      BY <1>1, <3>1, LenProperties DEF Movable
    <3>3. \A j \in batch : global[j] \in FreeItem
      BY <3>2 DEF Item, FreeItem
    <3>4. QED
      BY <3>1, <3>3, PickSeq
  <2>4. /\ <<global[i]>> \o Pick(global, batch) \in Seq(OwnItem(w))
        /\ <<global[i]>> \o Pick(global, batch) # <<>>
        /\ Tail(<<global[i]>> \o Pick(global, batch)) \in Seq(FreeItem)
    BY <2>2, <2>3, ConsHand
  <2>5. scan' \in [Workers \cup {Owner} -> Seq(Workers)]
    BY <1>3 DEF IInv, TypeOK
  <2>6. place \in WorkerPC
    BY DEF WorkerPC
  <2>7. QED
    BY <1>1, <1>2, <1>3, <2>1, <2>4, <2>5, <2>6, WorkerStep
<1>4. ASSUME NEW start \in 0..(NWorkers - 1),
             scan' = [scan EXCEPT ![w] = Victims(w, start)],
             pc' = [pc EXCEPT ![w] = "steal"],
             UNCHANGED <<global, hand>>
      PROVE  IInv'
  <2>1. scan' \in [Workers \cup {Owner} -> Seq(Workers)]
    BY <1>4, VictimsType DEF IInv, TypeOK
  <2>2. pc' \in [Workers \cup {Owner} -> WorkerPC]
        /\ \A v \in Workers : pc'[v] \in HoldingPC => pc[v] \in HoldingPC
    BY <1>4 DEF IInv, TypeOK, WorkerPC, HoldingPC
  <2>3. UNCHANGED <<queueVars, fiberVars, hand, active>>
    BY <1>4 DEF PopGlobal, queueVars
  <2>4. idleTerm' \subseteq Workers /\ autoStop' \in BOOLEAN
        /\ stopFlag' \in BOOLEAN /\ stage' \in Stages
    BY <1>1 DEF stopVars, IInv, TypeOK
  <2>5. QED
    BY <2>1, <2>2, <2>3, <2>4, QuietStep
<1>5. ASSUME NEW i \in Eligible(w, global),
             NEW batch,
             batch = IF global[i].thread = AnyThread
                     THEN FirstOf({j \in Movable(global) : j > i}, Half(global) - 1)
                     ELSE {}
      PROVE  batch \in SUBSET Movable(global)
  BY <1>5 DEF FirstOf
<1>6. CASE Eligible(w, global) = {}
  BY <1>4, <1>6 DEF PopGlobal
<1>7. CASE Eligible(w, global) # {}
  <2>1. PICK i \in Eligible(w, global) :
          LET after == {j \in Movable(global) : j > i}
              batch == IF global[i].thread = AnyThread
                       THEN FirstOf(after, Half(global) - 1)
                       ELSE {}
          IN  /\ hand' = [hand EXCEPT ![w] = <<global[i]>> \o Pick(global, batch)]
              /\ global' = Without(global, {i} \cup batch)
              /\ pc' = [pc EXCEPT ![w] = IF batch = {} THEN "got" ELSE "splice"]
              /\ scan' = scan
    BY <1>7 DEF PopGlobal
  <2> DEFINE batch == IF global[i].thread = AnyThread
                      THEN FirstOf({j \in Movable(global) : j > i}, Half(global) - 1)
                      ELSE {}
  <2>2. batch \in SUBSET Movable(global)
    BY <1>5
  <2>3. /\ hand' = [hand EXCEPT ![w] = <<global[i]>> \o Pick(global, batch)]
        /\ global' = Without(global, {i} \cup batch)
        /\ pc' = [pc EXCEPT ![w] = IF batch = {} THEN "got" ELSE "splice"]
        /\ scan' = scan
    BY <2>1
  <2> HIDE DEF batch
  <2>4. QED
    BY <1>3, <2>2, <2>3
<1>8. QED
  BY <1>6, <1>7

\* stealTask(): only unpinned tasks change queues.
LEMMA StealFromIInv ==
    ASSUME IInv, NEW w \in Workers, StealFrom(w)
    PROVE  IInv'
<1> DEFINE v == Head(scan[w])
           q == local[v]
           taken == LastOf(Movable(q), Half(q))
<1>1. UNCHANGED <<idleTerm, stopVars>>
  BY DEF StealFrom
<1>2. scan \in [Workers \cup {Owner} -> Seq(Workers)] /\ scan[w] \in Seq(Workers)
      /\ scan[w] # <<>>
  BY DEF StealFrom, IInv, TypeOK
<1>3. v \in Workers /\ Tail(scan[w]) \in Seq(Workers)
  BY <1>2, HeadTailProperties
<1>4. local \in [Workers -> Seq(FreeItem)] /\ q \in Seq(FreeItem)
  BY <1>3 DEF IInv, PinInv
<1>5. CASE taken = {}
  <2>1. /\ scan' = [scan EXCEPT ![w] = Tail(@)]
        /\ UNCHANGED <<local, hand, pc>>
    BY <1>5 DEF StealFrom
  <2>2. scan' \in [Workers \cup {Owner} -> Seq(Workers)]
    BY <1>2, <1>3, <2>1
  <2>3. UNCHANGED <<queueVars, fiberVars, hand, active>>
    BY <2>1 DEF StealFrom, queueVars
  <2>4. pc' \in [Workers \cup {Owner} -> WorkerPC]
        /\ \A u \in Workers : pc'[u] \in HoldingPC => pc[u] \in HoldingPC
    BY <2>1 DEF IInv, TypeOK
  <2>5. idleTerm' \subseteq Workers /\ autoStop' \in BOOLEAN
        /\ stopFlag' \in BOOLEAN /\ stage' \in Stages
    BY <1>1 DEF stopVars, IInv, TypeOK
  <2>6. QED
    BY <2>2, <2>3, <2>4, <2>5, QuietStep
<1>6. CASE taken # {}
  <2> DEFINE new == Backwards(Pick(q, taken))
             place == IF Cardinality(taken) = 1 THEN "got" ELSE "splice"
  <2>1. /\ local' = [local EXCEPT ![v] = Without(q, taken)]
        /\ hand' = [hand EXCEPT ![w] = new]
        /\ scan' = [scan EXCEPT ![w] = <<>>]
        /\ pc' = [pc EXCEPT ![w] = place]
    BY <1>6 DEF StealFrom
  <2>2. taken \in SUBSET Movable(q)
    BY DEF LastOf
  <2>3. IsFiniteSet(taken) /\ taken \subseteq Int /\ taken \subseteq DOMAIN q
    BY <1>4, <2>2, MovablePositions
  <2>4. \A j \in taken : q[j] \in FreeItem
    BY <1>4, <2>3, LenProperties
  <2>5. Without(q, taken) \in Seq(FreeItem)
    BY <1>4, WithoutSeq
  <2> HIDE DEF q, taken, v
  <2>6. Pick(q, taken) \in Seq(FreeItem) /\ Len(Pick(q, taken)) = Cardinality(taken)
    BY <2>3, <2>4, PickSeq
  <2>7. new \in Seq(FreeItem) /\ Len(new) = Cardinality(taken)
    BY <2>6, BackwardsSeq
  <2>8. Cardinality(taken) \in Nat \ {0}
    BY <1>6, <2>3, FS_CardinalityType, FS_EmptySet
  <2>9. new # <<>>
    BY <2>7, <2>8, EmptySeq
  <2> HIDE DEF new
  <2>10. new \in Seq(OwnItem(w)) /\ Tail(new) \in Seq(FreeItem)
    BY <2>7, <2>9, HeadTailProperties, ItemSets, SeqMonotonic
  <2>11. local' \in [Workers -> Seq(FreeItem)]
    BY <1>4, <2>1, <2>5
  <2>12. scan' \in [Workers \cup {Owner} -> Seq(Workers)]
    BY <1>2, <2>1
  <2>13. /\ global' \in Seq(Item)
         /\ fstate' \in [Fibers -> FiberState]
         /\ parked' \in [Fibers -> {"no", "io", "ext"}]
         /\ yields' \in [Fibers -> 0..MaxYields]
         /\ active' \in Int
    BY DEF StealFrom, fiberVars, IInv, TypeOK
  <2>14. place \in WorkerPC
    BY DEF WorkerPC
  <2> HIDE DEF place
  <2>15. QED
    BY <1>1, <2>1, <2>9, <2>10, <2>11, <2>12, <2>13, <2>14, WorkerStep
<1>7. QED
  BY <1>5, <1>6

\* The rest of a batch or theft, all unpinned, enters the worker's queue.
LEMMA SpliceIInv ==
    ASSUME IInv, NEW w \in Workers, Splice(w)
    PROVE  IInv'
<1>1. pc[w] \in HoldingPC
  BY DEF Splice, HoldingPC
<1>2. Head(hand[w]) \in OwnItem(w) /\ hand[w] # <<>>
  BY <1>1, CurrentType
<1>3. Tail(hand[w]) \in Seq(FreeItem) /\ local \in [Workers -> Seq(FreeItem)]
  BY <1>2 DEF IInv, PinInv
<1>4. local[w] \o Tail(hand[w]) \in Seq(FreeItem)
  BY <1>3, ConcatProperties
<1>5. local' \in [Workers -> Seq(FreeItem)]
  BY <1>3, <1>4 DEF Splice
<1>6. /\ global' \in Seq(Item)
      /\ fstate' \in [Fibers -> FiberState]
      /\ parked' \in [Fibers -> {"no", "io", "ext"}]
      /\ yields' \in [Fibers -> 0..MaxYields]
      /\ active' \in Int
      /\ scan' \in [Workers \cup {Owner} -> Seq(Workers)]
      /\ UNCHANGED <<idleTerm, stopVars>>
  BY DEF Splice, fiberVars, IInv, TypeOK
<1>7. hand' = [hand EXCEPT ![w] = <<Head(hand[w])>>] /\ pc' = [pc EXCEPT ![w] = "got"]
  BY DEF Splice
<1>8. "got" \in WorkerPC
  BY DEF WorkerPC
<1>9. QED
  BY <1>2, <1>5, <1>6, <1>7, <1>8, SmallHands, WorkerStep

\* run() dispatches a task and settles it; READY fibers return unpinned.
LEMMA RunTaskIInv ==
    ASSUME IInv, NEW w \in Workers, RunTask(w)
    PROVE  IInv'
<1> DEFINE f == Current(w)
<1>1. pc[w] \in HoldingPC
  BY DEF RunTask, Dispatch, Settle, HoldingPC
<1>2. f \in Fibers /\ hand[w] # <<>>
  BY <1>1, CurrentType
<1>3. /\ local \in [Workers -> Seq(FreeItem)] /\ global \in Seq(Item)
      /\ hand[w] \in Seq(OwnItem(w)) /\ Tail(hand[w]) \in Seq(FreeItem)
  BY <1>2 DEF IInv, PinInv, TypeOK
<1>4. /\ parked' \in [Fibers -> {"no", "io", "ext"}]
      /\ yields' \in [Fibers -> 0..MaxYields]
      /\ scan' \in [Workers \cup {Owner} -> Seq(Workers)]
      /\ UNCHANGED <<idleTerm, stopVars>>
  BY DEF RunTask, Dispatch, Settle, IInv, TypeOK
<1>5. "local" \in WorkerPC /\ "running" \in WorkerPC /\ "local" \notin HoldingPC
  BY DEF WorkerPC, HoldingPC
<1>6. CASE Dispatch(w)
  <2>1. global' \in Seq(Item) /\ local' \in [Workers -> Seq(FreeItem)]
    BY <1>3, <1>6 DEF Dispatch, queueVars
  <2>2. fstate' \in [Fibers -> FiberState] /\ active' \in Int
    <3>1. fstate \in [Fibers -> FiberState] /\ active \in Int
      BY DEF IInv, TypeOK
    <3>2. \/ fstate' = fstate /\ active' = active
          \/ fstate' = [fstate EXCEPT ![f] = "EXEC"] /\ active' = active + 1
      BY <1>6 DEF Dispatch
    <3>3. "EXEC" \in FiberState
      BY DEF FiberState
    <3>4. QED
      BY <1>2, <3>1, <3>2, <3>3
  <2>3. CASE fstate[f] \in {"TERM", "EXCEPT"}
    <3>1. hand' = [hand EXCEPT ![w] = <<>>] /\ pc' = [pc EXCEPT ![w] = "local"]
      BY <1>6, <2>3 DEF Dispatch
    <3>2. QED
      BY <1>4, <1>5, <2>1, <2>2, <3>1, SmallHands, WorkerStep
  <2>4. CASE fstate[f] \notin {"TERM", "EXCEPT"}
    <3>1. hand' = hand /\ pc' = [pc EXCEPT ![w] = "running"]
      BY <1>6, <2>4 DEF Dispatch
    <3>2. hand' = [hand EXCEPT ![w] = hand[w]]
      BY <3>1 DEF IInv, TypeOK
    <3>3. QED
      BY <1>2, <1>3, <1>4, <1>5, <2>1, <2>2, <3>1, <3>2, WorkerStep
  <2>5. QED
    BY <2>3, <2>4
<1>7. CASE Settle(w)
  <2>1. hand' = [hand EXCEPT ![w] = <<>>] /\ pc' = [pc EXCEPT ![w] = "local"]
        /\ active' \in Int
    BY <1>7 DEF Settle, IInv, TypeOK
  <2>2. /\ global' \in Seq(Item)
        /\ local' \in [Workers -> Seq(FreeItem)]
        /\ fstate' \in [Fibers -> FiberState]
    <3>1. fstate \in [Fibers -> FiberState]
      BY DEF IInv, TypeOK
    <3>2. CASE fstate[f] = "READY"
      <4>1. ScheduleFrom(w, f, AnyThread) /\ fstate' = fstate
        BY <1>7, <3>2 DEF Settle
      <4>2. QED
        BY <1>2, <3>1, <4>1, ScheduleTypes
    <3>3. CASE fstate[f] \in {"TERM", "EXCEPT"}
      BY <1>3, <1>7, <3>1, <3>3 DEF Settle, queueVars
    <3>4. CASE fstate[f] \notin {"READY", "TERM", "EXCEPT"}
      <4>1. fstate' = [fstate EXCEPT ![f] = "HOLD"] /\ UNCHANGED queueVars
        BY <1>7, <3>4 DEF Settle
      <4>2. "HOLD" \in FiberState
        BY DEF FiberState
      <4>3. QED
        BY <1>2, <1>3, <3>1, <4>1, <4>2 DEF queueVars
    <3>5. QED
      BY <3>2, <3>3, <3>4
  <2>3. QED
    BY <1>4, <1>5, <2>1, <2>2, SmallHands, WorkerStep
<1>8. QED
  BY <1>6, <1>7 DEF RunTask

\* A fiber that yields or ends leaves queues and hands alone.
LEMMA GiveUpIInv ==
    ASSUME IInv, NEW w \in Workers, GiveUp(w)
    PROVE  IInv'
<1> DEFINE f == Current(w)
<1>1. pc[w] \in HoldingPC
  BY DEF GiveUp, YieldToReady, Park, YieldToHold, Finish, HoldingPC
<1>2. f \in Fibers /\ hand[w] # <<>>
  BY <1>1, CurrentType
<1>3. /\ global' \in Seq(Item)
      /\ local' \in [Workers -> Seq(FreeItem)]
      /\ active' \in Int
      /\ scan' \in [Workers \cup {Owner} -> Seq(Workers)]
      /\ UNCHANGED <<idleTerm, stopVars>>
      /\ hand' = hand
      /\ \E place \in {"parking", "settle"} : pc' = [pc EXCEPT ![w] = place]
  <2>1. SwapOut(w) \/ \E how \in Holds : Park(w, how)
    BY DEF GiveUp, YieldToReady, YieldToHold, Finish
  <2>2. /\ UNCHANGED <<queueVars, hand, scan, idleTerm, stopVars>>
        /\ \/ active' = active - 1 /\ pc' = [pc EXCEPT ![w] = "settle"]
           \/ active' = active /\ pc' = [pc EXCEPT ![w] = "parking"]
    BY <2>1 DEF SwapOut, Park
  <2>3. /\ global \in Seq(Item) /\ local \in [Workers -> Seq(FreeItem)]
        /\ active \in Int /\ scan \in [Workers \cup {Owner} -> Seq(Workers)]
    BY DEF IInv, TypeOK, PinInv
  <2>4. QED
    BY <2>2, <2>3 DEF queueVars
<1>4. PICK place \in {"parking", "settle"} : pc' = [pc EXCEPT ![w] = place]
  BY <1>3
<1>5. /\ hand' = [hand EXCEPT ![w] = hand[w]]
      /\ hand[w] \in Seq(OwnItem(w)) /\ Tail(hand[w]) \in Seq(FreeItem)
  BY <1>2, <1>3 DEF IInv, TypeOK, PinInv
<1>6. /\ fstate \in [Fibers -> FiberState]
      /\ parked \in [Fibers -> {"no", "io", "ext"}]
      /\ yields \in [Fibers -> 0..MaxYields]
  BY DEF IInv, TypeOK
<1>7. yields[f] < MaxYields => [yields EXCEPT ![f] = @ + 1] \in [Fibers -> 0..MaxYields]
  BY <1>2, <1>6, ConstantsAssumption
<1>8. /\ fstate' \in [Fibers -> FiberState]
      /\ parked' \in [Fibers -> {"no", "io", "ext"}]
      /\ yields' \in [Fibers -> 0..MaxYields]
  <2>1. CASE YieldToReady(w)
    BY <1>2, <1>6, <1>7, <2>1 DEF YieldToReady, CountYield, FiberState
  <2>2. ASSUME NEW how \in Holds, Park(w, how)
        PROVE  <1>8!1 /\ <1>8!2 /\ <1>8!3
    <3>1. how \in {"no", "io", "ext"}
      BY ConstantsAssumption
    <3>2. QED
      BY <1>2, <1>6, <1>7, <2>2, <3>1 DEF Park, CountYield
  <2>3. CASE YieldToHold(w)
    BY <1>6, <2>3 DEF YieldToHold, fiberVars
  <2>4. ASSUME NEW end \in {"TERM", "EXCEPT"}, Finish(w, end)
        PROVE  <1>8!1 /\ <1>8!2 /\ <1>8!3
    BY <1>2, <1>6, <2>4 DEF Finish, FiberState
  <2>5. QED
    BY <2>1, <2>2, <2>3, <2>4 DEF GiveUp
<1>9. place \in WorkerPC
  BY DEF WorkerPC
<1>10. QED
  BY <1>2, <1>3, <1>4, <1>5, <1>8, <1>9, WorkerStep

\* stopping(), idle(), start() and stop() only move program counters.
LEMMA ControlIInv ==
    ASSUME IInv
    PROVE  /\ \A p \in Workers \cup {Owner} : StoppingCall(p) => IInv'
           /\ \A w \in Workers : NoTask(w) \/ LeaveIdle(w) => IInv'
           /\ Start \/ StopBegin \/ StopStep => IInv'
<1>1. /\ pc \in [Workers \cup {Owner} -> WorkerPC]
      /\ scan \in [Workers \cup {Owner} -> Seq(Workers)]
      /\ idleTerm \subseteq Workers
      /\ autoStop \in BOOLEAN /\ stopFlag \in BOOLEAN /\ stage \in Stages
  BY DEF IInv, TypeOK
<1>2. ASSUME NEW p \in Workers \cup {Owner}, NEW place \in WorkerPC,
             place \notin HoldingPC, pc' = [pc EXCEPT ![p] = place]
      PROVE  /\ pc' \in [Workers \cup {Owner} -> WorkerPC]
             /\ \A w \in Workers : pc'[w] \in HoldingPC => pc[w] \in HoldingPC
  BY <1>1, <1>2
<1>3. \A place \in {"off", "exit", "pend", "local", "lock", "scan", "yes", "no"} :
          place \in WorkerPC /\ place \notin HoldingPC
  BY DEF WorkerPC, HoldingPC
<1>4. \A st \in {"new", "up", "first", "second", "call", "join", "down"} : st \in Stages
  BY DEF Stages
<1>5. ASSUME NEW p \in Workers \cup {Owner}, StoppingCall(p)
      PROVE  IInv'
  <2>1. /\ UNCHANGED <<queueVars, fiberVars, hand, active>>
        /\ UNCHANGED <<idleTerm, autoStop, stopFlag, stage>>
    BY <1>5 DEF StoppingCall, CheckPending, CheckGlobal, CheckProcessor, stopVars
  <2>2. \/ pc' = pc
        \/ \E place \in {"lock", "scan", "yes", "no"} : pc' = [pc EXCEPT ![p] = place]
    BY <1>5 DEF StoppingCall, CheckPending, CheckGlobal, CheckProcessor
  <2>3. scan' \in [Workers \cup {Owner} -> Seq(Workers)]
    <3>1. InOrder \in Seq(Workers)
      BY ConstantsAssumption DEF InOrder, Workers
    <3>2. scan[p] \in Seq(Workers)
      BY <1>1
    <3>3. scan[p] # <<>> => Tail(scan[p]) \in Seq(Workers)
      BY <3>2, HeadTailProperties
    <3>4. \/ scan' = scan
          \/ scan' = [scan EXCEPT ![p] = InOrder]
          \/ scan' = [scan EXCEPT ![p] = <<>>]
          \/ scan[p] # <<>> /\ scan' = [scan EXCEPT ![p] = Tail(scan[p])]
      BY <1>5 DEF StoppingCall, CheckPending, CheckGlobal, CheckProcessor
    <3>5. <<>> \in Seq(Workers)
      OBVIOUS
    <3>6. ASSUME NEW s \in Seq(Workers), scan' = [scan EXCEPT ![p] = s]
          PROVE  scan' \in [Workers \cup {Owner} -> Seq(Workers)]
      BY <1>1, <3>6
    <3>7. CASE scan' = scan
      BY <1>1, <3>7
    <3>8. CASE scan' = [scan EXCEPT ![p] = InOrder]
      BY <3>1, <3>6, <3>8
    <3>9. CASE scan' = [scan EXCEPT ![p] = <<>>]
      BY <3>5, <3>6, <3>9
    <3>10. CASE scan[p] # <<>> /\ scan' = [scan EXCEPT ![p] = Tail(scan[p])]
      BY <3>3, <3>6, <3>10
    <3>11. QED
      BY <3>4, <3>7, <3>8, <3>9, <3>10, Zenon
  <2>4. /\ pc' \in [Workers \cup {Owner} -> WorkerPC]
        /\ \A w \in Workers : pc'[w] \in HoldingPC => pc[w] \in HoldingPC
    BY <1>1, <1>2, <1>3, <2>2
  <2>5. QED
    BY <1>1, <2>1, <2>3, <2>4, QuietStep
<1>6. ASSUME NEW w \in Workers, NoTask(w) \/ LeaveIdle(w)
      PROVE  IInv'
  <2>1. /\ UNCHANGED <<queueVars, fiberVars, hand, active>>
        /\ UNCHANGED <<scan, autoStop, stopFlag, stage>>
    BY <1>6 DEF NoTask, LeaveIdle, stopVars
  <2>2. idleTerm' \subseteq Workers
    BY <1>1, <1>6 DEF NoTask, LeaveIdle
  <2>3. \E place \in {"exit", "pend", "local"} : pc' = [pc EXCEPT ![w] = place]
    BY <1>6 DEF NoTask, LeaveIdle
  <2>4. /\ pc' \in [Workers \cup {Owner} -> WorkerPC]
        /\ \A v \in Workers : pc'[v] \in HoldingPC => pc[v] \in HoldingPC
    BY <1>2, <1>3, <2>3
  <2>5. QED
    BY <1>1, <2>1, <2>2, <2>4, QuietStep
<1>7. ASSUME Start \/ StopBegin \/ StopStep
      PROVE  IInv'
  <2>1. UNCHANGED <<queueVars, fiberVars, hand, active, scan, idleTerm>>
    BY <1>7 DEF Start, StopBegin, StopStep, StopFirst, StopSecond, StopCalled, StopJoin
  <2>2. stage' \in Stages
    BY <1>4, <1>7
    DEF Start, StopBegin, StopStep, StopFirst, StopSecond, StopCalled, StopJoin
  <2>3. autoStop' \in BOOLEAN /\ stopFlag' \in BOOLEAN
    <3>1. autoStop' = TRUE \/ autoStop' = autoStop
      BY <1>7, Zenon
      DEF Start, StopBegin, StopStep, StopFirst, StopSecond, StopCalled, StopJoin
    <3>2. \/ stopFlag' = FALSE \/ stopFlag' = TRUE \/ stopFlag' = stopFlag
          \/ stopFlag' = (stopFlag \/ (UseCaller /\ NWorkers = 1))
      BY <1>7, Zenon
      DEF Start, StopBegin, StopStep, StopFirst, StopSecond, StopCalled, StopJoin
    <3>3. QED
      BY <1>1, <3>1, <3>2, Zenon
  <2>4. /\ pc' \in [Workers \cup {Owner} -> WorkerPC]
        /\ \A v \in Workers : pc'[v] \in HoldingPC => pc[v] \in HoldingPC
    <3>1. CASE Start
      <4>1. pc' = [p \in Workers \cup {Owner} |-> IF p \in Workers \ {RootWorker}
                                                 THEN "local" ELSE pc[p]]
        BY <1>1, <3>1 DEF Start
      <4>2. QED
        BY <1>1, <1>3, <4>1
    <3>2. CASE StopBegin
      BY <1>2, <1>3, <3>2 DEF StopBegin
    <3>3. CASE StopFirst
      <4>1. \E place \in {"off", "pend"} : pc' = [pc EXCEPT ![Owner] = place]
        BY <3>3 DEF StopFirst
      <4>2. QED
        BY <1>2, <1>3, <4>1
    <3>4. CASE StopSecond
      <4>1. CASE pc' = [pc EXCEPT ![Owner] = "off"]
        BY <1>2, <1>3, <4>1
      <4>2. CASE pc' = [pc EXCEPT ![Owner] = "off", ![RootWorker] = "local"]
        BY <1>1, <1>3, <4>2
      <4>3. QED
        BY <3>4, <4>1, <4>2 DEF StopSecond
    <3>5. CASE StopCalled \/ StopJoin
      BY <1>1, <3>5 DEF StopCalled, StopJoin
    <3>6. QED
      BY <1>7, <3>1, <3>2, <3>3, <3>4, <3>5 DEF StopStep
  <2>5. QED
    BY <1>1, <2>1, <2>2, <2>3, <2>4, QuietStep
<1>8. QED
  BY <1>5, <1>6, <1>7

\* Every step preserves the inductive invariant.
LEMMA NextIInv == IInv /\ [Next]_vars => IInv'
<1> SUFFICES ASSUME IInv, [Next]_vars PROVE IInv'
  OBVIOUS
<1>1. CASE Client
  BY <1>1, ClientIInv
<1>2. ASSUME NEW w \in Workers, FindTask(w)
      PROVE  IInv'
  BY <1>2, PopLocalIInv, PopGlobalIInv, StealFromIInv, SpliceIInv, ControlIInv
  DEF FindTask
<1>3. ASSUME NEW w \in Workers, RunTask(w)
      PROVE  IInv'
  BY <1>3, RunTaskIInv
<1>4. ASSUME NEW w \in Workers, FiberStep(w)
      PROVE  IInv'
  BY <1>4, SpawnWakeIInv, GiveUpIInv DEF FiberStep
<1>5. ASSUME NEW w \in Workers, Idle(w)
      PROVE  IInv'
  BY <1>5, SpawnWakeIInv, ControlIInv DEF Idle
<1>6. ASSUME NEW p \in Workers \cup {Owner}, StoppingCall(p)
      PROVE  IInv'
  BY <1>6, ControlIInv
<1>7. CASE Start \/ StopBegin \/ StopStep
  BY <1>7, ControlIInv
<1>8. CASE UNCHANGED vars
  BY <1>8 DEF vars, IInv, TypeOK, HandHeld, PinInv
<1>9. QED
  BY <1>1, <1>2, <1>3, <1>4, <1>5, <1>6, <1>7, <1>8 DEF Next, Stopped

\* The inductive invariant holds in every reachable state.
LEMMA SpecIInv == Spec => []IInv
BY InitIInv, NextIInv, PTL DEF Spec

-----------------------------------------------------------------------------
\* Type correctness: in particular a worker that executes, splices or settles
\* a task really has one in its FiberAndThread (run()).
THEOREM TypeCorrect == Spec => []TypeOK
<1>1. IInv => TypeOK
  BY DEF IInv
<1>2. QED
  BY <1>1, SpecIInv, PTL

\* A pinned task is only ever in the hands of its own thread, however the
\* batches of popGlobalTask() and the thefts of stealTask() interleave.
THEOREM PinningCorrect == Spec => []PinRespected
<1>1. ASSUME IInv
      PROVE  PinRespected
  <2> SUFFICES ASSUME NEW w \in Workers
               PROVE  /\ \A i \in DOMAIN hand[w] : hand[w][i].thread \in {AnyThread, w}
                      /\ \A i \in 2..Len(hand[w]) : hand[w][i].thread = AnyThread
                      /\ \A i \in DOMAIN local[w] : local[w][i].thread = AnyThread
    BY DEF PinRespected
  <2>1. hand[w] \in Seq(OwnItem(w)) /\ local[w] \in Seq(FreeItem)
    BY <1>1 DEF IInv, PinInv
  <2>2. \A i \in DOMAIN hand[w] : hand[w][i].thread \in {AnyThread, w}
    <3>1. \A i \in DOMAIN hand[w] : hand[w][i] \in OwnItem(w)
      BY <2>1, LenProperties
    <3>2. QED
      BY <3>1 DEF OwnItem
  <2>3. \A i \in DOMAIN local[w] : local[w][i].thread = AnyThread
    <3>1. \A i \in DOMAIN local[w] : local[w][i] \in FreeItem
      BY <2>1, LenProperties
    <3>2. QED
      BY <3>1 DEF FreeItem
  <2>4. ASSUME NEW i \in 2..Len(hand[w])
        PROVE  hand[w][i].thread = AnyThread
    <3>1. Len(hand[w]) \in Nat /\ hand[w] # <<>>
      BY <2>1, LenProperties, EmptySeq
    <3>2. Tail(hand[w]) \in Seq(FreeItem)
      BY <1>1, <3>1 DEF IInv, PinInv
    <3>3. Len(Tail(hand[w])) = Len(hand[w]) - 1
          /\ \A k \in 1..Len(Tail(hand[w])) : Tail(hand[w])[k] = hand[w][k + 1]
      BY <2>1, <3>1, HeadTailProperties
    <3>4. i - 1 \in 1..Len(Tail(hand[w])) /\ (i - 1) + 1 = i
      BY <3>1, <3>3
    <3>5. hand[w][i] = Tail(hand[w])[i - 1]
      BY <3>3, <3>4
    <3>6. Tail(hand[w])[i - 1] \in FreeItem
      BY <3>2, <3>4, ElementOfSeq
    <3>7. QED
      BY <3>5, <3>6 DEF FreeItem
  <2>5. QED
    BY <2>2, <2>3, <2>4
<1>2. QED
  BY <1>1, SpecIInv, PTL

-----------------------------------------------------------------------------
(* One resumption per fiber.  A queue is seen as the set of fibers it      *)
(* lists, each once.  The places a fiber can be listed in are numbered:    *)
(* 0 is the global queue, w the Processor queue of worker w, and -w what w *)
(* has taken from a queue and not run yet.                                 *)

Names(q) == {q[i].fiber : i \in DOMAIN q}

NoTwice(q) == \A i, j \in DOMAIN q : q[i].fiber = q[j].fiber => i = j

Places == (-NWorkers)..NWorkers

At(p) ==
    IF p = 0 THEN Names(global)
    ELSE IF p > 0 THEN Names(local[p])
    ELSE IF pc[-p] \in {"splice", "got"} THEN Names(hand[-p])
    ELSE {}

Unlisted(f) == \A p \in Places : f \notin At(p)

\* No place lists a fiber twice ...
EntriesOnce ==
    /\ NoTwice(global)
    /\ \A w \in Workers : NoTwice(local[w]) /\ NoTwice(hand[w])

\* ... and no two places list the same fiber.
PlacesApart ==
    \A p, r \in Places : p # r => \A f \in At(p) : f \notin At(r)

\* A fiber that does not exist yet, or whose wake-up is still to come, is in
\* no queue.
WakeApart ==
    \A f \in Fibers :
        /\ fstate[f] = "NONE" => parked[f] = "no" /\ Unlisted(f)
        /\ parked[f] # "no" => Unlisted(f)

\* A task that has been taken and not run yet is not EXEC.
TakenIdle ==
    \A w \in Workers : \A f \in At(-w) : fstate[f] # "EXEC"

InsidePC == {"running", "parking", "settle"}

\* The fiber a worker executes, or has just come back from: EXEC until it
\* yields or ends, and without a resumption until it has registered one.
InsideInv ==
    \A w \in Workers : pc[w] \in InsidePC =>
        /\ fstate[Current(w)] \in {"EXEC", "READY", "TERM", "EXCEPT"}
        /\ pc[w] # "settle" => fstate[Current(w)] = "EXEC"
        /\ pc[w] = "running" \/ fstate[Current(w)] # "EXEC" =>
             parked[Current(w)] = "no" /\ Unlisted(Current(w))

InsideApart ==
    \A v, w \in Workers :
        v # w /\ pc[v] \in InsidePC /\ pc[w] \in InsidePC =>
            Current(v) # Current(w)

ResInv ==
    /\ EntriesOnce
    /\ PlacesApart
    /\ WakeApart
    /\ TakenIdle
    /\ InsideInv
    /\ InsideApart

\* Pick keeps apart what was apart: it uses every position of T at most once.
LEMMA PickNames ==
    ASSUME NEW S, NEW q \in Seq(S), NEW T \in SUBSET DOMAIN q, NoTwice(q)
    PROVE  /\ IsFiniteSet(T)
           /\ T \subseteq Int
           /\ NoTwice(Pick(q, T))
           /\ \A f \in Names(Pick(q, T)) : \E j \in T : q[j].fiber = f
<1> DEFINE rank(j) == Cardinality({i \in T : i < j})
           at(k) == CHOOSE j \in T : rank(j) = k - 1
           n == Cardinality(T)
<1>1. Len(q) \in Nat /\ DOMAIN q = 1..Len(q)
  BY LenProperties
<1>2. IsFiniteSet(T) /\ T \subseteq Int
  <2>1. IsFiniteSet(1..Len(q))
    BY <1>1, FS_Interval
  <2>2. QED
    BY <1>1, <2>1, FS_Subset
<1>3. n \in Nat
  BY <1>2, FS_CardinalityType
<1>4. ASSUME NEW k \in 1..n
      PROVE  at(k) \in T /\ rank(at(k)) = k - 1
  <2>1. \E j \in T : rank(j) = k - 1
    BY <1>2, RankExists
  <2>2. QED
    BY <2>1
<1>5. Pick(q, T) = [k \in 1..n |-> q[at(k)]]
  BY DEF Pick
<1> HIDE DEF rank, at, n
<1>6. NoTwice(Pick(q, T))
  <2> SUFFICES ASSUME NEW k \in 1..n, NEW m \in 1..n, q[at(k)].fiber = q[at(m)].fiber
               PROVE  k = m
    BY <1>5 DEF NoTwice
  <2>1. at(k) = at(m)
    BY <1>4 DEF NoTwice
  <2>2. k - 1 = m - 1
    BY <1>4, <2>1
  <2>3. QED
    BY <1>3, <2>2
<1>7. ASSUME NEW f \in Names(Pick(q, T))
      PROVE  \E j \in T : q[j].fiber = f
  BY <1>4, <1>5 DEF Names
<1>8. QED
  BY <1>2, <1>6, <1>7

\* Taking the positions T out of a queue splits its fibers in two.
LEMMA SplitNames ==
    ASSUME NEW S, NEW q \in Seq(S), NEW T \in SUBSET DOMAIN q, NoTwice(q)
    PROVE  /\ NoTwice(Pick(q, T))
           /\ NoTwice(Without(q, T))
           /\ Names(Pick(q, T)) \subseteq Names(q)
           /\ Names(Without(q, T)) \subseteq Names(q)
           /\ \A f \in Names(Pick(q, T)) : f \notin Names(Without(q, T))
<1> DEFINE U == (DOMAIN q) \ T
<1>1. U \in SUBSET DOMAIN q /\ Without(q, T) = Pick(q, U)
  BY DEF Without
<1>2. NoTwice(Pick(q, T)) /\ \A f \in Names(Pick(q, T)) : \E j \in T : q[j].fiber = f
  BY PickNames
<1>3. NoTwice(Pick(q, U)) /\ \A f \in Names(Pick(q, U)) : \E j \in U : q[j].fiber = f
  BY <1>1, PickNames
<1>4. Names(Pick(q, T)) \subseteq Names(q) /\ Names(Pick(q, U)) \subseteq Names(q)
  <2>1. \A j \in DOMAIN q : q[j].fiber \in Names(q)
    BY DEF Names
  <2>2. QED
    BY <1>2, <1>3, <2>1
<1>5. ASSUME NEW f \in Names(Pick(q, T)), f \in Names(Pick(q, U))
      PROVE  FALSE
  <2>1. PICK i \in T : q[i].fiber = f
    BY <1>2
  <2>2. PICK j \in U : q[j].fiber = f
    BY <1>3, <1>5
  <2>3. i = j
    BY <2>1, <2>2 DEF NoTwice
  <2>4. QED
    BY <2>3
<1>6. QED
  BY <1>1, <1>2, <1>3, <1>4, <1>5

\* Reversing a list changes neither its fibers nor how often it lists them.
LEMMA BackwardsNames ==
    ASSUME NEW S, NEW q \in Seq(S), NoTwice(q)
    PROVE  NoTwice(Backwards(q)) /\ Names(Backwards(q)) \subseteq Names(q)
<1>1. Len(q) \in Nat /\ DOMAIN q = 1..Len(q)
  BY LenProperties
<1>2. DOMAIN Backwards(q) = 1..Len(q)
      /\ \A k \in 1..Len(q) : Backwards(q)[k] = q[Len(q) + 1 - k]
  BY DEF Backwards
<1>3. \A k \in 1..Len(q) : Len(q) + 1 - k \in 1..Len(q)
  BY <1>1
<1>4. NoTwice(Backwards(q))
  BY <1>1, <1>2, <1>3 DEF NoTwice
<1>5. QED
  BY <1>1, <1>2, <1>3, <1>4 DEF Names

\* Two lists with no fiber in common, one after the other.
LEMMA ConcatNames ==
    ASSUME NEW S, NEW q \in Seq(S), NEW r \in Seq(S), NoTwice(q), NoTwice(r),
           \A f \in Names(q) : f \notin Names(r)
    PROVE  NoTwice(q \o r) /\ Names(q \o r) = Names(q) \cup Names(r)
<1> DEFINE m == Len(q)
           n == Len(r)
           c == q \o r
<1>1. m \in Nat /\ n \in Nat /\ DOMAIN q = 1..m /\ DOMAIN r = 1..n
  BY LenProperties
<1>2. DOMAIN c = 1..(m + n)
      /\ \A i \in 1..(m + n) : c[i] = IF i <= m THEN q[i] ELSE r[i - m]
  <2>1. c \in Seq(S) /\ Len(c) = m + n
        /\ \A i \in 1..(m + n) : c[i] = IF i <= m THEN q[i] ELSE r[i - m]
    BY ConcatProperties
  <2> HIDE DEF c, m, n
  <2>2. DOMAIN c = 1..Len(c)
    BY <2>1, LenProperties
  <2>3. QED
    BY <2>1, <2>2
<1> HIDE DEF c, m, n
<1>3. /\ \A i \in 1..m : i \in 1..(m + n) /\ c[i] = q[i] /\ q[i].fiber \in Names(q)
      /\ \A j \in 1..n : m + j \in 1..(m + n) /\ c[m + j] = r[j] /\ r[j].fiber \in Names(r)
  <2>1. ASSUME NEW j \in 1..n
        PROVE  m + j \in 1..(m + n) /\ c[m + j] = r[j]
    <3>1. m + j \in 1..(m + n) /\ ~(m + j <= m) /\ (m + j) - m = j
      BY <1>1
    <3>2. QED
      BY <1>2, <3>1
  <2>2. ASSUME NEW i \in 1..m
        PROVE  i \in 1..(m + n) /\ c[i] = q[i]
    <3>1. i \in 1..(m + n) /\ i <= m
      BY <1>1
    <3>2. QED
      BY <1>2, <3>1
  <2>3. /\ \A i \in 1..m : q[i].fiber \in Names(q)
        /\ \A j \in 1..n : r[j].fiber \in Names(r)
    BY <1>1 DEF Names
  <2>4. QED
    BY <2>1, <2>2, <2>3
<1>4. \A i \in 1..(m + n) : i \in 1..m \/ \E j \in 1..n : i = m + j
  <2>1. ASSUME NEW i \in 1..(m + n), i \notin 1..m
        PROVE  \E j \in 1..n : i = m + j
    <3>1. i - m \in 1..n /\ i = m + (i - m)
      BY <1>1, <2>1
    <3>2. QED
      BY <3>1
  <2>2. QED
    BY <2>1
<1>5. NoTwice(c)
  <2> SUFFICES ASSUME NEW i \in 1..(m + n), NEW j \in 1..(m + n), c[i].fiber = c[j].fiber
               PROVE  i = j
    BY <1>2 DEF NoTwice
  <2>1. CASE i \in 1..m /\ j \in 1..m
    BY <1>1, <1>3, <2>1 DEF NoTwice
  <2>2. CASE i \in 1..m /\ j \notin 1..m
    BY <1>3, <1>4, <2>2
  <2>3. CASE i \notin 1..m /\ j \in 1..m
    BY <1>3, <1>4, <2>3
  <2>4. CASE i \notin 1..m /\ j \notin 1..m
    <3>1. PICK a \in 1..n : i = m + a
      BY <1>4, <2>4
    <3>2. PICK b \in 1..n : j = m + b
      BY <1>4, <2>4
    <3>3. r[a].fiber = r[b].fiber
      BY <1>3, <3>1, <3>2
    <3>4. a = b
      BY <1>1, <3>3 DEF NoTwice
    <3>5. QED
      BY <3>1, <3>2, <3>4
  <2>5. QED
    BY <2>1, <2>2, <2>3, <2>4
<1>6. Names(c) \subseteq Names(q) \cup Names(r)
  <2>1. \A i \in 1..(m + n) : c[i].fiber \in Names(q) \cup Names(r)
    BY <1>3, <1>4
  <2>2. QED
    BY <1>2, <2>1 DEF Names
<1>7. Names(q) \cup Names(r) \subseteq Names(c)
  <2>1. \A i \in 1..(m + n) : c[i].fiber \in Names(c)
    BY <1>2 DEF Names
  <2>2. ASSUME NEW f \in Names(q)
        PROVE  f \in Names(c)
    <3>1. PICK i \in 1..m : f = q[i].fiber
      BY <1>1 DEF Names
    <3>2. QED
      BY <1>3, <2>1, <3>1
  <2>3. ASSUME NEW f \in Names(r)
        PROVE  f \in Names(c)
    <3>1. PICK j \in 1..n : f = r[j].fiber
      BY <1>1 DEF Names
    <3>2. QED
      BY <1>3, <2>1, <3>1
  <2>4. QED
    BY <2>2, <2>3
<1>8. QED
  BY <1>5, <1>6, <1>7 DEF c

\* The empty list, a list of one, and a list with one more at its end.
LEMMA ListNames ==
    /\ NoTwice(<<>>) /\ Names(<<>>) = {}
    /\ \A x : NoTwice(<<x>>) /\ Names(<<x>>) = {x.fiber}
    /\ \A S : \A q \in Seq(S), x \in S :
         NoTwice(q) /\ x.fiber \notin Names(q) =>
            NoTwice(Append(q, x)) /\ Names(Append(q, x)) = Names(q) \cup {x.fiber}
<1>1. NoTwice(<<>>) /\ Names(<<>>) = {}
  BY DEF NoTwice, Names
<1>2. ASSUME NEW x
      PROVE  NoTwice(<<x>>) /\ Names(<<x>>) = {x.fiber}
  <2>1. DOMAIN <<x>> = {1} /\ <<x>>[1] = x
    OBVIOUS
  <2>2. QED
    BY <2>1 DEF NoTwice, Names
<1>3. ASSUME NEW S, NEW q \in Seq(S), NEW x \in S, NoTwice(q), x.fiber \notin Names(q)
      PROVE  NoTwice(Append(q, x)) /\ Names(Append(q, x)) = Names(q) \cup {x.fiber}
  <2> DEFINE r == <<x>>
  <2>1. r \in Seq(S) /\ Append(q, x) = q \o r
    BY AppendIsConcat
  <2>2. NoTwice(r) /\ Names(r) = {x.fiber}
    BY <1>2
  <2> HIDE DEF r
  <2>3. \A f \in Names(q) : f \notin Names(r)
    BY <1>3, <2>2
  <2>4. NoTwice(q \o r) /\ Names(q \o r) = Names(q) \cup Names(r)
    BY <1>3, <2>1, <2>2, <2>3, ConcatNames
  <2>5. QED
    BY <2>1, <2>2, <2>4
<1>4. QED
  BY <1>1, <1>2, <1>3

\* A list of distinct fibers lists its head apart from its tail, and an entry
\* apart from those behind it.
LEMMA TailNames ==
    ASSUME NEW S, NEW q \in Seq(S), q # <<>>, NoTwice(q)
    PROVE  /\ NoTwice(Tail(q))
           /\ Head(q).fiber \in Names(q)
           /\ Names(Tail(q)) \subseteq Names(q)
           /\ Head(q).fiber \notin Names(Tail(q))
<1> DEFINE n == Len(q)
<1>1. n \in Nat \ {0} /\ DOMAIN q = 1..n /\ Head(q) = q[1]
      /\ DOMAIN Tail(q) = 1..(n - 1)
      /\ \A k \in 1..(n - 1) : Tail(q)[k] = q[k + 1]
  BY LenProperties, EmptySeq, HeadTailProperties
<1>2. \A k \in 1..(n - 1) : k + 1 \in 1..n /\ k + 1 # 1
  BY <1>1
<1>3. 1 \in 1..n
  BY <1>1
<1> HIDE DEF n
<1>4. NoTwice(Tail(q))
  BY <1>1, <1>2 DEF NoTwice
<1>5. Head(q).fiber \in Names(q) /\ Names(Tail(q)) \subseteq Names(q)
  BY <1>1, <1>2, <1>3 DEF Names
<1>6. Head(q).fiber \notin Names(Tail(q))
  <2>1. SUFFICES ASSUME NEW k \in 1..(n - 1), Tail(q)[k].fiber = Head(q).fiber
                 PROVE  FALSE
    BY <1>1 DEF Names
  <2>2. q[k + 1].fiber = q[1].fiber
    BY <1>1, <2>1
  <2>3. QED
    BY <1>1, <1>2, <1>3, <2>2 DEF NoTwice
<1>7. QED
  BY <1>4, <1>5, <1>6

\* What popLocalTask() leaves behind the entry it takes.
LEMMA RestNames ==
    ASSUME NEW S, NEW q \in Seq(S), NoTwice(q), NEW i \in DOMAIN q
    PROVE  LET rest == SubSeq(q, i + 1, Len(q))
           IN  /\ NoTwice(rest)
               /\ Names(rest) \subseteq Names(q)
               /\ q[i].fiber \in Names(q)
               /\ q[i].fiber \notin Names(rest)
<1> DEFINE n == Len(q)
           rest == SubSeq(q, i + 1, n)
<1>1. n \in Nat /\ DOMAIN q = 1..n /\ i \in 1..n
  BY LenProperties
<1>2. DOMAIN rest = 1..(n - i) /\ \A k \in 1..(n - i) : rest[k] = q[i + k]
  <2>1. rest = [k \in 1..(n - i) |-> q[i + k]]
    BY <1>1
  <2>2. QED
    BY <2>1
<1>3. \A k \in 1..(n - i) : i + k \in 1..n /\ i + k # i
  BY <1>1
<1> HIDE DEF rest, n
<1>4. NoTwice(rest)
  <2> SUFFICES ASSUME NEW k \in 1..(n - i), NEW m \in 1..(n - i),
                      rest[k].fiber = rest[m].fiber
               PROVE  k = m
    BY <1>2 DEF NoTwice
  <2>1. i + k = i + m
    BY <1>1, <1>2, <1>3 DEF NoTwice
  <2>2. QED
    BY <1>1, <2>1
<1>5. Names(rest) \subseteq Names(q) /\ q[i].fiber \in Names(q)
  BY <1>1, <1>2, <1>3 DEF Names
<1>6. q[i].fiber \notin Names(rest)
  <2>1. SUFFICES ASSUME NEW k \in 1..(n - i), rest[k].fiber = q[i].fiber
                 PROVE  FALSE
    BY <1>2 DEF Names
  <2>2. QED
    BY <1>1, <1>2, <1>3, <2>1 DEF NoTwice
<1>7. QED
  BY <1>4, <1>5, <1>6 DEF rest, n

-----------------------------------------------------------------------------
(* What a step does to the places.                                         *)

\* The numbering of the places.
LEMMA PlaceFacts ==
    /\ 0 \in Places
    /\ \A w \in Workers :
         /\ w \in Places /\ w > 0 /\ w # 0 /\ w \in Int
         /\ -w \in Places /\ -w # 0 /\ ~(-w > 0) /\ -(-w) = w
         /\ \A v \in Workers : v # -w
    /\ \A p \in Places : p = 0 \/ p \in Workers \/ \E w \in Workers : p = -w
<1>1. NWorkers \in Nat \ {0}
  BY ConstantsAssumption
<1>2. ASSUME NEW p \in Places, p # 0, p \notin Workers
      PROVE  \E w \in Workers : p = -w
  <2>1. -p \in Workers /\ p = -(-p)
    BY <1>1, <1>2 DEF Places, Workers
  <2>2. QED
    BY <2>1
<1>3. QED
  BY <1>1, <1>2 DEF Places, Workers

\* What the three kinds of places list.
LEMMA PlaceNames ==
    /\ At(0) = Names(global)
    /\ \A w \in Workers :
         /\ At(w) = Names(local[w])
         /\ At(-w) = IF pc[w] \in {"splice", "got"} THEN Names(hand[w]) ELSE {}
BY PlaceFacts DEF At

\* The same after a step.
LEMMA PlaceNamesNext ==
    /\ At(0)' = Names(global')
    /\ \A w \in Workers :
         /\ At(w)' = Names(local'[w])
         /\ At(-w)' = IF pc'[w] \in {"splice", "got"} THEN Names(hand'[w]) ELSE {}
BY PlaceFacts DEF At

\* Entries name fibers.
LEMMA PlacesListFibers ==
    ASSUME TypeOK, NEW p \in Places, NEW f \in At(p)
    PROVE  f \in Fibers
<1>1. ASSUME NEW q \in Seq(Item), f \in Names(q)
      PROVE  f \in Fibers
  <2>1. \A i \in DOMAIN q : q[i] \in Item
    BY LenProperties
  <2>2. QED
    BY <1>1, <2>1 DEF Names, Item
<1>2. CASE p = 0
  BY <1>1, <1>2, PlaceNames DEF TypeOK
<1>3. CASE p \in Workers
  BY <1>1, <1>3, PlaceNames DEF TypeOK
<1>4. ASSUME NEW w \in Workers, p = -w
      PROVE  f \in Fibers
  <2>1. f \in Names(hand[w])
    BY <1>4, PlaceNames
  <2>2. QED
    BY <1>1, <2>1 DEF TypeOK
<1>5. QED
  BY <1>2, <1>3, <1>4, PlaceFacts

\* A step that only moves entries from one place to another, or drops some.
LEMMA MoveStep ==
    ASSUME ResInv, NEW a \in Places, NEW b \in Places, a # b,
           UNCHANGED <<fstate, parked>>,
           EntriesOnce',
           TakenIdle',
           \A p \in Places : p # a /\ p # b => At(p)' \subseteq At(p),
           \A f \in At(a)' : f \in At(a) \/ f \in At(b),
           \A f \in At(b)' : f \in At(a) \/ f \in At(b),
           \A f \in At(a)' : f \notin At(b)',
           \A w \in Workers : pc'[w] \in InsidePC =>
               pc'[w] = pc[w] /\ hand'[w] = hand[w]
    PROVE  ResInv'
<1>1. PlacesApart'
  <2> SUFFICES ASSUME NEW p \in Places, NEW r \in Places, p # r, NEW f \in At(p)',
                      f \in At(r)'
               PROVE  FALSE
    BY DEF PlacesApart
  <2>1. CASE p \notin {a, b} /\ r \notin {a, b}
    BY <2>1 DEF ResInv, PlacesApart
  <2>2. CASE p \in {a, b} /\ r \notin {a, b}
    BY <2>2 DEF ResInv, PlacesApart
  <2>3. CASE p \notin {a, b} /\ r \in {a, b}
    BY <2>3 DEF ResInv, PlacesApart
  <2>4. CASE p \in {a, b} /\ r \in {a, b}
    BY <2>4
  <2>5. QED
    BY <2>1, <2>2, <2>3, <2>4
<1>2. ASSUME NEW f, Unlisted(f)
      PROVE  Unlisted(f)'
  BY <1>2 DEF Unlisted
<1>3. WakeApart'
  BY <1>2 DEF ResInv, WakeApart
<1>4. ASSUME NEW w \in Workers, pc'[w] \in InsidePC
      PROVE  Current(w)' = Current(w) /\ pc'[w] = pc[w]
  BY <1>4 DEF Current
<1>5. InsideInv'
  BY <1>2, <1>4 DEF ResInv, InsideInv
<1>6. InsideApart'
  BY <1>4 DEF ResInv, InsideApart
<1>7. QED
  BY <1>1, <1>3, <1>5, <1>6 DEF ResInv

\* A step that queues fiber f, which no place lists, at place a.
LEMMA AddStep ==
    ASSUME IInv, ResInv, NEW f \in Fibers, NEW a \in Places,
           Unlisted(f),
           EntriesOnce',
           \A p \in Places : p # a => At(p)' = At(p),
           At(a)' = At(a) \cup {f},
           \A w \in Workers : a # -w,
           \A g \in Fibers : g # f => fstate'[g] = fstate[g] /\ parked'[g] = parked[g],
           fstate'[f] # "NONE", parked'[f] = "no",
           \A w \in Workers : pc'[w] \in InsidePC =>
               pc'[w] = pc[w] /\ hand'[w] = hand[w],
           \/ \A w \in Workers : pc'[w] \in InsidePC => Current(w) # f
           \/ fstate' = fstate /\ parked[f] # "no"
    PROVE  ResInv'
<1>1. PlacesApart'
  BY DEF ResInv, PlacesApart, Unlisted
<1>2. ASSUME NEW g, g # f, Unlisted(g)
      PROVE  Unlisted(g)'
  BY <1>2 DEF Unlisted
<1>3. WakeApart'
  BY <1>2 DEF ResInv, WakeApart
<1>4. TakenIdle'
  <2> SUFFICES ASSUME NEW w \in Workers, NEW g \in At(-w)'
               PROVE  fstate'[g] # "EXEC"
    BY DEF TakenIdle
  <2>1. -w \in Places /\ g \in At(-w)
    BY PlaceFacts
  <2>2. g # f /\ g \in Fibers
    BY <2>1, PlacesListFibers DEF Unlisted, IInv
  <2>3. QED
    BY <2>1, <2>2 DEF ResInv, TakenIdle
<1>5. \A w \in Workers : pc'[w] \in InsidePC =>
          Current(w)' = Current(w) /\ pc'[w] = pc[w]
  BY DEF Current
<1>6. InsideInv'
  <2> SUFFICES ASSUME NEW w \in Workers, pc'[w] \in InsidePC, NEW g, g = Current(w)
               PROVE  /\ fstate'[g] \in {"EXEC", "READY", "TERM", "EXCEPT"}
                      /\ pc'[w] # "settle" => fstate'[g] = "EXEC"
                      /\ pc'[w] = "running" \/ fstate'[g] # "EXEC" =>
                           parked'[g] = "no" /\ Unlisted(g)'
    BY <1>5 DEF InsideInv
  <2>1. /\ fstate[g] \in {"EXEC", "READY", "TERM", "EXCEPT"}
        /\ pc[w] # "settle" => fstate[g] = "EXEC"
        /\ pc[w] = "running" \/ fstate[g] # "EXEC" =>
                           parked[g] = "no" /\ Unlisted(g)
    BY <1>5 DEF ResInv, InsideInv
  <2>2. CASE g = f
    BY <1>5, <2>1, <2>2
  <2>3. g \in Fibers
    BY <1>5, CurrentType DEF InsidePC, HoldingPC
  <2>4. CASE g # f
    <3>1. fstate'[g] = fstate[g] /\ parked'[g] = parked[g]
      BY <2>3, <2>4
    <3>2. Unlisted(g) => Unlisted(g)'
      BY <1>2, <2>4
    <3>3. QED
      BY <1>5, <2>1, <3>1, <3>2
  <2>5. QED
    BY <2>2, <2>4
<1>7. InsideApart'
  BY <1>5 DEF ResInv, InsideApart
<1>8. QED
  BY <1>1, <1>3, <1>4, <1>6, <1>7 DEF ResInv

\* schedule() and scheduleGlobal() queue a fiber that no place lists once.
LEMMA ScheduleAdds ==
    ASSUME IInv, ResInv, NEW f \in Fibers, NEW thread \in Workers \cup {AnyThread},
           NEW w \in Workers,
           ScheduleFrom(w, f, thread) \/ ScheduleGlobal(f, thread),
           Unlisted(f),
           \A v \in Workers : At(-v)' = At(-v) /\ NoTwice(hand'[v])
    PROVE  /\ EntriesOnce'
           /\ \E a \in Places :
                /\ \A v \in Workers : a # -v
                /\ At(a)' = At(a) \cup {f}
                /\ \A p \in Places : p # a => At(p)' = At(p)
<1> DEFINE item == [fiber |-> f, thread |-> thread]
<1>1. item \in Item /\ item.fiber = f
  BY DEF Item
<1> HIDE DEF item
<1>2. global \in Seq(Item) /\ local \in [Workers -> Seq(Item)]
  BY DEF IInv, TypeOK
<1>3. NoTwice(global) /\ \A v \in Workers : NoTwice(local[v])
  BY DEF ResInv, EntriesOnce
<1>4. \A p \in Places : p = 0 \/ p \in Workers \/ \E v \in Workers : p = -v
  BY PlaceFacts
<1>5. CASE global' = Append(global, item) /\ local' = local
  <2>1. f \notin Names(global)
    BY PlaceFacts, PlaceNames DEF Unlisted
  <2>2. NoTwice(global') /\ Names(global') = Names(global) \cup {f}
    BY <1>1, <1>2, <1>3, <1>5, <2>1, ListNames
  <2>3. EntriesOnce'
    BY <1>3, <1>5, <2>2 DEF EntriesOnce
  <2>4. At(0)' = At(0) \cup {f}
    BY <2>2, PlaceNames, PlaceNamesNext
  <2>5. ASSUME NEW p \in Places, p # 0
        PROVE  At(p)' = At(p)
    <3>1. CASE p \in Workers
      BY <1>5, <3>1, PlaceNames, PlaceNamesNext
    <3>2. ASSUME NEW v \in Workers, p = -v
          PROVE  At(p)' = At(p)
      <4>1. At(-v)' = At(-v)
        OBVIOUS
      <4>2. QED
        BY <3>2, <4>1
    <3>3. QED
      BY <1>4, <2>5, <3>1, <3>2
  <2>6. 0 \in Places /\ \A v \in Workers : 0 # -v
    BY PlaceFacts
  <2>7. QED
    BY <2>3, <2>4, <2>5, <2>6
<1>6. CASE local' = [local EXCEPT ![w] = Append(local[w], item)] /\ global' = global
  <2>1. f \notin Names(local[w])
    BY PlaceFacts, PlaceNames DEF Unlisted
  <2>2. local[w] \in Seq(Item) /\ NoTwice(local[w])
    BY <1>2, <1>3
  <2>3. NoTwice(Append(local[w], item))
        /\ Names(Append(local[w], item)) = Names(local[w]) \cup {f}
    BY <1>1, <2>1, <2>2, ListNames
  <2>4. local'[w] = Append(local[w], item)
        /\ \A v \in Workers : v # w => local'[v] = local[v]
    BY <1>2, <1>6
  <2>5. EntriesOnce'
    BY <1>3, <1>6, <2>3, <2>4 DEF EntriesOnce
  <2>6. At(w)' = At(w) \cup {f}
    BY <2>3, <2>4, PlaceNames, PlaceNamesNext
  <2>7. ASSUME NEW p \in Places, p # w
        PROVE  At(p)' = At(p)
    <3>1. CASE p \in Workers
      BY <2>4, <2>7, <3>1, PlaceNames, PlaceNamesNext
    <3>2. ASSUME NEW v \in Workers, p = -v
          PROVE  At(p)' = At(p)
      <4>1. At(-v)' = At(-v)
        OBVIOUS
      <4>2. QED
        BY <3>2, <4>1
    <3>3. CASE p = 0
      BY <1>6, <3>3, PlaceNames, PlaceNamesNext
    <3>4. QED
      BY <1>4, <3>1, <3>2, <3>3
  <2>8. w \in Places /\ \A v \in Workers : w # -v
    BY PlaceFacts
  <2>9. QED
    BY <2>5, <2>6, <2>7, <2>8
<1>7. QED
  BY <1>5, <1>6 DEF ScheduleFrom, ScheduleGlobal, item

\* A new task, or a wake-up that is used up, becomes one queue entry.
LEMMA QueueRes ==
    ASSUME IInv, ResInv, NEW f \in Fibers, NEW thread \in Workers \cup {AnyThread},
           NEW w \in Workers,
           ScheduleFrom(w, f, thread) \/ ScheduleGlobal(f, thread),
           UNCHANGED <<hand, pc>>,
           \/ /\ fstate[f] = "NONE"
              /\ fstate' = [fstate EXCEPT ![f] = "INIT"]
              /\ parked' = parked
           \/ /\ parked[f] # "no"
              /\ parked' = [parked EXCEPT ![f] = "no"]
              /\ fstate' = fstate
    PROVE  ResInv'
<1>1. fstate \in [Fibers -> FiberState] /\ parked \in [Fibers -> {"no", "io", "ext"}]
  BY DEF IInv, TypeOK
<1>2. Unlisted(f) /\ (fstate[f] = "NONE" => parked[f] = "no")
  BY DEF ResInv, WakeApart
<1>3. \A v \in Workers : At(-v)' = At(-v) /\ NoTwice(hand'[v])
  BY PlaceNames, PlaceNamesNext DEF ResInv, EntriesOnce
<1>4. EntriesOnce'
  BY <1>2, <1>3, ScheduleAdds
<1>5. PICK a \in Places :
          /\ \A v \in Workers : a # -v
          /\ At(a)' = At(a) \cup {f}
          /\ \A p \in Places : p # a => At(p)' = At(p)
  BY <1>2, <1>3, ScheduleAdds
<1>6. /\ \A g \in Fibers : g # f => fstate'[g] = fstate[g] /\ parked'[g] = parked[g]
      /\ fstate'[f] # "NONE" /\ parked'[f] = "no"
  BY <1>1, <1>2
<1>7. \/ \A v \in Workers : pc'[v] \in InsidePC => Current(v) # f
      \/ fstate' = fstate /\ parked[f] # "no"
  <2>1. CASE fstate[f] = "NONE"
    BY <2>1 DEF ResInv, InsideInv
  <2>2. QED
    BY <1>2, <2>1
<1>8. \A v \in Workers : pc'[v] = pc[v] /\ hand'[v] = hand[v]
  OBVIOUS
<1>9. QED
  BY <1>2, <1>4, <1>5, <1>6, <1>7, <1>8, AddStep

\* schedule() from outside and wake-ups from other schedulers.
LEMMA ClientRes ==
    ASSUME IInv, ResInv, Client
    PROVE  ResInv'
<1>1. PICK w : w \in Workers
  BY ConstantsAssumption DEF Workers
<1>2. ASSUME NEW f \in Fibers, NEW thread \in Pins, Submit(f, thread)
      PROVE  ResInv'
  <2>1. thread \in Workers \cup {AnyThread}
    BY ConstantsAssumption
  <2>2. QED
    BY <1>1, <1>2, <2>1, QueueRes DEF Submit
<1>3. ASSUME NEW f \in Fibers, ExternalWake(f)
      PROVE  ResInv'
  BY <1>1, <1>3, QueueRes DEF ExternalWake
<1>4. QED
  BY <1>2, <1>3 DEF Client

\* Tasks and wake-ups queued by a running fiber or by idle().
LEMMA SpawnWakeRes ==
    ASSUME IInv, ResInv, NEW w \in Workers, NEW f \in Fibers
    PROVE  /\ \A thread \in Pins : Spawn(w, f, thread) => ResInv'
           /\ SpawnGlobal(w, f) => ResInv'
           /\ FiberWake(w, f) => ResInv'
           /\ PollWake(w, f) => ResInv'
<1>1. ASSUME NEW thread \in Pins, Spawn(w, f, thread)
      PROVE  ResInv'
  <2>1. thread \in Workers \cup {AnyThread}
    BY ConstantsAssumption
  <2>2. QED
    BY <1>1, <2>1, QueueRes DEF Spawn
<1>2. SpawnGlobal(w, f) => ResInv'
  BY QueueRes DEF SpawnGlobal
<1>3. FiberWake(w, f) => ResInv'
  BY QueueRes DEF FiberWake
<1>4. PollWake(w, f) => ResInv'
  BY QueueRes DEF PollWake
<1>5. QED
  BY <1>1, <1>2, <1>3, <1>4

\* A worker takes entries from the queue at place a into its hand.
LEMMA TakeStep ==
    ASSUME IInv, ResInv, NEW w \in Workers, pc[w] \notin HoldingPC,
           NEW a \in Places, a = 0 \/ a \in Workers,
           UNCHANGED <<fstate, parked>>,
           NEW new, hand' = [hand EXCEPT ![w] = new],
           NEW place \in {"got", "splice"}, pc' = [pc EXCEPT ![w] = place],
           NoTwice(global'), \A v \in Workers : NoTwice(local'[v]), NoTwice(new),
           a # 0 => global' = global,
           \A v \in Workers : v # a => local'[v] = local[v],
           At(a)' \subseteq At(a),
           \A f \in Names(new) : f \in At(a) /\ f \notin At(a)' /\ fstate[f] # "EXEC"
    PROVE  ResInv'
<1> DEFINE b == -w
<1>1. b \in Places /\ a # b
  BY PlaceFacts
<1>2. hand \in [Workers -> Seq(Item)] /\ pc \in [Workers \cup {Owner} -> WorkerPC]
  BY DEF IInv, TypeOK
<1>3. /\ hand'[w] = new /\ pc'[w] = place
      /\ \A v \in Workers : v # w => hand'[v] = hand[v] /\ pc'[v] = pc[v]
  BY <1>2
<1>4. EntriesOnce'
  BY <1>3 DEF ResInv, EntriesOnce
<1>5. At(b)' = Names(new)
  BY <1>3, PlaceNamesNext
<1>6. \A v \in Workers : v # w => At(-v)' = At(-v)
  BY <1>3, PlaceNames, PlaceNamesNext
<1>7. ASSUME NEW p \in Places, p # a, p # b
      PROVE  At(p)' \subseteq At(p)
  <2>1. CASE p = 0
    BY <1>7, <2>1, PlaceNames, PlaceNamesNext
  <2>2. CASE p \in Workers
    BY <1>7, <2>2, PlaceNames, PlaceNamesNext
  <2>3. ASSUME NEW v \in Workers, p = -v
        PROVE  At(p)' \subseteq At(p)
    <3>1. v # w
      BY <1>7, <2>3
    <3>2. At(-v)' = At(-v)
      BY <1>6, <3>1
    <3>3. QED
      BY <2>3, <3>2
  <2>4. QED
    BY <2>1, <2>2, <2>3, PlaceFacts
<1>8. TakenIdle'
  <2> SUFFICES ASSUME NEW v \in Workers, NEW f \in At(-v)'
               PROVE  fstate[f] # "EXEC"
    BY DEF TakenIdle
  <2>1. CASE v = w
    BY <1>5, <2>1
  <2>2. CASE v # w
    BY <1>6, <2>2 DEF ResInv, TakenIdle
  <2>3. QED
    BY <2>1, <2>2
<1>9. \A v \in Workers : pc'[v] \in InsidePC => pc'[v] = pc[v] /\ hand'[v] = hand[v]
  BY <1>3 DEF InsidePC
<1> HIDE DEF b
<1>10. QED
  BY <1>1, <1>4, <1>5, <1>7, <1>8, <1>9, MoveStep

\* A step after which every place lists no more than before and no worker has
\* entered a fiber.
LEMMA ShrinkStep ==
    ASSUME IInv, ResInv, UNCHANGED <<fstate, parked>>,
           EntriesOnce',
           \A p \in Places : At(p)' \subseteq At(p),
           \A w \in Workers : pc'[w] \in InsidePC =>
               pc'[w] = pc[w] /\ hand'[w] = hand[w]
    PROVE  ResInv'
<1>1. PICK w : w \in Workers
  BY ConstantsAssumption DEF Workers
<1>2. TakenIdle'
  <2> SUFFICES ASSUME NEW v \in Workers, NEW f \in At(-v)'
               PROVE  fstate[f] # "EXEC"
    BY DEF TakenIdle
  <2>1. f \in At(-v)
    BY PlaceFacts
  <2>2. QED
    BY <2>1 DEF ResInv, TakenIdle
<1>3. 0 \in Places /\ w \in Places /\ 0 # w
  BY <1>1, PlaceFacts
<1>4. \A f \in At(0)' : f \notin At(w)'
  BY <1>3 DEF ResInv, PlacesApart
<1>5. QED
  BY <1>2, <1>3, <1>4, MoveStep

\* popLocalTask(): the entry taken leaves the queue, stale ones are dropped.
LEMMA PopLocalRes ==
    ASSUME IInv, ResInv, NEW w \in Workers, PopLocal(w)
    PROVE  ResInv'
<1> DEFINE q == local[w]
<1>1. q \in Seq(Item) /\ local \in [Workers -> Seq(Item)]
      /\ pc \in [Workers \cup {Owner} -> WorkerPC]
  BY DEF IInv, TypeOK
<1>2. NoTwice(q) /\ NoTwice(global) /\ \A v \in Workers : NoTwice(local[v]) /\ NoTwice(hand[v])
  BY DEF ResInv, EntriesOnce
<1>3. pc[w] \notin HoldingPC /\ UNCHANGED <<fstate, parked>> /\ global' = global
  BY DEF PopLocal, HoldingPC, fiberVars
<1>4. ASSUME NEW i \in DOMAIN q, ~Exec(q[i].fiber),
             local' = [local EXCEPT ![w] = SubSeq(q, i + 1, Len(q))],
             hand' = [hand EXCEPT ![w] = <<q[i]>>],
             pc' = [pc EXCEPT ![w] = "got"]
      PROVE  ResInv'
  <2> DEFINE rest == SubSeq(q, i + 1, Len(q))
             new == <<q[i]>>
  <2>1. NoTwice(rest) /\ Names(rest) \subseteq Names(q)
        /\ q[i].fiber \in Names(q) /\ q[i].fiber \notin Names(rest)
    BY <1>1, <1>2, RestNames
  <2>2. NoTwice(new) /\ Names(new) = {q[i].fiber}
    BY ListNames
  <2>3. local'[w] = rest /\ \A v \in Workers : v # w => local'[v] = local[v]
    BY <1>1, <1>4
  <2>4. At(w)' = Names(rest) /\ At(w) = Names(q)
    BY <2>3, PlaceNames, PlaceNamesNext
  <2>5. fstate[q[i].fiber] # "EXEC"
    BY <1>4 DEF Exec
  <2>6. w \in Places /\ w # 0
    BY PlaceFacts
  <2>7. hand' = [hand EXCEPT ![w] = new]
    BY <1>4
  <2> HIDE DEF rest, new, q
  <2>8. /\ At(w)' \subseteq At(w)
        /\ \A f \in Names(new) : f \in At(w) /\ f \notin At(w)' /\ fstate[f] # "EXEC"
    BY <2>1, <2>2, <2>4, <2>5
  <2>9. NoTwice(global') /\ \A v \in Workers : NoTwice(local'[v])
    BY <1>2, <1>3, <2>1, <2>3
  <2>10. QED
    BY <1>3, <1>4, <2>2, <2>3, <2>6, <2>7, <2>8, <2>9, TakeStep
<1>5. ASSUME local' = [local EXCEPT ![w] = <<>>],
             pc' = [pc EXCEPT ![w] = "global"],
             hand' = hand
      PROVE  ResInv'
  <2>1. local'[w] = <<>> /\ \A v \in Workers : v # w => local'[v] = local[v]
    BY <1>1, <1>5
  <2>2. pc'[w] = "global" /\ \A v \in Workers : v # w => pc'[v] = pc[v]
    BY <1>1, <1>5
  <2>3. EntriesOnce'
    BY <1>2, <1>3, <1>5, <2>1, ListNames DEF EntriesOnce
  <2>4. ASSUME NEW p \in Places
        PROVE  At(p)' \subseteq At(p)
    <3>1. CASE p = 0
      BY <1>3, <3>1, PlaceNames, PlaceNamesNext
    <3>2. CASE p \in Workers
      BY <2>1, <3>2, ListNames, PlaceNames, PlaceNamesNext
    <3>3. ASSUME NEW v \in Workers, p = -v
          PROVE  At(p)' \subseteq At(p)
      <4>1. At(-v)' \subseteq At(-v)
        BY <1>5, <2>2, PlaceNames, PlaceNamesNext
      <4>2. QED
        BY <3>3, <4>1
    <3>4. QED
      BY <3>1, <3>2, <3>3, PlaceFacts
  <2>5. \A v \in Workers : pc'[v] \in InsidePC => pc'[v] = pc[v] /\ hand'[v] = hand[v]
    BY <1>5, <2>2 DEF InsidePC
  <2>6. QED
    BY <1>3, <2>3, <2>4, <2>5, ShrinkStep
<1>6. QED
  BY <1>4, <1>5 DEF PopLocal

\* Leaving the queues and the hands alone, and entering no fiber.
LEMMA QuietRes ==
    ASSUME IInv, ResInv,
           UNCHANGED <<queueVars, fiberVars, hand>>,
           \A w \in Workers : pc'[w] \in HoldingPC => pc'[w] = pc[w]
    PROVE  ResInv'
<1>1. UNCHANGED <<global, local, hand, fstate, parked>>
  BY DEF queueVars, fiberVars
<1>2. EntriesOnce'
  BY <1>1 DEF ResInv, EntriesOnce
<1>3. ASSUME NEW p \in Places
      PROVE  At(p)' \subseteq At(p)
  <2>1. CASE p = 0
    BY <1>1, <2>1, PlaceNames, PlaceNamesNext
  <2>2. CASE p \in Workers
    BY <1>1, <2>2, PlaceNames, PlaceNamesNext
  <2>3. ASSUME NEW v \in Workers, p = -v
        PROVE  At(p)' \subseteq At(p)
    <3>1. At(-v)' \subseteq At(-v)
      BY <1>1, PlaceNames, PlaceNamesNext DEF HoldingPC
    <3>2. QED
      BY <2>3, <3>1
  <2>4. QED
    BY <2>1, <2>2, <2>3, PlaceFacts
<1>4. \A w \in Workers : pc'[w] \in InsidePC => pc'[w] = pc[w] /\ hand'[w] = hand[w]
  BY <1>1 DEF InsidePC, HoldingPC
<1>5. QED
  BY <1>1, <1>2, <1>3, <1>4, ShrinkStep

\* popGlobalTask(): the first task and its batch leave the global queue.
LEMMA PopGlobalRes ==
    ASSUME IInv, ResInv, NEW w \in Workers, PopGlobal(w)
    PROVE  ResInv'
<1>1. global \in Seq(Item) /\ pc \in [Workers \cup {Owner} -> WorkerPC]
  BY DEF IInv, TypeOK
<1>2. NoTwice(global) /\ \A v \in Workers : NoTwice(local[v])
  BY DEF ResInv, EntriesOnce
<1>3. pc[w] \notin HoldingPC /\ UNCHANGED <<fstate, parked>> /\ local' = local
  BY DEF PopGlobal, HoldingPC, fiberVars
<1>4. ASSUME NEW i \in Eligible(w, global),
             NEW batch \in SUBSET {j \in Movable(global) : j > i},
             hand' = [hand EXCEPT ![w] = <<global[i]>> \o Pick(global, batch)],
             global' = Without(global, {i} \cup batch),
             NEW place \in {"got", "splice"},
             pc' = [pc EXCEPT ![w] = place]
      PROVE  ResInv'
  <2> DEFINE one == <<global[i]>>
             rest == Pick(global, batch)
             new == one \o rest
             T == {i} \cup batch
             left == Without(global, T)
  <2>1. i \in DOMAIN global /\ fstate[global[i].fiber] # "EXEC"
    BY DEF Eligible, Exec
  <2>2. batch \in SUBSET DOMAIN global /\ i \notin batch
        /\ \A j \in batch : fstate[global[j].fiber] # "EXEC"
    <3>1. \A j \in Movable(global) : j \in DOMAIN global /\ fstate[global[j].fiber] # "EXEC"
      BY DEF Movable, Exec
    <3>2. \A j \in batch : j \in Movable(global) /\ j > i
      OBVIOUS
    <3>3. i \in Int
      BY <1>1, <2>1, LenProperties
    <3>4. ~(i > i)
      BY <3>3
    <3>5. QED
      BY <3>1, <3>2, <3>4
  <2>3. T \in SUBSET DOMAIN global
    BY <2>1, <2>2
  <2>4. global[i] \in Item /\ \A j \in batch : global[j] \in Item
    BY <1>1, <2>1, <2>2, LenProperties
  <2>5. rest \in Seq(Item)
    <3>1. IsFiniteSet(batch) /\ batch \subseteq Int
      BY <1>1, <1>2, <2>2, PickNames
    <3>2. QED
      BY <2>4, <3>1, PickSeq
  <2>6. one \in Seq(Item) /\ NoTwice(one) /\ Names(one) = {global[i].fiber}
    BY <2>4, ListNames
  <2>7. NoTwice(rest) /\ \A f \in Names(rest) : \E j \in batch : global[j].fiber = f
    BY <1>1, <1>2, <2>2, PickNames
  <2>8. NoTwice(left) /\ \A f \in Names(left) :
                            \E j \in (DOMAIN global) \ T : global[j].fiber = f
    <3>1. (DOMAIN global) \ T \in SUBSET DOMAIN global
      OBVIOUS
    <3>2. QED
      BY <1>1, <1>2, <3>1, PickNames DEF Without
  <2>9. \A j, k \in DOMAIN global : global[j].fiber = global[k].fiber => j = k
    BY <1>2 DEF NoTwice
  <2>10. \A j \in DOMAIN global : global[j].fiber \in Names(global)
    BY DEF Names
  <2>11. hand' = [hand EXCEPT ![w] = new] /\ global' = left
    BY <1>4
  <2> HIDE DEF one, rest, left
  <2>12. \A f \in Names(one) : f \notin Names(rest)
    BY <2>1, <2>2, <2>6, <2>7, <2>9
  <2>13. NoTwice(new) /\ Names(new) = Names(one) \cup Names(rest)
    BY <2>5, <2>6, <2>7, <2>12, ConcatNames
  <2> HIDE DEF new
  <2>14. At(0) = Names(global) /\ At(0)' = Names(left)
    BY <2>11, PlaceNames, PlaceNamesNext
  <2>15. At(0)' \subseteq At(0)
    BY <2>8, <2>10, <2>14
  <2>16. ASSUME NEW f \in Names(new)
         PROVE  f \in At(0) /\ f \notin At(0)' /\ fstate[f] # "EXEC"
    <3>1. PICK j \in T : global[j].fiber = f
      BY <2>6, <2>7, <2>13
    <3>2. f \notin Names(left)
      BY <2>3, <2>8, <2>9, <3>1
    <3>3. QED
      BY <2>1, <2>2, <2>10, <2>14, <3>1, <3>2
  <2>17. NoTwice(global') /\ \A v \in Workers : NoTwice(local'[v]) /\ local'[v] = local[v]
    BY <1>2, <1>3, <2>8, <2>11
  <2>18. 0 \in Places
    BY PlaceFacts
  <2>19. QED
    BY <1>3, <1>4, <2>11, <2>13, <2>15, <2>16, <2>17, <2>18, TakeStep
<1>5. ASSUME pc' = [pc EXCEPT ![w] = "steal"], UNCHANGED <<global, hand>>
      PROVE  ResInv'
  <2>1. \A v \in Workers : pc'[v] \in HoldingPC => pc'[v] = pc[v]
    BY <1>1, <1>5 DEF HoldingPC
  <2>2. UNCHANGED <<queueVars, fiberVars, hand>>
    BY <1>5 DEF PopGlobal, queueVars
  <2>3. QED
    BY <2>1, <2>2, QuietRes
<1>6. CASE Eligible(w, global) = {}
  BY <1>5, <1>6 DEF PopGlobal
<1>7. CASE Eligible(w, global) # {}
  <2>1. PICK i \in Eligible(w, global) :
          LET after == {j \in Movable(global) : j > i}
              batch == IF global[i].thread = AnyThread
                       THEN FirstOf(after, Half(global) - 1)
                       ELSE {}
          IN  /\ hand' = [hand EXCEPT ![w] = <<global[i]>> \o Pick(global, batch)]
              /\ global' = Without(global, {i} \cup batch)
              /\ pc' = [pc EXCEPT ![w] = IF batch = {} THEN "got" ELSE "splice"]
    BY <1>7 DEF PopGlobal
  <2> DEFINE batch == IF global[i].thread = AnyThread
                      THEN FirstOf({j \in Movable(global) : j > i}, Half(global) - 1)
                      ELSE {}
  <2>2. batch \in SUBSET {j \in Movable(global) : j > i}
    BY DEF FirstOf
  <2>3. /\ hand' = [hand EXCEPT ![w] = <<global[i]>> \o Pick(global, batch)]
        /\ global' = Without(global, {i} \cup batch)
        /\ pc' = [pc EXCEPT ![w] = IF batch = {} THEN "got" ELSE "splice"]
    BY <2>1
  <2> HIDE DEF batch
  <2>4. QED
    BY <1>4, <2>2, <2>3
<1>8. QED
  BY <1>6, <1>7

\* stealTask(): what the thief has taken has left the victim's queue.
LEMMA StealFromRes ==
    ASSUME IInv, ResInv, NEW w \in Workers, StealFrom(w)
    PROVE  ResInv'
<1>1. PICK v \in Workers : v = Head(scan[w])
  <2>1. scan[w] \in Seq(Workers) /\ scan[w] # <<>>
    BY DEF StealFrom, IInv, TypeOK
  <2>2. QED
    BY <2>1, HeadTailProperties
<1> DEFINE q == local[v]
           taken == LastOf(Movable(q), Half(q))
<1>2. local \in [Workers -> Seq(Item)] /\ q \in Seq(Item)
  BY <1>1 DEF IInv, TypeOK
<1>3. NoTwice(global) /\ NoTwice(q) /\ \A u \in Workers : NoTwice(local[u])
  BY <1>1 DEF ResInv, EntriesOnce
<1>4. pc[w] \notin HoldingPC /\ UNCHANGED <<fstate, parked>> /\ global' = global
  BY DEF StealFrom, HoldingPC, fiberVars
<1>5. CASE taken = {}
  <2>1. UNCHANGED <<queueVars, fiberVars, hand>> /\ pc' = pc
    BY <1>1, <1>5 DEF StealFrom, queueVars
  <2>2. QED
    BY <2>1, QuietRes
<1>6. CASE taken # {}
  <2> DEFINE new == Backwards(Pick(q, taken))
             place == IF Cardinality(taken) = 1 THEN "got" ELSE "splice"
             left == Without(q, taken)
  <2>1. /\ local' = [local EXCEPT ![v] = left]
        /\ hand' = [hand EXCEPT ![w] = new]
        /\ pc' = [pc EXCEPT ![w] = place]
        /\ place \in {"got", "splice"}
    BY <1>1, <1>6 DEF StealFrom
  <2>2. \A j \in taken : j \in DOMAIN q /\ fstate[q[j].fiber] # "EXEC"
    BY DEF LastOf, Movable, Exec
  <2>3. taken \in SUBSET DOMAIN q
    BY <2>2
  <2> HIDE DEF q, taken, place
  <2>4. IsFiniteSet(taken) /\ taken \subseteq Int
        /\ \A f \in Names(Pick(q, taken)) : \E j \in taken : q[j].fiber = f
    BY <1>2, <1>3, <2>3, PickNames
  <2>5. \A j \in taken : q[j] \in Item
    BY <1>2, <2>3, LenProperties
  <2>6. Pick(q, taken) \in Seq(Item)
    BY <2>4, <2>5, PickSeq
  <2>7. /\ NoTwice(Pick(q, taken)) /\ NoTwice(left)
        /\ Names(Pick(q, taken)) \subseteq Names(q)
        /\ Names(left) \subseteq Names(q)
        /\ \A f \in Names(Pick(q, taken)) : f \notin Names(left)
    BY <1>2, <1>3, <2>3, SplitNames
  <2>8. NoTwice(new) /\ Names(new) \subseteq Names(Pick(q, taken))
    BY <2>6, <2>7, BackwardsNames
  <2>9. local'[v] = left /\ \A u \in Workers : u # v => local'[u] = local[u]
    BY <1>1, <1>2, <2>1
  <2> HIDE DEF new, left
  <2>10. At(v) = Names(q) /\ At(v)' = Names(left)
    BY <1>1, <2>9, PlaceNames, PlaceNamesNext DEF q
  <2>11. \A f \in Names(new) : f \in At(v) /\ f \notin At(v)' /\ fstate[f] # "EXEC"
    BY <2>2, <2>4, <2>7, <2>8, <2>10
  <2>12. At(v)' \subseteq At(v)
    BY <2>7, <2>10
  <2>13. NoTwice(global') /\ \A u \in Workers : NoTwice(local'[u])
    BY <1>3, <1>4, <2>7, <2>9
  <2>14. v \in Places /\ v # 0
    BY <1>1, PlaceFacts
  <2>15. QED
    BY <1>1, <1>4, <2>1, <2>8, <2>9, <2>11, <2>12, <2>13, <2>14, TakeStep
<1>7. QED
  BY <1>5, <1>6

\* Splicing moves all but the first entry of the hand into the own queue.
LEMMA SpliceRes ==
    ASSUME IInv, ResInv, NEW w \in Workers, Splice(w)
    PROVE  ResInv'
<1> DEFINE q == local[w]
           h == hand[w]
           one == <<Head(h)>>
           t == Tail(h)
           new == q \o t
<1>1. pc[w] = "splice" /\ UNCHANGED <<global, fstate, parked>>
  BY DEF Splice, fiberVars
<1>2. h # <<>>
  BY <1>1, CurrentType DEF HoldingPC
<1>3. /\ q \in Seq(Item) /\ h \in Seq(Item)
      /\ local \in [Workers -> Seq(Item)] /\ hand \in [Workers -> Seq(Item)]
      /\ pc \in [Workers \cup {Owner} -> WorkerPC]
  BY DEF IInv, TypeOK
<1>4. NoTwice(q) /\ NoTwice(h) /\ NoTwice(global)
      /\ \A v \in Workers : NoTwice(local[v]) /\ NoTwice(hand[v])
  BY DEF ResInv, EntriesOnce
<1>5. t \in Seq(Item)
  BY <1>2, <1>3, HeadTailProperties
<1>6. /\ NoTwice(t) /\ Head(h).fiber \in Names(h)
      /\ Names(t) \subseteq Names(h) /\ Head(h).fiber \notin Names(t)
  BY <1>2, <1>3, <1>4, TailNames
<1>7. NoTwice(one) /\ Names(one) = {Head(h).fiber}
  BY ListNames
<1>8. /\ local' = [local EXCEPT ![w] = new]
      /\ hand' = [hand EXCEPT ![w] = one]
      /\ pc' = [pc EXCEPT ![w] = "got"]
  BY DEF Splice
<1>9. /\ local'[w] = new /\ hand'[w] = one /\ pc'[w] = "got"
      /\ \A v \in Workers : v # w =>
            local'[v] = local[v] /\ hand'[v] = hand[v] /\ pc'[v] = pc[v]
  BY <1>3, <1>8
<1>10. w \in Places /\ -w \in Places /\ w # -w
  BY PlaceFacts
<1>11. At(w) = Names(q) /\ At(-w) = Names(h)
  BY <1>1, PlaceNames
<1> HIDE DEF q, h, one, t
<1>12. \A f \in Names(q) : f \notin Names(t)
  BY <1>6, <1>10, <1>11 DEF ResInv, PlacesApart
<1>13. NoTwice(new) /\ Names(new) = Names(q) \cup Names(t)
  BY <1>3, <1>4, <1>5, <1>6, <1>12, ConcatNames
<1> HIDE DEF new
<1>14. At(w)' = Names(new) /\ At(-w)' = Names(one)
  BY <1>9, PlaceNamesNext
<1>15. /\ \A f \in At(w)' : f \in At(w) \/ f \in At(-w)
       /\ \A f \in At(-w)' : f \in At(-w)
  BY <1>6, <1>7, <1>11, <1>13, <1>14
<1>16. \A f \in At(w)' : f \notin At(-w)'
  <2>1. Head(h).fiber \notin Names(q)
    BY <1>6, <1>10, <1>11 DEF ResInv, PlacesApart
  <2>2. QED
    BY <1>6, <1>7, <1>13, <1>14, <2>1
<1>17. EntriesOnce'
  BY <1>1, <1>4, <1>7, <1>9, <1>13 DEF EntriesOnce
<1>18. \A v \in Workers : v # w => At(-v)' = At(-v)
  BY <1>9, PlaceNames, PlaceNamesNext
<1>19. TakenIdle'
  <2> SUFFICES ASSUME NEW v \in Workers, NEW f \in At(-v)'
               PROVE  fstate[f] # "EXEC"
    BY <1>1 DEF TakenIdle
  <2>1. f \in At(-v)
    BY <1>15, <1>18
  <2>2. QED
    BY <2>1 DEF ResInv, TakenIdle
<1>20. ASSUME NEW p \in Places, p # w, p # -w
       PROVE  At(p)' \subseteq At(p)
  <2>1. CASE p = 0
    BY <1>1, <2>1, PlaceNames, PlaceNamesNext
  <2>2. CASE p \in Workers
    BY <1>9, <1>20, <2>2, PlaceNames, PlaceNamesNext
  <2>3. ASSUME NEW v \in Workers, p = -v
        PROVE  At(p)' \subseteq At(p)
    <3>1. v # w
      BY <1>20, <2>3
    <3>2. At(-v)' = At(-v)
      BY <1>18, <3>1
    <3>3. QED
      BY <2>3, <3>2
  <2>4. QED
    BY <2>1, <2>2, <2>3, PlaceFacts
<1>21. \A v \in Workers : pc'[v] \in InsidePC => pc'[v] = pc[v] /\ hand'[v] = hand[v]
  BY <1>9 DEF InsidePC
<1>22. QED
  BY <1>1, <1>10, <1>15, <1>16, <1>17, <1>19, <1>20, <1>21, MoveStep

\* A worker enters the fiber it has taken: its only resumption is used up.
LEMMA DispatchRes ==
    ASSUME IInv, ResInv, NEW w \in Workers, Dispatch(w)
    PROVE  ResInv'
<1>1. PICK f : f = Current(w)
  OBVIOUS
<1>2. pc[w] = "got" /\ UNCHANGED <<global, local, parked>>
  BY DEF Dispatch, queueVars
<1>3. f \in Fibers /\ hand[w] # <<>>
  BY <1>1, <1>2, CurrentType DEF HoldingPC
<1>4. /\ hand \in [Workers -> Seq(Item)] /\ pc \in [Workers \cup {Owner} -> WorkerPC]
      /\ fstate \in [Fibers -> FiberState]
  BY DEF IInv, TypeOK
<1>5. NoTwice(global) /\ \A v \in Workers : NoTwice(local[v]) /\ NoTwice(hand[v])
  BY DEF ResInv, EntriesOnce
<1>6. f \in At(-w)
  <2>1. f \in Names(hand[w])
    BY <1>1, <1>3, <1>4, <1>5, TailNames DEF Current
  <2>2. QED
    BY <1>2, <2>1, PlaceNames
<1>7. -w \in Places /\ ~Unlisted(f)
  BY <1>6, PlaceFacts DEF Unlisted
<1>8. fstate[f] # "EXEC" /\ parked[f] = "no"
  BY <1>3, <1>6, <1>7 DEF ResInv, TakenIdle, WakeApart
<1>9. \A v \in Workers : pc[v] \in InsidePC => Current(v) # f
  BY <1>7, <1>8 DEF ResInv, InsideInv
<1>10. ASSUME \A v \in Workers : v # w => pc'[v] = pc[v] /\ hand'[v] = hand[v],
              pc'[w] \in {"local", "running"}
       PROVE  /\ At(-w)' = {}
              /\ \A p \in Places : p # -w => At(p)' = At(p)
  <2>1. At(-w)' = {}
    BY <1>10, PlaceNamesNext
  <2>2. ASSUME NEW p \in Places, p # -w
        PROVE  At(p)' = At(p)
    <3>1. CASE p = 0
      BY <1>2, <3>1, PlaceNames, PlaceNamesNext
    <3>2. CASE p \in Workers
      BY <1>2, <3>2, PlaceNames, PlaceNamesNext
    <3>3. ASSUME NEW v \in Workers, p = -v
          PROVE  At(p)' = At(p)
      <4>1. v # w
        BY <2>2, <3>3
      <4>2. At(-v)' = At(-v)
        BY <1>10, <4>1, PlaceNames, PlaceNamesNext
      <4>3. QED
        BY <3>3, <4>2
    <3>4. QED
      BY <3>1, <3>2, <3>3, PlaceFacts
  <2>3. QED
    BY <2>1, <2>2
<1>11. CASE fstate[f] \in {"TERM", "EXCEPT"}
  <2>1. /\ hand' = [hand EXCEPT ![w] = <<>>] /\ pc' = [pc EXCEPT ![w] = "local"]
        /\ fstate' = fstate
    BY <1>1, <1>11 DEF Dispatch
  <2>2. /\ hand'[w] = <<>> /\ pc'[w] = "local"
        /\ \A v \in Workers : v # w => pc'[v] = pc[v] /\ hand'[v] = hand[v]
    BY <1>4, <2>1
  <2>3. \A p \in Places : At(p)' \subseteq At(p)
    BY <1>10, <2>2
  <2>4. EntriesOnce'
    BY <1>2, <1>5, <2>2, ListNames DEF EntriesOnce
  <2>5. \A v \in Workers : pc'[v] \in InsidePC => pc'[v] = pc[v] /\ hand'[v] = hand[v]
    BY <2>2 DEF InsidePC
  <2>6. QED
    BY <1>2, <2>1, <2>3, <2>4, <2>5, ShrinkStep
<1>12. CASE fstate[f] \notin {"TERM", "EXCEPT"}
  <2>1. /\ hand' = hand /\ pc' = [pc EXCEPT ![w] = "running"]
        /\ fstate' = [fstate EXCEPT ![f] = "EXEC"]
    BY <1>1, <1>12 DEF Dispatch
  <2>2. /\ pc'[w] = "running"
        /\ \A v \in Workers : v # w => pc'[v] = pc[v]
    BY <1>4, <2>1
  <2>3. At(-w)' = {} /\ \A p \in Places : p # -w => At(p)' = At(p)
    BY <1>10, <2>1, <2>2
  <2>4. fstate'[f] = "EXEC" /\ \A g : g # f => fstate'[g] = fstate[g]
    BY <1>3, <1>4, <2>1
  <2>5. EntriesOnce'
    BY <1>2, <1>5, <2>1 DEF EntriesOnce
  <2>6. PlacesApart'
    BY <2>3 DEF ResInv, PlacesApart
  <2>7. Unlisted(f)' /\ \A g : Unlisted(g) => Unlisted(g)'
    <3>1. \A p \in Places : p # -w => f \notin At(p)
      BY <1>6, <1>7 DEF ResInv, PlacesApart
    <3>2. QED
      BY <2>3, <3>1 DEF Unlisted
  <2>8. WakeApart'
    BY <1>2, <1>8, <2>4, <2>7 DEF ResInv, WakeApart
  <2>9. TakenIdle'
    <3> SUFFICES ASSUME NEW v \in Workers, NEW g \in At(-v)'
                 PROVE  fstate'[g] # "EXEC"
      BY DEF TakenIdle
    <3>1. -v \in Places
      BY PlaceFacts
    <3>2. g \in At(-v) /\ g # f
      BY <2>3, <2>7, <3>1 DEF Unlisted
    <3>3. QED
      BY <2>4, <3>2 DEF ResInv, TakenIdle
  <2>10. \A v \in Workers : Current(v)' = Current(v)
    BY <2>1 DEF Current
  <2>11. InsideInv'
    <3> SUFFICES ASSUME NEW v \in Workers, pc'[v] \in InsidePC, NEW g, g = Current(v)
                 PROVE  /\ fstate'[g] \in {"EXEC", "READY", "TERM", "EXCEPT"}
                        /\ pc'[v] # "settle" => fstate'[g] = "EXEC"
                        /\ pc'[v] = "running" \/ fstate'[g] # "EXEC" =>
                             parked'[g] = "no" /\ Unlisted(g)'
      BY <2>10 DEF InsideInv
    <3>1. CASE v = w
      BY <1>1, <1>2, <1>8, <2>4, <2>7, <3>1
    <3>2. CASE v # w
      <4>1. pc'[v] = pc[v] /\ g # f
        BY <1>9, <2>2, <3>2
      <4>2. /\ fstate[g] \in {"EXEC", "READY", "TERM", "EXCEPT"}
            /\ pc[v] # "settle" => fstate[g] = "EXEC"
            /\ pc[v] = "running" \/ fstate[g] # "EXEC" => parked[g] = "no" /\ Unlisted(g)
        BY <4>1 DEF ResInv, InsideInv
      <4>3. QED
        BY <1>2, <2>4, <2>7, <4>1, <4>2
    <3>3. QED
      BY <3>1, <3>2
  <2>12. InsideApart'
    BY <1>1, <1>9, <2>2, <2>10 DEF ResInv, InsideApart
  <2>13. QED
    BY <2>5, <2>6, <2>8, <2>9, <2>11, <2>12 DEF ResInv
<1>13. QED
  BY <1>11, <1>12

\* A worker's step on the fiber it is inside of that queues nothing.
LEMMA InsideStep ==
    ASSUME IInv, ResInv, NEW w \in Workers, pc[w] \in InsidePC,
           NEW f \in Fibers, f = Current(w),
           UNCHANGED queueVars,
           \A v \in Workers : v # w => pc'[v] = pc[v] /\ hand'[v] = hand[v],
           pc'[w] \notin {"splice", "got"}, NoTwice(hand'[w]),
           \A g \in Fibers : g # f => fstate'[g] = fstate[g] /\ parked'[g] = parked[g],
           fstate'[f] \in {"EXEC", "READY", "TERM", "EXCEPT", "HOLD"},
           fstate'[f] = "EXEC" => fstate[f] = "EXEC",
           parked'[f] # "no" => Unlisted(f),
           pc'[w] \in InsidePC =>
             /\ hand'[w] = hand[w]
             /\ fstate'[f] # "HOLD"
             /\ pc'[w] # "settle" => fstate'[f] = "EXEC"
             /\ pc'[w] = "running" \/ fstate'[f] # "EXEC" =>
                   parked'[f] = "no" /\ Unlisted(f)
    PROVE  ResInv'
<1>1. ASSUME NEW p \in Places
      PROVE  At(p)' = At(p)
  <2>1. CASE p = 0
    BY <2>1, PlaceNames, PlaceNamesNext DEF queueVars
  <2>2. CASE p \in Workers
    BY <2>2, PlaceNames, PlaceNamesNext DEF queueVars
  <2>3. ASSUME NEW v \in Workers, p = -v
        PROVE  At(p)' = At(p)
    <3>1. At(-v)' = At(-v)
      BY PlaceNames, PlaceNamesNext DEF InsidePC
    <3>2. QED
      BY <2>3, <3>1
  <2>4. QED
    BY <2>1, <2>2, <2>3, PlaceFacts
<1>2. EntriesOnce'
  BY DEF ResInv, EntriesOnce, queueVars
<1>3. PlacesApart'
  BY <1>1 DEF ResInv, PlacesApart
<1>4. \A g : Unlisted(g)' <=> Unlisted(g)
  BY <1>1 DEF Unlisted
<1>5. WakeApart'
  BY <1>4 DEF ResInv, WakeApart
<1>6. TakenIdle'
  <2> SUFFICES ASSUME NEW v \in Workers, NEW g \in At(-v)'
               PROVE  fstate'[g] # "EXEC"
    BY DEF TakenIdle
  <2>1. -v \in Places /\ g \in At(-v)
    BY <1>1, PlaceFacts
  <2>2. g \in Fibers /\ fstate[g] # "EXEC"
    BY <2>1, PlacesListFibers DEF IInv, ResInv, TakenIdle
  <2>3. QED
    BY <2>2
<1>7. \A v \in Workers : pc'[v] \in InsidePC => Current(v)' = Current(v)
  BY DEF Current
<1>8. \A v \in Workers : v # w /\ pc[v] \in InsidePC => Current(v) # f /\ Current(v) \in Fibers
  BY CurrentType DEF ResInv, InsideApart, InsidePC, HoldingPC
<1>9. InsideInv'
  <2> SUFFICES ASSUME NEW v \in Workers, pc'[v] \in InsidePC, NEW g, g = Current(v)
               PROVE  /\ fstate'[g] \in {"EXEC", "READY", "TERM", "EXCEPT"}
                      /\ pc'[v] # "settle" => fstate'[g] = "EXEC"
                      /\ pc'[v] = "running" \/ fstate'[g] # "EXEC" =>
                           parked'[g] = "no" /\ Unlisted(g)'
    BY <1>7 DEF InsideInv
  <2>1. CASE v = w
    BY <1>4, <2>1
  <2>2. CASE v # w
    <3>1. pc'[v] = pc[v] /\ g # f /\ g \in Fibers
      BY <1>8, <2>2
    <3>2. /\ fstate[g] \in {"EXEC", "READY", "TERM", "EXCEPT"}
          /\ pc[v] # "settle" => fstate[g] = "EXEC"
          /\ pc[v] = "running" \/ fstate[g] # "EXEC" => parked[g] = "no" /\ Unlisted(g)
      BY <3>1 DEF ResInv, InsideInv
    <3>3. fstate'[g] = fstate[g] /\ parked'[g] = parked[g]
      BY <3>1
    <3>4. QED
      BY <1>4, <3>1, <3>2, <3>3
  <2>3. QED
    BY <2>1, <2>2
<1>10. InsideApart'
  BY <1>7, <1>8 DEF ResInv, InsideApart
<1>11. QED
  BY <1>2, <1>3, <1>5, <1>6, <1>9, <1>10 DEF ResInv

\* run() queues a READY fiber again, and puts down one that holds or has ended.
LEMMA SettleRes ==
    ASSUME IInv, ResInv, NEW w \in Workers, Settle(w)
    PROVE  ResInv'
<1>1. PICK f : f = Current(w)
  OBVIOUS
<1>2. pc[w] = "settle" /\ parked' = parked
      /\ hand' = [hand EXCEPT ![w] = <<>>] /\ pc' = [pc EXCEPT ![w] = "local"]
  BY DEF Settle
<1>3. f \in Fibers
  BY <1>1, <1>2, CurrentType DEF HoldingPC
<1>4. /\ hand \in [Workers -> Seq(Item)] /\ pc \in [Workers \cup {Owner} -> WorkerPC]
      /\ fstate \in [Fibers -> FiberState]
  BY DEF IInv, TypeOK
<1>5. /\ hand'[w] = <<>> /\ pc'[w] = "local"
      /\ \A v \in Workers : v # w => pc'[v] = pc[v] /\ hand'[v] = hand[v]
  BY <1>2, <1>4
<1>6. NoTwice(hand'[w]) /\ \A v \in Workers : NoTwice(hand'[v])
  BY <1>5, ListNames DEF ResInv, EntriesOnce
<1>7. /\ fstate[f] \in {"EXEC", "READY", "TERM", "EXCEPT"}
      /\ fstate[f] # "EXEC" => parked[f] = "no" /\ Unlisted(f)
      /\ parked[f] # "no" => Unlisted(f)
  BY <1>1, <1>2, <1>3 DEF ResInv, InsideInv, InsidePC, WakeApart
<1>8. CASE fstate[f] = "READY"
  <2>1. ScheduleFrom(w, f, AnyThread) /\ fstate' = fstate
    BY <1>1, <1>8 DEF Settle
  <2>2. \A v \in Workers : At(-v)' = At(-v)
    BY <1>2, <1>5, PlaceNames, PlaceNamesNext
  <2>3. Unlisted(f) /\ parked[f] = "no"
    BY <1>7, <1>8
  <2>4. EntriesOnce'
    BY <1>3, <1>6, <2>1, <2>2, <2>3, ScheduleAdds
  <2>5. PICK a \in Places :
            /\ \A v \in Workers : a # -v
            /\ At(a)' = At(a) \cup {f}
            /\ \A p \in Places : p # a => At(p)' = At(p)
    BY <1>3, <1>6, <2>1, <2>2, <2>3, ScheduleAdds
  <2>6. \A v \in Workers : pc'[v] \in InsidePC =>
            pc'[v] = pc[v] /\ hand'[v] = hand[v] /\ Current(v) # f
    BY <1>1, <1>2, <1>5 DEF ResInv, InsideApart, InsidePC
  <2>7. /\ \A g \in Fibers : g # f => fstate'[g] = fstate[g] /\ parked'[g] = parked[g]
        /\ fstate'[f] # "NONE" /\ parked'[f] = "no"
    BY <1>2, <1>8, <2>1, <2>3
  <2>8. QED
    BY <1>3, <2>3, <2>4, <2>5, <2>6, <2>7, AddStep
<1>9. CASE fstate[f] # "READY"
  <2>1. UNCHANGED queueVars
        /\ (fstate' = fstate \/ fstate' = [fstate EXCEPT ![f] = "HOLD"])
    BY <1>1, <1>9 DEF Settle
  <2>2. /\ \A g \in Fibers : g # f => fstate'[g] = fstate[g] /\ parked'[g] = parked[g]
        /\ fstate'[f] \in {"EXEC", "READY", "TERM", "EXCEPT", "HOLD"}
        /\ fstate'[f] = "EXEC" => fstate[f] = "EXEC"
        /\ parked'[f] # "no" => Unlisted(f)
    BY <1>2, <1>3, <1>4, <1>7, <2>1
  <2>3. pc[w] \in InsidePC /\ pc'[w] \notin InsidePC /\ pc'[w] \notin {"splice", "got"}
    BY <1>2, <1>5 DEF InsidePC
  <2>4. QED
    BY <1>1, <1>3, <1>5, <1>6, <2>1, <2>2, <2>3, InsideStep
<1>10. QED
  BY <1>8, <1>9

\* A fiber that yields or ends; one that parks registers its only resumption.
LEMMA GiveUpRes ==
    ASSUME IInv, ResInv, NEW w \in Workers, GiveUp(w)
    PROVE  ResInv'
<1>1. PICK f : f = Current(w)
  OBVIOUS
<1>2. pc[w] \in {"running", "parking"} /\ pc[w] \in InsidePC
  BY DEF GiveUp, YieldToReady, Park, YieldToHold, Finish, InsidePC
<1>3. f \in Fibers
  BY <1>1, <1>2, CurrentType DEF HoldingPC
<1>4. /\ hand \in [Workers -> Seq(Item)] /\ pc \in [Workers \cup {Owner} -> WorkerPC]
      /\ fstate \in [Fibers -> FiberState] /\ parked \in [Fibers -> {"no", "io", "ext"}]
  BY DEF IInv, TypeOK
<1>5. /\ fstate[f] = "EXEC"
      /\ pc[w] = "running" => parked[f] = "no" /\ Unlisted(f)
      /\ parked[f] # "no" => Unlisted(f)
  BY <1>1, <1>2, <1>3 DEF ResInv, InsideInv, InsidePC, WakeApart
<1>6. /\ UNCHANGED queueVars /\ hand' = hand
      /\ \E place \in {"parking", "settle"} : pc' = [pc EXCEPT ![w] = place]
  BY DEF GiveUp, YieldToReady, Park, YieldToHold, Finish, SwapOut
<1>7. /\ \A v \in Workers : v # w => pc'[v] = pc[v] /\ hand'[v] = hand[v]
      /\ pc'[w] \notin {"splice", "got", "running"} /\ NoTwice(hand'[w])
  BY <1>4, <1>6 DEF ResInv, EntriesOnce
<1>8. ASSUME \A g \in Fibers : g # f => fstate'[g] = fstate[g] /\ parked'[g] = parked[g],
             fstate'[f] \in {"EXEC", "READY", "TERM", "EXCEPT"},
             parked'[f] # "no" => Unlisted(f),
             pc'[w] = "parking" => fstate'[f] = "EXEC",
             fstate'[f] # "EXEC" => parked'[f] = "no" /\ Unlisted(f)
      PROVE  ResInv'
  <2>1. pc'[w] \in InsidePC =>
             /\ hand'[w] = hand[w]
             /\ fstate'[f] # "HOLD"
             /\ pc'[w] # "settle" => fstate'[f] = "EXEC"
             /\ pc'[w] = "running" \/ fstate'[f] # "EXEC" =>
                   parked'[f] = "no" /\ Unlisted(f)
    BY <1>6, <1>7, <1>8 DEF InsidePC
  <2>2. fstate'[f] \in {"EXEC", "READY", "TERM", "EXCEPT", "HOLD"}
        /\ pc'[w] \notin {"splice", "got"}
    BY <1>7, <1>8
  <2>3. QED
    BY <1>1, <1>2, <1>3, <1>5, <1>6, <1>7, <1>8, <2>1, <2>2, InsideStep
<1>9. ASSUME NEW end \in {"READY", "TERM", "EXCEPT"}, pc[w] = "running",
             fstate' = [fstate EXCEPT ![f] = end], parked' = parked,
             pc' = [pc EXCEPT ![w] = "settle"]
      PROVE  ResInv'
  <2>1. /\ \A g \in Fibers : g # f => fstate'[g] = fstate[g] /\ parked'[g] = parked[g]
        /\ fstate'[f] = end
        /\ parked'[f] = "no" /\ Unlisted(f)
        /\ pc'[w] = "settle"
    BY <1>3, <1>4, <1>5, <1>9
  <2>2. QED
    BY <1>8, <2>1
<1>10. CASE YieldToReady(w)
  BY <1>1, <1>9, <1>10 DEF YieldToReady, SwapOut
<1>11. ASSUME NEW how \in Holds, Park(w, how)
       PROVE  ResInv'
  <2>1. /\ \A g \in Fibers : g # f => fstate'[g] = fstate[g] /\ parked'[g] = parked[g]
        /\ fstate'[f] = "EXEC"
        /\ Unlisted(f)
    BY <1>1, <1>3, <1>4, <1>5, <1>11 DEF Park
  <2>2. QED
    BY <1>8, <2>1
<1>12. CASE YieldToHold(w)
  <2>1. UNCHANGED <<fstate, parked>> /\ pc' = [pc EXCEPT ![w] = "settle"]
    BY <1>12 DEF YieldToHold, SwapOut, fiberVars
  <2>2. fstate'[f] = "EXEC" /\ (parked'[f] # "no" => Unlisted(f))
    BY <1>5, <2>1
  <2>3. \A g \in Fibers : g # f => fstate'[g] = fstate[g] /\ parked'[g] = parked[g]
    BY <2>1
  <2>4. QED
    BY <1>8, <2>2, <2>3
<1>13. ASSUME NEW end \in {"TERM", "EXCEPT"}, Finish(w, end)
       PROVE  ResInv'
  BY <1>1, <1>9, <1>13 DEF Finish, SwapOut
<1>14. QED
  BY <1>10, <1>11, <1>12, <1>13 DEF GiveUp

\* stopping(), idle(), start() and stop() leave every resumption alone.
LEMMA ControlRes ==
    ASSUME IInv, ResInv
    PROVE  /\ \A p \in Workers \cup {Owner} : StoppingCall(p) => ResInv'
           /\ \A w \in Workers : NoTask(w) \/ LeaveIdle(w) => ResInv'
           /\ Start \/ StopBegin \/ StopStep => ResInv'
<1>1. pc \in [Workers \cup {Owner} -> WorkerPC]
  BY DEF IInv, TypeOK
<1>2. ASSUME NEW p \in Workers \cup {Owner},
             NEW place \in {"off", "exit", "pend", "local", "lock", "scan", "yes", "no"},
             pc' = [pc EXCEPT ![p] = place]
      PROVE  \A w \in Workers : pc'[w] \in HoldingPC => pc'[w] = pc[w]
  BY <1>1, <1>2 DEF HoldingPC
<1>3. ASSUME NEW p \in Workers \cup {Owner}, StoppingCall(p)
      PROVE  ResInv'
  <2>1. UNCHANGED <<queueVars, fiberVars, hand>>
    BY <1>3 DEF StoppingCall, CheckPending, CheckGlobal, CheckProcessor
  <2>2. \/ pc' = pc
        \/ \E place \in {"lock", "scan", "yes", "no"} : pc' = [pc EXCEPT ![p] = place]
    BY <1>3 DEF StoppingCall, CheckPending, CheckGlobal, CheckProcessor
  <2>3. \A w \in Workers : pc'[w] \in HoldingPC => pc'[w] = pc[w]
    BY <1>2, <2>2
  <2>4. QED
    BY <2>1, <2>3, QuietRes
<1>4. ASSUME NEW w \in Workers, NoTask(w) \/ LeaveIdle(w)
      PROVE  ResInv'
  <2>1. UNCHANGED <<queueVars, fiberVars, hand>>
    BY <1>4 DEF NoTask, LeaveIdle
  <2>2. \E place \in {"exit", "pend", "local"} : pc' = [pc EXCEPT ![w] = place]
    BY <1>4 DEF NoTask, LeaveIdle
  <2>3. \A v \in Workers : pc'[v] \in HoldingPC => pc'[v] = pc[v]
    BY <1>2, <2>2
  <2>4. QED
    BY <2>1, <2>3, QuietRes
<1>5. ASSUME Start \/ StopBegin \/ StopStep
      PROVE  ResInv'
  <2>1. UNCHANGED <<queueVars, fiberVars, hand>>
    BY <1>5 DEF Start, StopBegin, StopStep, StopFirst, StopSecond, StopCalled, StopJoin
  <2>2. \A v \in Workers : pc'[v] \in HoldingPC => pc'[v] = pc[v]
    <3>1. CASE Start
      BY <1>1, <3>1 DEF Start, HoldingPC
    <3>2. CASE StopBegin
      BY <1>2, <3>2 DEF StopBegin
    <3>3. CASE StopFirst
      <4>1. \E place \in {"off", "pend"} : pc' = [pc EXCEPT ![Owner] = place]
        BY <3>3 DEF StopFirst
      <4>2. QED
        BY <1>2, <4>1
    <3>4. CASE StopSecond
      <4>1. CASE pc' = [pc EXCEPT ![Owner] = "off"]
        BY <1>2, <4>1
      <4>2. CASE pc' = [pc EXCEPT ![Owner] = "off", ![RootWorker] = "local"]
        BY <1>1, <4>2 DEF HoldingPC
      <4>3. QED
        BY <3>4, <4>1, <4>2 DEF StopSecond
    <3>5. CASE StopCalled \/ StopJoin
      BY <3>5 DEF StopCalled, StopJoin
    <3>6. QED
      BY <1>5, <3>1, <3>2, <3>3, <3>4, <3>5 DEF StopStep
  <2>3. QED
    BY <2>1, <2>2, QuietRes
<1>6. QED
  BY <1>3, <1>4, <1>5

\* Init lists no fiber anywhere.
LEMMA InitRes == Init => ResInv
<1> SUFFICES ASSUME Init PROVE ResInv
  OBVIOUS
<1>1. /\ global = <<>> /\ \A w \in Workers : local[w] = <<>> /\ hand[w] = <<>>
      /\ \A w \in Workers : pc[w] = "off"
      /\ \A f \in Fibers : fstate[f] = "NONE" /\ parked[f] = "no"
  BY DEF Init
<1>2. ASSUME NEW p \in Places
      PROVE  At(p) = {}
  <2>1. ASSUME NEW w \in Workers, p = -w
        PROVE  At(p) = {}
    <3>1. At(-w) = {}
      BY <1>1, PlaceNames
    <3>2. QED
      BY <2>1, <3>1
  <2>2. p = 0 \/ p \in Workers => At(p) = {}
    BY <1>1, ListNames, PlaceNames
  <2>3. QED
    BY <2>1, <2>2, PlaceFacts
<1>3. EntriesOnce
  BY <1>1, ListNames DEF EntriesOnce
<1>4. PlacesApart /\ WakeApart
  BY <1>1, <1>2 DEF PlacesApart, WakeApart, Unlisted
<1>5. TakenIdle
  BY <1>2, PlaceFacts DEF TakenIdle
<1>6. InsideInv /\ InsideApart
  BY <1>1 DEF InsideInv, InsideApart, InsidePC
<1>7. QED
  BY <1>3, <1>4, <1>5, <1>6 DEF ResInv

\* Every step keeps the resumptions apart.
LEMMA NextRes == IInv /\ ResInv /\ [Next]_vars => ResInv'
<1> SUFFICES ASSUME IInv, ResInv, [Next]_vars PROVE ResInv'
  OBVIOUS
<1>1. CASE Client
  BY <1>1, ClientRes
<1>2. ASSUME NEW w \in Workers, FindTask(w)
      PROVE  ResInv'
  BY <1>2, PopLocalRes, PopGlobalRes, StealFromRes, SpliceRes, ControlRes
  DEF FindTask
<1>3. ASSUME NEW w \in Workers, RunTask(w)
      PROVE  ResInv'
  BY <1>3, DispatchRes, SettleRes DEF RunTask
<1>4. ASSUME NEW w \in Workers, FiberStep(w)
      PROVE  ResInv'
  BY <1>4, SpawnWakeRes, GiveUpRes DEF FiberStep
<1>5. ASSUME NEW w \in Workers, Idle(w)
      PROVE  ResInv'
  BY <1>5, SpawnWakeRes, ControlRes DEF Idle
<1>6. ASSUME NEW p \in Workers \cup {Owner}, StoppingCall(p)
      PROVE  ResInv'
  BY <1>6, ControlRes
<1>7. CASE Start \/ StopBegin \/ StopStep
  BY <1>7, ControlRes
<1>8. CASE UNCHANGED vars
  <2>1. UNCHANGED <<queueVars, fiberVars, hand>> /\ pc' = pc
    BY <1>8 DEF vars, queueVars, fiberVars
  <2>2. QED
    BY <2>1, QuietRes
<1>9. QED
  BY <1>1, <1>2, <1>3, <1>4, <1>5, <1>6, <1>7, <1>8 DEF Next, Stopped

\* The resumptions stay apart in every reachable state.
LEMMA SpecRes == Spec => []ResInv
<1>1. Init => ResInv
  BY InitRes
<1>2. IInv /\ ResInv /\ [Next]_vars => ResInv'
  BY NextRes
<1>3. QED
  BY <1>1, <1>2, SpecIInv, PTL DEF Spec

\* Fiber::swapIn()'s assertion holds whatever the number of workers: a fiber
\* is never resumed while it is EXEC, nor by two workers at a time.
THEOREM NeverRunTwice == Spec => []NoDoubleRun
<1>1. ASSUME IInv, ResInv
      PROVE  NoDoubleRun
  <2>1. ASSUME NEW w \in Workers, pc[w] = "got"
        PROVE  ~Exec(Current(w))
    <3>1. hand[w] # <<>> /\ hand[w] \in Seq(Item) /\ NoTwice(hand[w])
      BY <1>1, <2>1, CurrentType DEF HoldingPC, IInv, TypeOK, ResInv, EntriesOnce
    <3>2. Current(w) \in Names(hand[w])
      BY <3>1, TailNames DEF Current
    <3>3. Current(w) \in At(-w)
      BY <2>1, <3>2, PlaceNames
    <3>4. QED
      BY <1>1, <3>3 DEF ResInv, TakenIdle, Exec
  <2>2. ASSUME NEW w \in Workers, pc[w] \in {"running", "parking"},
               NEW v \in Workers \ {w}, pc[v] \in {"running", "parking", "settle"}
        PROVE  Current(v) # Current(w)
    BY <1>1, <2>2 DEF ResInv, InsideApart, InsidePC
  <2>3. QED
    BY <2>1, <2>2 DEF NoDoubleRun
<1>2. QED
  BY <1>1, SpecIInv, SpecRes, PTL

\* No interleaving of batches, thefts, splices, READY re-queueing and wake-ups
\* duplicates a fiber's resumption, or leaves one behind while it runs.
THEOREM ResumedOnce == Spec => []OneResumption
<1>1. ASSUME IInv, ResInv
      PROVE  OneResumption
  <2> SUFFICES ASSUME NEW f \in Fibers
               PROVE  /\ Cardinality(Resumptions(f)) <= 1
                      /\ (\E w \in Workers : pc[w] = "running" /\ Current(w) = f)
                             => Resumptions(f) = {}
    BY DEF OneResumption
  <2> DEFINE R == Resumptions(f)
  <2>1. ASSUME NEW x \in R
        PROVE  \/ \E i \in DOMAIN global :
                      x = <<"global", 0, i>> /\ global[i].fiber = f /\ f \in At(0)
               \/ \E w \in Workers : \E i \in DOMAIN local[w] :
                      x = <<"local", w, i>> /\ local[w][i].fiber = f /\ f \in At(w)
               \/ \E w \in Workers : \E i \in DOMAIN hand[w] :
                      x = <<"hand", w, i>> /\ hand[w][i].fiber = f /\ f \in At(-w)
               \/ x = <<"parked", 0, 0>> /\ parked[f] # "no"
    <3> DEFINE G == {<<"global", 0, i>> : i \in {i \in DOMAIN global : global[i].fiber = f}}
               L(w) == {<<"local", w, i>> : i \in {i \in DOMAIN local[w] : local[w][i].fiber = f}}
               H(w) == {<<"hand", w, i>> : i \in {i \in DOMAIN hand[w] : hand[w][i].fiber = f}}
               P == IF parked[f] = "no" THEN {} ELSE {<<"parked", 0, 0>>}
               W == {w \in Workers : pc[w] \in {"splice", "got"}}
    <3>1. CASE x \in G
      <4>1. PICK i \in DOMAIN global : x = <<"global", 0, i>> /\ global[i].fiber = f
        BY <3>1
      <4>2. f \in At(0)
        BY <4>1, PlaceNames DEF Names
      <4>3. QED
        BY <4>1, <4>2
    <3>2. ASSUME NEW w \in Workers, x \in L(w)
          PROVE  <2>1!2!2
      <4>1. PICK i \in DOMAIN local[w] : x = <<"local", w, i>> /\ local[w][i].fiber = f
        BY <3>2
      <4>2. f \in Names(local[w])
        BY <4>1 DEF Names
      <4>3. f \in At(w)
        BY <4>2, PlaceNames
      <4>4. QED
        BY <4>1, <4>3
    <3>3. ASSUME NEW w \in Workers, pc[w] \in {"splice", "got"}, x \in H(w)
          PROVE  <2>1!2!3
      <4>1. PICK i \in DOMAIN hand[w] : x = <<"hand", w, i>> /\ hand[w][i].fiber = f
        BY <3>3
      <4>2. f \in Names(hand[w])
        BY <4>1 DEF Names
      <4>3. f \in At(-w)
        BY <3>3, <4>2, PlaceNames
      <4>4. QED
        BY <4>1, <4>3
    <3>4. CASE x \in P
      BY <3>4
    <3> DEFINE UL == UNION {L(w) : w \in Workers}
               UH == UNION {H(w) : w \in W}
    <3>5. x \in G \cup UL \cup UH \cup P
      <4>1. R = G \cup UL \cup UH \cup P
        BY Zenon DEF Resumptions
      <4> HIDE DEF R, G, UL, UH, P
      <4>2. QED
        BY <4>1
    <3> HIDE DEF G, L, H, P
    <3>6. \/ x \in G
          \/ \E w \in Workers : x \in L(w)
          \/ \E w \in Workers : pc[w] \in {"splice", "got"} /\ x \in H(w)
          \/ x \in P
      <4>1. x \in UL => \E w \in Workers : x \in L(w)
        BY Zenon
      <4>2. x \in UH => \E w \in W : x \in H(w)
        <5> HIDE DEF W
        <5>1. QED
          BY Zenon
      <4> HIDE DEF UL, UH
      <4>3. x \in G \/ x \in UL \/ x \in UH \/ x \in P
        BY <3>5
      <4>4. QED
        BY <4>1, <4>2, <4>3
    <3>7. QED
      BY <3>1, <3>2, <3>3, <3>4, <3>6
  <2>2. ASSUME NEW x \in R, NEW y \in R
        PROVE  x = y
    BY <1>1, <2>1, PlaceFacts
    DEF ResInv, EntriesOnce, NoTwice, PlacesApart, WakeApart, Unlisted
  <2>3. Cardinality(R) <= 1
    <3>1. CASE R = {}
      BY <3>1, FS_EmptySet
    <3>2. CASE R # {}
      <4>1. PICK x : R = {x}
        BY <2>2, <3>2
      <4>2. QED
        BY <4>1, FS_Singleton
    <3>3. QED
      BY <3>1, <3>2
  <2>4. ASSUME NEW w \in Workers, pc[w] = "running", Current(w) = f
        PROVE  R = {}
    <3>1. parked[f] = "no" /\ Unlisted(f)
      BY <1>1, <2>4 DEF ResInv, InsideInv, InsidePC
    <3>2. QED
      BY <2>1, <3>1, PlaceFacts DEF Unlisted
  <2>5. QED
    BY <2>3, <2>4
<1>2. QED
  BY <1>1, SpecIInv, SpecRes, PTL

-----------------------------------------------------------------------------
(* What stop() leaves behind, for fibers that park on events and timers    *)
(* only.  A job handed to another scheduler is not counted by stopping(),  *)
(* so its wake-up may come after stop() has returned.                      *)

\* The places in run() and stopping() where a worker's own queue is empty.
EmptiedPC == {"off", "global", "steal", "pend", "lock", "scan", "yes", "exit"}

Emptied ==
    \A w \in Workers :
        /\ pc[w] \in EmptiedPC => local[w] = <<>>
        /\ pc[w] \notin HoldingPC => hand[w] = <<>>

\* Without wake-ups from other schedulers, what waits in the global queue is
\* not executing, so no look at it skips an unpinned task.
GlobalIdle ==
    /\ \A f \in Fibers : parked[f] # "ext"
    /\ \A f \in At(0) : fstate[f] # "EXEC"

\* The worker looks at the global queue before it can leave run().
WillLook(w) ==
    /\ pc[w] \notin {"off", "exit"}
    /\ pc[w] = "steal" => w \notin idleTerm

FreeQueued == \E i \in DOMAIN global : global[i].thread = AnyThread

\* An unpinned task in the global queue has a worker that will look there,
\* unless the threads are still to be started, or the only one is the caller's.
FreeServed ==
    FreeQueued =>
        \/ stage = "new"
        \/ \E w \in Workers : WillLook(w)
        \/ /\ Workers = {RootWorker}
           /\ stage \in {"up", "first", "second"}
           /\ pc[Owner] \notin {"scan", "yes"}

StageInv ==
    /\ autoStop <=> stage \notin {"new", "up"}
    /\ ~autoStop => /\ idleTerm = {}
                    /\ \A p \in Workers \cup {Owner} : pc[p] \notin {"scan", "yes"}
    /\ stage = "new" => \A w \in Workers : pc[w] = "off"
    /\ \A w \in Workers : pc[w] = "exit" => w \in idleTerm
    /\ \A w \in Workers : w # RootWorker /\ pc[w] = "off" => stage = "new"
    /\ \A w \in Workers : w = RootWorker =>
         /\ stage \in {"new", "up", "first", "second"} => pc[w] = "off"
         /\ stage \in {"join", "down"} => pc[w] \in {"off", "exit"}
    /\ stage = "down" => \A w \in Workers : pc[w] \in {"off", "exit"}
    /\ stage \in {"up", "first"} /\ stopFlag => Workers = {RootWorker}
    /\ stage = "first" /\ pc[Owner] \in {"scan", "yes"} => stopFlag

StopInv ==
    /\ Emptied
    /\ GlobalIdle
    /\ FreeServed
    /\ StageInv

\* A worker that is neither off nor gone moves on within run() or idle().
LEMMA WorkerStage ==
    ASSUME IInv, StageInv, NEW w \in Workers, pc[w] \notin {"off", "exit"},
           UNCHANGED stopVars,
           NEW place, pc' = [pc EXCEPT ![w] = place],
           place # "off",
           place = "exit" => w \in idleTerm,
           place \in {"scan", "yes"} => autoStop,
           idleTerm \subseteq idleTerm',
           idleTerm' = idleTerm \/ autoStop
    PROVE  StageInv'
<1>1. /\ autoStop' = autoStop /\ stopFlag' = stopFlag /\ stage' = stage
      /\ Owner \notin Workers
      /\ pc \in [Workers \cup {Owner} -> WorkerPC]
  BY WorkersFacts DEF stopVars, IInv, TypeOK
<1>2. /\ pc'[w] = place
      /\ \A p \in Workers \cup {Owner} : p # w => pc'[p] = pc[p]
  BY <1>1
<1>3. stage # "down" /\ (w = RootWorker => stage = "call")
  BY DEF StageInv, IInv, TypeOK, Stages
<1>4. QED
  BY <1>1, <1>2, <1>3 DEF StageInv

\* A step that changes no program counter and no stop flag.
LEMMA SameStage ==
    ASSUME StageInv, UNCHANGED <<pc, idleTerm, stopVars>>
    PROVE  StageInv'
BY DEF StageInv, stopVars

\* The steps of one worker keep the stages of stop() in order.
LEMMA WorkerStageInv ==
    ASSUME IInv, StageInv, NEW w \in Workers,
           FindTask(w) \/ RunTask(w) \/ FiberStep(w) \/ StoppingCall(w) \/ Idle(w)
    PROVE  StageInv'
<1>1. CASE FindTask(w)
  <2>1. CASE PopLocal(w)
    <3>1. \E place \in {"got", "global"} : pc' = [pc EXCEPT ![w] = place]
      BY <2>1 DEF PopLocal
    <3>2. QED
      BY <2>1, <3>1, WorkerStage DEF PopLocal
  <2>2. CASE PopGlobal(w)
    <3>1. \E place \in {"got", "splice", "steal"} : pc' = [pc EXCEPT ![w] = place]
      BY <2>2 DEF PopGlobal
    <3>2. QED
      BY <2>2, <3>1, WorkerStage DEF PopGlobal
  <2>3. CASE StealFrom(w)
    <3>1. pc' = pc \/ \E place \in {"got", "splice"} : pc' = [pc EXCEPT ![w] = place]
      BY <2>3 DEF StealFrom
    <3>2. QED
      BY <2>3, <3>1, WorkerStage, SameStage DEF StealFrom
  <2>4. CASE Splice(w)
    BY <2>4, WorkerStage DEF Splice
  <2>5. CASE NoTask(w)
    BY <2>5, WorkerStage DEF NoTask
  <2>6. QED
    BY <1>1, <2>1, <2>2, <2>3, <2>4, <2>5 DEF FindTask
<1>2. CASE RunTask(w)
  <2>1. \E place \in {"local", "running"} : pc' = [pc EXCEPT ![w] = place]
    BY <1>2 DEF RunTask, Dispatch, Settle
  <2>2. pc[w] \in {"got", "settle"} /\ UNCHANGED <<idleTerm, stopVars>>
    BY <1>2 DEF RunTask, Dispatch, Settle
  <2>3. QED
    BY <2>1, <2>2, WorkerStage
<1>3. CASE FiberStep(w)
  <2>1. CASE GiveUp(w)
    <3>1. \E place \in {"parking", "settle"} : pc' = [pc EXCEPT ![w] = place]
      BY <2>1 DEF GiveUp, YieldToReady, Park, YieldToHold, Finish, SwapOut
    <3>2. pc[w] \in {"running", "parking"} /\ UNCHANGED <<idleTerm, stopVars>>
      BY <2>1 DEF GiveUp, YieldToReady, Park, YieldToHold, Finish, SwapOut
    <3>3. QED
      BY <3>1, <3>2, WorkerStage
  <2>2. CASE ~GiveUp(w)
    <3>1. UNCHANGED <<pc, idleTerm, stopVars>>
      BY <1>3, <2>2 DEF FiberStep, Spawn, SpawnGlobal, FiberWake
    <3>2. QED
      BY <3>1, SameStage
  <2>3. QED
    BY <2>1, <2>2
<1>4. CASE StoppingCall(w)
  <2>1. UNCHANGED <<idleTerm, stopVars>>
    BY <1>4 DEF StoppingCall, CheckPending, CheckGlobal, CheckProcessor
  <2>2. pc[w] \in {"pend", "lock", "scan"}
    BY <1>4 DEF StoppingCall, CheckPending, CheckGlobal, CheckProcessor
  <2>3. \/ pc' = pc
        \/ \E place \in {"no", "lock"} : pc' = [pc EXCEPT ![w] = place]
        \/ /\ \E place \in {"scan", "yes"} : pc' = [pc EXCEPT ![w] = place]
           /\ autoStop \/ pc[w] = "scan"
    BY <1>4 DEF StoppingCall, CheckPending, CheckGlobal, CheckProcessor
  <2>4. pc[w] = "scan" => autoStop
    BY DEF StageInv
  <2>5. QED
    BY <2>1, <2>2, <2>3, <2>4, WorkerStage, SameStage
<1>5. CASE Idle(w)
  <2>1. CASE LeaveIdle(w)
    <3>1. pc[w] = "yes" => autoStop
      BY DEF StageInv
    <3>2. /\ pc[w] \in {"yes", "no"} /\ pc' = [pc EXCEPT ![w] = "local"]
          /\ UNCHANGED stopVars
          /\ idleTerm' = IF pc[w] = "yes" THEN idleTerm \cup {w} ELSE idleTerm
      BY <2>1 DEF LeaveIdle
    <3>3. QED
      BY <3>1, <3>2, WorkerStage
  <2>2. CASE ~LeaveIdle(w)
    <3>1. UNCHANGED <<pc, idleTerm, stopVars>>
      BY <1>5, <2>2 DEF Idle, PollWake
    <3>2. QED
      BY <3>1, SameStage
  <2>3. QED
    BY <2>1, <2>2
<1>6. QED
  BY <1>1, <1>2, <1>3, <1>4, <1>5

\* start() and stop() themselves, and stopping() called by stop().
LEMMA OwnerStageInv ==
    ASSUME IInv, StageInv,
           StoppingCall(Owner) \/ Start \/ StopBegin \/ StopStep
    PROVE  StageInv'
<1>1. /\ Owner \notin Workers /\ stage \in Stages /\ idleTerm' = idleTerm
      /\ pc \in [Workers \cup {Owner} -> WorkerPC]
      /\ autoStop \in BOOLEAN /\ stopFlag \in BOOLEAN
      /\ RootWorker \in Workers \cup {-1}
      /\ -1 \notin Workers
  BY WorkersFacts, ConstantsAssumption
  DEF IInv, TypeOK, AnyThread, StoppingCall, CheckPending, CheckGlobal, CheckProcessor,
      Start, StopBegin, StopStep, StopFirst, StopSecond, StopCalled, StopJoin
<1>2. CASE StoppingCall(Owner)
  <2>1. autoStop' = autoStop /\ stopFlag' = stopFlag /\ stage' = stage
    BY <1>2 DEF StoppingCall, CheckPending, CheckGlobal, CheckProcessor, stopVars
  <2>2. \A w \in Workers : pc'[w] = pc[w]
    BY <1>1, <1>2 DEF StoppingCall, CheckPending, CheckGlobal, CheckProcessor
  <2>3. pc'[Owner] \in {"scan", "yes"} => (autoStop /\ stopFlag) \/ pc[Owner] = "scan"
    BY <1>1, <1>2 DEF StoppingCall, CheckPending, CheckGlobal, CheckProcessor
  <2>4. QED
    BY <1>1, <2>1, <2>2, <2>3 DEF StageInv
<1>3. CASE Start
  <2>1. /\ stage = "new" /\ stage' = "up" /\ stopFlag' = FALSE /\ autoStop' = autoStop
    BY <1>3 DEF Start
  <2>2. /\ pc'[Owner] = pc[Owner]
        /\ \A w \in Workers : pc'[w] = IF w # RootWorker THEN "local" ELSE pc[w]
    BY <1>1, <1>3 DEF Start
  <2>3. QED
    BY <1>1, <2>1, <2>2 DEF StageInv
<1>4. CASE StopBegin
  <2>1. /\ stage = "up" /\ stage' = "first" /\ autoStop' = TRUE
        /\ pc'[Owner] = "pend" /\ \A w \in Workers : pc'[w] = pc[w]
    BY <1>1, <1>4 DEF StopBegin
  <2>2. stopFlag' => stopFlag \/ (RootWorker # -1 /\ NWorkers = 1)
    BY <1>4, Zenon DEF StopBegin, UseCaller
  <2>3. RootWorker # -1 /\ NWorkers = 1 => Workers = {RootWorker}
    BY <1>1 DEF Workers
  <2>4. QED
    BY <1>1, <2>1, <2>2, <2>3 DEF StageInv
<1>5. CASE StopFirst
  <2>1. stage = "first" /\ autoStop' = autoStop /\ \A w \in Workers : pc'[w] = pc[w]
    BY <1>1, <1>5 DEF StopFirst
  <2>2. \/ pc[Owner] = "yes" /\ stage' = "down" /\ stopFlag' = stopFlag /\ pc'[Owner] = "off"
        \/ /\ stage' \in {"second", "join"} /\ pc'[Owner] \in {"off", "pend"}
           /\ stage' = "join" => RootWorker = -1
    BY <1>1, <1>5 DEF StopFirst, UseCaller
  <2>3. QED
    BY <1>1, <2>1, <2>2 DEF StageInv
<1>6. CASE StopSecond
  <2>1. /\ stage = "second" /\ autoStop' = autoStop /\ stopFlag' = stopFlag
        /\ \A w \in Workers : w # RootWorker => pc'[w] = pc[w]
        /\ pc'[Owner] = "off"
    BY <1>1, <1>6 DEF StopSecond
  <2>2. \/ stage' = "join" /\ \A w \in Workers : pc'[w] = pc[w]
        \/ stage' = "call" /\ \A w \in Workers : w = RootWorker => pc'[w] = "local"
    BY <1>1, <1>6 DEF StopSecond
  <2>3. QED
    BY <1>1, <2>1, <2>2 DEF StageInv
<1>7. CASE StopCalled
  BY <1>1, <1>7 DEF StopCalled, StageInv
<1>8. CASE StopJoin
  BY <1>1, <1>8 DEF StopJoin, StageInv
<1>9. QED
  BY <1>2, <1>3, <1>4, <1>5, <1>6, <1>7, <1>8 DEF StopStep

\* Every step keeps the stages of stop() in order.
LEMMA NextStage == IInv /\ StageInv /\ [Next]_vars => StageInv'
<1> SUFFICES ASSUME IInv, StageInv, [Next]_vars PROVE StageInv'
  OBVIOUS
<1>1. CASE Client \/ UNCHANGED vars
  <2>1. UNCHANGED <<pc, idleTerm, stopVars>>
    BY <1>1 DEF Client, Submit, ExternalWake, vars, stopVars
  <2>2. QED
    BY <2>1, SameStage
<1>2. CASE StoppingCall(Owner) \/ Start \/ StopBegin \/ StopStep
  BY <1>2, OwnerStageInv
<1>3. QED
  BY <1>1, <1>2, WorkerStageInv DEF Next, Stopped

\* The hands and queues of all workers but one stay as they are.
LEMMA EmptiedStep ==
    ASSUME IInv, Emptied, NEW w \in Workers,
           \A v \in Workers : v # w =>
               pc'[v] = pc[v] /\ hand'[v] = hand[v] /\ local'[v] = local[v],
           pc'[w] \in EmptiedPC => local'[w] = <<>>,
           pc'[w] \notin HoldingPC => hand'[w] = <<>>
    PROVE  Emptied'
BY DEF Emptied

\* A worker whose queue is empty for good has nothing in it and in its hand.
LEMMA NextEmptied == IInv /\ StageInv /\ Emptied /\ [Next]_vars => Emptied'
<1> SUFFICES ASSUME IInv, StageInv, Emptied, [Next]_vars PROVE Emptied'
  OBVIOUS
<1>1. /\ pc \in [Workers \cup {Owner} -> WorkerPC] /\ Owner \notin Workers
      /\ local \in [Workers -> Seq(Item)] /\ hand \in [Workers -> Seq(Item)]
  BY WorkersFacts DEF IInv, TypeOK
<1>2. ASSUME NEW w \in Workers, NEW place, pc' = [pc EXCEPT ![w] = place]
      PROVE  pc'[w] = place /\ \A v \in Workers : v # w => pc'[v] = pc[v]
  BY <1>1, <1>2
<1>3. ASSUME NEW w \in Workers, NEW new, local' = [local EXCEPT ![w] = new]
      PROVE  local'[w] = new /\ \A v \in Workers : v # w => local'[v] = local[v]
  BY <1>1, <1>3
<1>4. ASSUME NEW w \in Workers, NEW new, hand' = [hand EXCEPT ![w] = new]
      PROVE  hand'[w] = new /\ \A v \in Workers : v # w => hand'[v] = hand[v]
  BY <1>1, <1>4
<1>5. ASSUME UNCHANGED <<queueVars, hand>>,
             \A w \in Workers : pc'[w] = pc[w] \/ pc'[w] \in HoldingPC
                 \/ (pc'[w] \in {"local", "no"} /\ pc[w] \notin HoldingPC)
                 \/ (pc[w] \in EmptiedPC)
      PROVE  Emptied'
  BY <1>5 DEF Emptied, queueVars, EmptiedPC, HoldingPC
<1>6. CASE Client
  <2>1. UNCHANGED <<local, hand, pc>>
    BY <1>6 DEF Client, Submit, ExternalWake, ScheduleGlobal
  <2>2. QED
    BY <2>1 DEF Emptied
<1>7. ASSUME NEW w \in Workers, PopLocal(w)
      PROVE  Emptied'
  <2>1. CASE hand' = hand
    <3>1. local' = [local EXCEPT ![w] = <<>>] /\ pc' = [pc EXCEPT ![w] = "global"]
          /\ pc[w] = "local"
      <4>1. ASSUME NEW i \in DOMAIN local[w], hand' = [hand EXCEPT ![w] = <<local[w][i]>>],
                   pc[w] = "local"
            PROVE  FALSE
        <5>1. hand[w] = <<>>
          BY <4>1 DEF Emptied, HoldingPC
        <5>2. hand'[w] = <<local[w][i]>>
          BY <1>4, <4>1
        <5>3. QED
          BY <2>1, <5>1, <5>2
      <4>2. QED
        BY <1>7, <4>1 DEF PopLocal
    <3>2. /\ pc'[w] = "global" /\ \A v \in Workers : v # w => pc'[v] = pc[v]
          /\ local'[w] = <<>> /\ \A v \in Workers : v # w => local'[v] = local[v]
      BY <1>2, <1>3, <3>1
    <3>3. hand'[w] = <<>>
      BY <2>1, <3>1 DEF Emptied, HoldingPC
    <3>4. QED
      BY <2>1, <3>2, <3>3, EmptiedStep
  <2>2. CASE hand' # hand
    <3>1. PICK i \in DOMAIN local[w] :
             /\ local' = [local EXCEPT ![w] = SubSeq(local[w], i + 1, Len(local[w]))]
             /\ hand' = [hand EXCEPT ![w] = <<local[w][i]>>]
             /\ pc' = [pc EXCEPT ![w] = "got"]
      BY <1>7, <2>2 DEF PopLocal
    <3>2. "got" \notin EmptiedPC /\ "got" \in HoldingPC
      BY DEF EmptiedPC, HoldingPC
    <3>3. pc'[w] = "got" /\ \A v \in Workers : v # w => pc'[v] = pc[v]
      BY <1>2, <3>1
    <3>4. \A v \in Workers : v # w => local'[v] = local[v] /\ hand'[v] = hand[v]
      BY <1>3, <1>4, <3>1
    <3>5. QED
      BY <3>2, <3>3, <3>4, EmptiedStep
  <2>3. QED
    BY <2>1, <2>2
<1>8. ASSUME NEW w \in Workers, PopGlobal(w)
      PROVE  Emptied'
  <2>1. local' = local /\ pc[w] = "global"
    BY <1>8 DEF PopGlobal
  <2>2. CASE Eligible(w, global) = {}
    <3>1. hand' = hand /\ pc' = [pc EXCEPT ![w] = "steal"]
      BY <1>8, <2>2 DEF PopGlobal
    <3>2. QED
      BY <1>2, <2>1, <3>1, EmptiedStep DEF Emptied, EmptiedPC, HoldingPC
  <2>3. CASE Eligible(w, global) # {}
    <3>1. \E new : hand' = [hand EXCEPT ![w] = new]
      BY <1>8, <2>3 DEF PopGlobal
    <3>2. \E place \in {"got", "splice"} : pc' = [pc EXCEPT ![w] = place]
      BY <1>8, <2>3 DEF PopGlobal
    <3>3. QED
      BY <1>2, <1>4, <2>1, <3>1, <3>2, EmptiedStep DEF EmptiedPC, HoldingPC
  <2>4. QED
    BY <2>2, <2>3
<1>9. ASSUME NEW w \in Workers, StealFrom(w)
      PROVE  Emptied'
  <2>1. PICK v \in Workers : v = Head(scan[w])
    <3>1. scan[w] \in Seq(Workers) /\ scan[w] # <<>>
      BY <1>9 DEF StealFrom, IInv, TypeOK
    <3>2. QED
      BY <3>1, HeadTailProperties
  <2> DEFINE taken == LastOf(Movable(local[v]), Half(local[v]))
  <2>2. CASE taken = {}
    BY <1>9, <2>1, <2>2 DEF StealFrom, Emptied
  <2>3. CASE taken # {}
    <3>1. local[v] # <<>>
      BY <2>3 DEF LastOf, Movable
    <3>2. /\ \E new : local' = [local EXCEPT ![v] = new]
          /\ \E new : hand' = [hand EXCEPT ![w] = new]
          /\ \E place \in {"got", "splice"} : pc' = [pc EXCEPT ![w] = place]
      BY <1>9, <2>1, <2>3 DEF StealFrom
    <3>3. \A u \in Workers : u # v => local'[u] = local[u]
      BY <1>3, <3>2
    <3>4. \A u \in Workers : u # w => pc'[u] = pc[u] /\ hand'[u] = hand[u]
      BY <1>2, <1>4, <3>2
    <3>5. pc'[w] \in {"got", "splice"}
      BY <1>2, <3>2
    <3>6. QED
      BY <3>1, <3>3, <3>4, <3>5 DEF Emptied, EmptiedPC, HoldingPC
  <2>4. QED
    BY <2>2, <2>3
<1>10. ASSUME NEW w \in Workers, Splice(w)
       PROVE  Emptied'
  <2>1. "got" \notin EmptiedPC /\ "got" \in HoldingPC
    BY DEF EmptiedPC, HoldingPC
  <2>2. pc'[w] = "got" /\ \A v \in Workers : v # w => pc'[v] = pc[v]
    BY <1>2, <1>10 DEF Splice
  <2>3. \A v \in Workers : v # w => local'[v] = local[v] /\ hand'[v] = hand[v]
    BY <1>3, <1>4, <1>10 DEF Splice
  <2>4. QED
    BY <2>1, <2>2, <2>3, EmptiedStep
<1>11. ASSUME NEW w \in Workers, Dispatch(w)
       PROVE  Emptied'
  <2>1. /\ local' = local
        /\ \/ hand' = [hand EXCEPT ![w] = <<>>] /\ pc' = [pc EXCEPT ![w] = "local"]
           \/ hand' = hand /\ pc' = [pc EXCEPT ![w] = "running"]
    BY <1>11 DEF Dispatch, queueVars
  <2>2. /\ "local" \notin EmptiedPC
        /\ "running" \notin EmptiedPC /\ "running" \in HoldingPC
    BY DEF EmptiedPC, HoldingPC
  <2>3. \A v \in Workers : v # w => pc'[v] = pc[v] /\ hand'[v] = hand[v]
    BY <1>2, <1>4, <2>1
  <2>4. (pc'[w] = "local" /\ hand'[w] = <<>>) \/ pc'[w] = "running"
    BY <1>2, <1>4, <2>1
  <2>5. QED
    BY <2>1, <2>2, <2>3, <2>4, EmptiedStep
<1>12. ASSUME NEW w \in Workers, Settle(w)
       PROVE  Emptied'
  <2>1. local' = local \/ \E new : local' = [local EXCEPT ![w] = new]
    BY <1>12 DEF Settle, ScheduleFrom, queueVars
  <2>2. "local" \notin EmptiedPC
    BY DEF EmptiedPC
  <2>3. /\ pc'[w] = "local" /\ hand'[w] = <<>>
        /\ \A v \in Workers : v # w => pc'[v] = pc[v] /\ hand'[v] = hand[v]
    <3>1. hand' = [hand EXCEPT ![w] = <<>>] /\ pc' = [pc EXCEPT ![w] = "local"]
      BY <1>12 DEF Settle
    <3>2. QED
      BY <1>1, <3>1
  <2>4. \A v \in Workers : v # w => local'[v] = local[v]
    BY <1>3, <2>1
  <2>5. QED
    BY <2>2, <2>3, <2>4, EmptiedStep
<1>13. ASSUME NEW w \in Workers, NEW f, NEW thread,
              pc[w] \in {"running", "no"},
              ScheduleFrom(w, f, thread) \/ ScheduleGlobal(f, thread),
              UNCHANGED <<hand, pc>>
       PROVE  Emptied'
  <2>1. local' = local \/ \E new : local' = [local EXCEPT ![w] = new]
    BY <1>13 DEF ScheduleFrom, ScheduleGlobal
  <2>2. pc'[w] \notin EmptiedPC /\ (pc'[w] \notin HoldingPC => hand'[w] = <<>>)
    BY <1>13 DEF EmptiedPC, Emptied
  <2>3. QED
    BY <1>3, <1>13, <2>1, <2>2, EmptiedStep
<1>14. ASSUME NEW w \in Workers, FiberStep(w)
       PROVE  Emptied'
  <2>1. CASE GiveUp(w)
    <3>1. UNCHANGED <<queueVars, hand>>
      BY <2>1 DEF GiveUp, YieldToReady, Park, YieldToHold, Finish, SwapOut
    <3>2. \E place \in {"parking", "settle"} : pc' = [pc EXCEPT ![w] = place]
      BY <2>1 DEF GiveUp, YieldToReady, Park, YieldToHold, Finish, SwapOut
    <3>3. QED
      BY <1>2, <1>5, <3>1, <3>2 DEF HoldingPC
  <2>2. QED
    BY <1>13, <1>14, <2>1 DEF FiberStep, Spawn, SpawnGlobal, FiberWake
<1>15. ASSUME NEW w \in Workers, Idle(w)
       PROVE  Emptied'
  <2>1. CASE LeaveIdle(w)
    <3>1. /\ UNCHANGED <<queueVars, hand>> /\ pc[w] \in {"yes", "no"}
          /\ pc' = [pc EXCEPT ![w] = "local"]
      BY <2>1 DEF LeaveIdle
    <3>2. QED
      BY <1>2, <1>5, <3>1 DEF HoldingPC
  <2>2. QED
    BY <1>13, <1>15, <2>1 DEF Idle, PollWake
<1>16. ASSUME NEW w \in Workers, NoTask(w) \/ StoppingCall(w)
       PROVE  Emptied'
  <2>1. /\ UNCHANGED <<queueVars, hand>> /\ pc[w] \in EmptiedPC
        /\ pc' = pc \/ \E place : pc' = [pc EXCEPT ![w] = place]
    BY <1>16 DEF NoTask, StoppingCall, CheckPending, CheckGlobal, CheckProcessor, EmptiedPC
  <2>2. QED
    BY <1>2, <1>5, <2>1
<1>17. CASE StoppingCall(Owner) \/ Start \/ StopBegin \/ StopStep
  <2>1. UNCHANGED <<queueVars, hand>>
    BY <1>17 DEF StoppingCall, CheckPending, CheckGlobal, CheckProcessor,
      Start, StopBegin, StopStep, StopFirst, StopSecond, StopCalled, StopJoin
  <2>2. ASSUME NEW w \in Workers
        PROVE  pc'[w] = pc[w] \/ (pc'[w] = "local" /\ pc[w] = "off")
    <3>1. CASE StoppingCall(Owner)
      BY <1>1, <3>1 DEF StoppingCall, CheckPending, CheckGlobal, CheckProcessor
    <3>2. CASE Start
      <4>1. pc[w] = "off"
        BY <3>2 DEF Start, StageInv, IInv, TypeOK
      <4>2. QED
        BY <1>1, <3>2, <4>1 DEF Start
    <3>3. CASE StopBegin \/ StopFirst
      BY <1>1, <3>3 DEF StopBegin, StopFirst
    <3>4. CASE StopSecond
      BY <1>1, <3>4 DEF StopSecond, StageInv
    <3>5. CASE StopCalled \/ StopJoin
      BY <3>5 DEF StopCalled, StopJoin
    <3>6. QED
      BY <1>17, <3>1, <3>2, <3>3, <3>4, <3>5 DEF StopStep
  <2>3. QED
    BY <1>5, <2>1, <2>2 DEF HoldingPC
<1>18. CASE UNCHANGED vars
  BY <1>18 DEF vars, Emptied
<1>19. QED
  BY <1>6, <1>7, <1>8, <1>9, <1>10, <1>11, <1>12, <1>14, <1>15, <1>16, <1>17, <1>18
  DEF Next, Stopped, FindTask, RunTask

\* The fibers in the global queue are not EXEC: the queue receives new tasks
\* only, and a fiber is entered by the worker that has taken its one entry.
LEMMA NextGlobalIdle ==
    ASSUME "ext" \notin Holds, IInv, ResInv, GlobalIdle, [Next]_vars
    PROVE  GlobalIdle'
<1>1. /\ fstate \in [Fibers -> FiberState] /\ parked \in [Fibers -> {"no", "io", "ext"}]
      /\ \A f \in At(0) : f \in Fibers
      /\ At(0) = Names(global) /\ At(0)' = Names(global')
  BY PlacesListFibers, PlaceFacts, PlaceNames, PlaceNamesNext DEF IInv, TypeOK
<1>2. ASSUME At(0)' \subseteq At(0),
             \A f \in Fibers : parked'[f] # "ext",
             \A f \in At(0) : fstate'[f] = "EXEC" => fstate[f] = "EXEC"
      PROVE  GlobalIdle'
  BY <1>2 DEF GlobalIdle
<1>3. ASSUME NEW f \in Fibers, NEW thread \in Workers \cup {AnyThread}, NEW w \in Workers,
             ScheduleFrom(w, f, thread) \/ ScheduleGlobal(f, thread),
             fstate[f] = "NONE", fstate' = [fstate EXCEPT ![f] = "INIT"],
             UNCHANGED <<parked, hand, pc>>
      PROVE  GlobalIdle'
  <2>1. Unlisted(f)
    BY <1>3 DEF ResInv, WakeApart
  <2>2. \A v \in Workers : At(-v)' = At(-v) /\ NoTwice(hand'[v])
    BY <1>3, PlaceNames, PlaceNamesNext DEF ResInv, EntriesOnce
  <2>3. At(0)' \subseteq At(0) \cup {f}
    <3>1. \E a \in Places :
                /\ At(a)' = At(a) \cup {f}
                /\ \A p \in Places : p # a => At(p)' = At(p)
      BY <1>3, <2>1, <2>2, ScheduleAdds
    <3>2. QED
      BY <3>1, PlaceFacts
  <2>4. fstate'[f] = "INIT" /\ \A g : g # f => fstate'[g] = fstate[g]
    BY <1>1, <1>3
  <2>5. QED
    BY <1>3, <2>3, <2>4 DEF GlobalIdle
<1>4. ASSUME NEW w \in Workers, NEW f \in Fibers,
             ScheduleFrom(w, f, AnyThread), parked' = [parked EXCEPT ![f] = "no"],
             fstate' = fstate
      PROVE  GlobalIdle'
  <2>1. global' = global
    BY <1>4 DEF ScheduleFrom
  <2>2. QED
    BY <1>1, <1>4, <2>1 DEF GlobalIdle
<1>5. CASE Client
  <2>1. \A f \in Fibers : ~ExternalWake(f)
    BY DEF GlobalIdle, ExternalWake
  <2>2. PICK f \in Fibers, thread \in Pins : Submit(f, thread)
    BY <1>5, <2>1 DEF Client
  <2>3. PICK w : w \in Workers
    BY ConstantsAssumption DEF Workers
  <2>4. thread \in Workers \cup {AnyThread}
    BY ConstantsAssumption
  <2>5. QED
    BY <1>3, <2>2, <2>3, <2>4 DEF Submit
<1>6. ASSUME UNCHANGED <<global, fstate, parked>>
      PROVE  GlobalIdle'
  BY <1>1, <1>6 DEF GlobalIdle
<1>7. ASSUME NEW w \in Workers, FindTask(w)
      PROVE  GlobalIdle'
  <2>1. CASE ~PopGlobal(w)
    BY <1>6, <1>7, <2>1
    DEF FindTask, PopLocal, StealFrom, Splice, NoTask, fiberVars, queueVars
  <2>2. CASE PopGlobal(w)
    <3>1. UNCHANGED <<fstate, parked>>
      BY <2>2 DEF PopGlobal, fiberVars
    <3>2. global' = global \/ \E T : global' = Without(global, T)
      BY <2>2 DEF PopGlobal
    <3>3. ASSUME NEW T
          PROVE  Names(Without(global, T)) \subseteq Names(global)
      <4>1. (DOMAIN global) \ T \in SUBSET DOMAIN global
            /\ global \in Seq(Item) /\ NoTwice(global)
        BY DEF IInv, TypeOK, ResInv, EntriesOnce
      <4>2. \A f \in Names(Without(global, T)) :
                \E j \in (DOMAIN global) \ T : global[j].fiber = f
        BY <4>1, PickNames DEF Without
      <4>3. \A j \in DOMAIN global : global[j].fiber \in Names(global)
        BY DEF Names
      <4>4. QED
        BY <4>2, <4>3
    <3>4. At(0)' \subseteq At(0)
      BY <1>1, <3>2, <3>3
    <3>5. QED
      BY <1>2, <3>1, <3>4 DEF GlobalIdle
  <2>3. QED
    BY <2>1, <2>2
<1>8. ASSUME NEW w \in Workers, Dispatch(w)
      PROVE  GlobalIdle'
  <2>1. UNCHANGED <<global, parked>> /\ pc[w] = "got"
        /\ (fstate' = fstate \/ fstate' = [fstate EXCEPT ![Current(w)] = "EXEC"])
    BY <1>8 DEF Dispatch, queueVars
  <2>2. Current(w) \notin At(0)
    <3>1. hand[w] # <<>> /\ hand[w] \in Seq(Item) /\ NoTwice(hand[w])
      BY <2>1, CurrentType DEF HoldingPC, IInv, TypeOK, ResInv, EntriesOnce
    <3>2. Current(w) \in Names(hand[w])
      BY <3>1, TailNames DEF Current
    <3>3. Current(w) \in At(-w)
      BY <2>1, <3>2, PlaceNames
    <3>4. QED
      BY <3>3, PlaceFacts DEF ResInv, PlacesApart
  <2>3. At(0)' = At(0) /\ \A f \in At(0) : fstate'[f] = fstate[f]
    BY <1>1, <2>1, <2>2
  <2>4. QED
    BY <1>2, <2>1, <2>3 DEF GlobalIdle
<1>9. ASSUME NEW w \in Workers, Settle(w)
      PROVE  GlobalIdle'
  <2>1. global' = global /\ parked' = parked
        /\ (fstate' = fstate \/ fstate' = [fstate EXCEPT ![Current(w)] = "HOLD"])
    BY <1>9 DEF Settle, ScheduleFrom, queueVars
  <2>2. At(0)' = At(0) /\ \A f \in At(0) : fstate'[f] = "EXEC" => fstate[f] = "EXEC"
    BY <1>1, <2>1
  <2>3. QED
    BY <1>2, <2>1, <2>2 DEF GlobalIdle
<1>10. ASSUME NEW w \in Workers, GiveUp(w)
       PROVE  GlobalIdle'
  <2>1. At(0)' = At(0)
    BY <1>1, <1>10
    DEF GiveUp, YieldToReady, Park, YieldToHold, Finish, SwapOut, queueVars
  <2>2. \A f \in At(0) : fstate'[f] = "EXEC" => fstate[f] = "EXEC"
    BY <1>1, <1>10
    DEF GiveUp, YieldToReady, Park, YieldToHold, Finish, fiberVars
  <2>3. \A f \in Fibers : parked'[f] # "ext"
    BY <1>1, <1>10
    DEF GiveUp, YieldToReady, Park, YieldToHold, Finish, fiberVars, GlobalIdle
  <2>4. QED
    BY <1>2, <2>1, <2>2, <2>3
<1>11. ASSUME NEW w \in Workers, FiberStep(w)
       PROVE  GlobalIdle'
  <2>1. ASSUME NEW f \in Fibers, NEW thread \in Pins, Spawn(w, f, thread)
        PROVE  GlobalIdle'
    <3>1. thread \in Workers \cup {AnyThread}
      BY ConstantsAssumption
    <3>2. QED
      BY <1>3, <2>1, <3>1 DEF Spawn
  <2>2. ASSUME NEW f \in Fibers, SpawnGlobal(w, f)
        PROVE  GlobalIdle'
    BY <1>3, <2>2 DEF SpawnGlobal
  <2>3. ASSUME NEW f \in Fibers, FiberWake(w, f)
        PROVE  GlobalIdle'
    BY <1>4, <2>3 DEF FiberWake
  <2>4. QED
    BY <1>10, <1>11, <2>1, <2>2, <2>3 DEF FiberStep
<1>12. ASSUME NEW w \in Workers, Idle(w)
       PROVE  GlobalIdle'
  BY <1>4, <1>6, <1>12 DEF Idle, LeaveIdle, PollWake, queueVars, fiberVars
<1>13. ASSUME NEW p \in Workers \cup {Owner}, StoppingCall(p)
       PROVE  GlobalIdle'
  BY <1>6, <1>13
  DEF StoppingCall, CheckPending, CheckGlobal, CheckProcessor, queueVars, fiberVars
<1>14. CASE Start \/ StopBegin \/ StopStep
  BY <1>6, <1>14
  DEF Start, StopBegin, StopStep, StopFirst, StopSecond, StopCalled, StopJoin,
      queueVars, fiberVars
<1>15. CASE UNCHANGED vars
  BY <1>6, <1>15 DEF vars
<1>16. QED
  BY <1>5, <1>7, <1>8, <1>9, <1>11, <1>12, <1>13, <1>14, <1>15 DEF Next, Stopped, RunTask

\* An unpinned task in the global queue keeps a worker that will look there.
LEMMA NextFreeServed ==
    ASSUME IInv, StopInv, [Next]_vars
    PROVE  FreeServed'
<1>1. /\ pc \in [Workers \cup {Owner} -> WorkerPC] /\ Owner \notin Workers
      /\ global \in Seq(Item) /\ stage \in Stages /\ Workers # {}
      /\ RootWorker \in Workers \cup {-1} /\ -1 \notin Workers
  <2>1. Workers # {}
    BY ConstantsAssumption DEF Workers
  <2>2. QED
    BY <2>1, WorkersFacts, ConstantsAssumption DEF IInv, TypeOK, AnyThread
<1>2. StageInv /\ FreeServed /\ GlobalIdle
  BY DEF StopInv
<1>3. ASSUME NEW w \in Workers, pc'[w] \notin {"off", "exit", "steal"}
      PROVE  FreeServed'
  BY <1>3 DEF FreeServed, WillLook
<1>4. ASSUME global' = global,
             \A w \in Workers : pc'[w] = pc[w] \/ pc'[w] \notin {"off", "exit", "steal"}
                                \/ (pc'[w] = "exit" /\ pc[w] = "steal" /\ w \in idleTerm),
             \A w \in Workers : w \in idleTerm' => w \in idleTerm \/ pc'[w] # "steal",
             stage' = stage, pc'[Owner] = pc[Owner]
      PROVE  FreeServed'
  BY <1>2, <1>4 DEF FreeServed, WillLook, FreeQueued
<1>5. CASE Client
  <2>1. PICK f \in Fibers, thread \in Pins : Submit(f, thread)
    BY <1>2, <1>5 DEF Client, ExternalWake, GlobalIdle
  <2>2. ~autoStop /\ UNCHANGED <<pc, idleTerm, stage>>
    BY <2>1 DEF Submit, stopVars
  <2>3. stage \in {"new", "up"} /\ idleTerm = {} /\ pc[Owner] \notin {"scan", "yes"}
    BY <1>2, <2>2 DEF StageInv
  <2>4. CASE stage = "up" /\ Workers # {RootWorker}
    <3>1. PICK w \in Workers : w # RootWorker
      BY <1>1, <2>4
    <3>2. pc[w] # "off" /\ pc[w] # "exit"
      BY <1>2, <2>3, <2>4, <3>1 DEF StageInv
    <3>3. QED
      BY <2>2, <2>3, <3>2 DEF FreeServed, WillLook
  <2>5. CASE stage = "new" \/ Workers = {RootWorker}
    BY <2>2, <2>3, <2>5 DEF FreeServed
  <2>6. QED
    BY <2>3, <2>4, <2>5
<1>6. ASSUME NEW w \in Workers, PopGlobal(w)
      PROVE  FreeServed'
  <2>1. CASE Eligible(w, global) = {}
    <3>1. global' = global
      BY <1>6, <2>1 DEF PopGlobal
    <3>2. ~FreeQueued
      <4>1. ASSUME NEW i \in DOMAIN global, global[i].thread = AnyThread
            PROVE  FALSE
        <5>1. global[i].fiber \in At(0)
          BY PlaceNames DEF Names
        <5>2. i \in Eligible(w, global)
          BY <1>2, <4>1, <5>1 DEF Eligible, Exec, GlobalIdle
        <5>3. QED
          BY <2>1, <5>2
      <4>2. QED
        BY <4>1 DEF FreeQueued
    <3>3. QED
      BY <3>1, <3>2 DEF FreeServed, FreeQueued
  <2>2. CASE Eligible(w, global) # {}
    <3>1. \E place \in {"got", "splice"} : pc' = [pc EXCEPT ![w] = place]
      BY <1>6, <2>2 DEF PopGlobal
    <3>2. pc'[w] \in {"got", "splice"}
      BY <1>1, <3>1
    <3>3. QED
      BY <1>3, <3>2
  <2>3. QED
    BY <2>1, <2>2
<1>7. ASSUME NEW w \in Workers, FindTask(w), ~PopGlobal(w)
      PROVE  FreeServed'
  <2>1. UNCHANGED <<global, idleTerm, stage>>
    BY <1>7
    DEF FindTask, PopLocal, StealFrom, Splice, NoTask, queueVars, stopVars
  <2>2. \/ pc' = pc
        \/ \E place \in {"got", "splice", "global", "pend"} : pc' = [pc EXCEPT ![w] = place]
        \/ pc' = [pc EXCEPT ![w] = "exit"] /\ pc[w] = "steal" /\ w \in idleTerm
    BY <1>7 DEF FindTask, PopLocal, StealFrom, Splice, NoTask
  <2>3. /\ \A v \in Workers : pc'[v] = pc[v] \/ pc'[v] \notin {"off", "exit", "steal"}
                \/ (pc'[v] = "exit" /\ pc[v] = "steal" /\ v \in idleTerm)
        /\ pc'[Owner] = pc[Owner]
    BY <1>1, <2>2
  <2>4. QED
    BY <1>4, <2>1, <2>3
<1>8. ASSUME NEW w \in Workers, RunTask(w) \/ FiberStep(w) \/ Idle(w)
      PROVE  FreeServed'
  <2>1. CASE RunTask(w)
    <3>1. \E place \in {"local", "running"} : pc' = [pc EXCEPT ![w] = place]
      BY <2>1 DEF RunTask, Dispatch, Settle
    <3>2. QED
      BY <1>1, <1>3, <3>1
  <2>2. CASE GiveUp(w) \/ LeaveIdle(w)
    <3>1. \E place \in {"parking", "settle", "local"} : pc' = [pc EXCEPT ![w] = place]
      BY <2>2 DEF GiveUp, YieldToReady, Park, YieldToHold, Finish, SwapOut, LeaveIdle
    <3>2. QED
      BY <1>1, <1>3, <3>1
  <2>3. CASE ~RunTask(w) /\ ~GiveUp(w) /\ ~LeaveIdle(w)
    <3>1. pc[w] \in {"running", "no"} /\ pc' = pc
      BY <1>8, <2>3 DEF FiberStep, Spawn, SpawnGlobal, FiberWake, Idle, PollWake
    <3>2. QED
      BY <1>3, <3>1
  <2>4. QED
    BY <2>1, <2>2, <2>3
<1>9. ASSUME NEW w \in Workers, StoppingCall(w)
      PROVE  FreeServed'
  <2>1. pc[w] = "scan" \/ \E place \in {"no", "lock", "scan", "yes"} :
            pc' = [pc EXCEPT ![w] = place]
    BY <1>9 DEF StoppingCall, CheckPending, CheckGlobal, CheckProcessor
  <2>2. pc'[w] \in {"no", "lock", "scan", "yes"}
    BY <1>1, <1>9 DEF StoppingCall, CheckPending, CheckGlobal, CheckProcessor
  <2>3. QED
    BY <1>3, <2>2
<1>10. CASE StoppingCall(Owner)
  <2>1. UNCHANGED <<global, idleTerm, stage>>
    BY <1>10 DEF StoppingCall, CheckPending, CheckGlobal, CheckProcessor, queueVars, stopVars
  <2>2. \A w \in Workers : pc'[w] = pc[w]
    BY <1>1, <1>10 DEF StoppingCall, CheckPending, CheckGlobal, CheckProcessor
  <2>3. pc'[Owner] \in {"scan", "yes"} => pc[Owner] = "scan" \/ global = <<>>
    BY <1>1, <1>10 DEF StoppingCall, CheckPending, CheckGlobal, CheckProcessor
  <2>4. global = <<>> => ~FreeQueued
    BY DEF FreeQueued
  <2>5. FreeQueued' <=> FreeQueued
    BY <2>1 DEF FreeQueued
  <2>6. QED
    BY <1>2, <2>1, <2>2, <2>3, <2>4, <2>5 DEF FreeServed, WillLook
<1>11. CASE Start
  <2>1. UNCHANGED <<global, idleTerm>> /\ stage = "new" /\ stage' = "up"
        /\ pc'[Owner] = pc[Owner]
        /\ \A w \in Workers : w # RootWorker => pc'[w] = "local"
    BY <1>1, <1>11 DEF Start, queueVars
  <2>2. CASE Workers = {RootWorker}
    BY <1>2, <2>1, <2>2 DEF FreeServed, StageInv
  <2>3. CASE Workers # {RootWorker}
    <3>1. PICK w \in Workers : w # RootWorker
      BY <1>1, <2>3
    <3>2. QED
      BY <1>3, <2>1, <3>1
  <2>4. QED
    BY <2>2, <2>3
<1>12. CASE StopBegin
  <2>1. UNCHANGED <<global, idleTerm>> /\ stage = "up" /\ stage' = "first"
        /\ pc'[Owner] = "pend" /\ \A w \in Workers : pc'[w] = pc[w]
    BY <1>1, <1>12 DEF StopBegin, queueVars
  <2>2. QED
    BY <1>2, <2>1 DEF FreeServed, FreeQueued, WillLook
<1>13. CASE StopFirst
  <2>1. UNCHANGED <<global, idleTerm>> /\ stage = "first"
        /\ \A w \in Workers : pc'[w] = pc[w]
        /\ \/ pc[Owner] = "yes"
           \/ stage' = "second" /\ pc'[Owner] = "pend"
           \/ RootWorker = -1
    BY <1>1, <1>13 DEF StopFirst, queueVars, UseCaller
  <2>2. Workers = {RootWorker} => RootWorker # -1
    BY <1>1
  <2>3. QED
    BY <1>2, <2>1, <2>2 DEF FreeServed, FreeQueued, WillLook
<1>14. CASE StopSecond
  <2>1. UNCHANGED <<global, idleTerm>> /\ stage = "second"
        /\ \A w \in Workers : w # RootWorker => pc'[w] = pc[w]
    BY <1>1, <1>14 DEF StopSecond, queueVars
  <2>2. CASE pc[Owner] = "yes" /\ \A w \in Workers : pc'[w] = pc[w]
    BY <1>2, <2>1, <2>2 DEF FreeServed, FreeQueued, WillLook
  <2>3. CASE \A w \in Workers : w = RootWorker => pc'[w] = "local"
    <3>1. CASE RootWorker \in Workers
      BY <1>3, <2>3, <3>1
    <3>2. CASE RootWorker \notin Workers
      <4>1. \A w \in Workers : pc'[w] = pc[w]
        BY <2>1, <3>2
      <4>2. QED
        BY <1>1, <1>2, <2>1, <3>2, <4>1 DEF FreeServed, FreeQueued, WillLook
    <3>3. QED
      BY <3>1, <3>2
  <2>4. \/ pc[Owner] = "yes" /\ \A w \in Workers : pc'[w] = pc[w]
        \/ \A w \in Workers : w = RootWorker => pc'[w] = "local"
    BY <1>1, <1>14 DEF StopSecond
  <2>5. QED
    BY <2>2, <2>3, <2>4
<1>15. CASE StopCalled \/ StopJoin
  <2>1. UNCHANGED <<global, idleTerm, pc>> /\ stage \in {"call", "join"}
    BY <1>15 DEF StopCalled, StopJoin, queueVars
  <2>2. QED
    BY <1>2, <2>1 DEF FreeServed, FreeQueued, WillLook
<1>16. CASE UNCHANGED vars
  BY <1>2, <1>16 DEF vars, FreeServed, FreeQueued, WillLook
<1>17. QED
  BY <1>5, <1>6, <1>7, <1>8, <1>9, <1>10, <1>11, <1>12, <1>13, <1>14, <1>15, <1>16
  DEF Next, Stopped, StopStep

\* Init: nothing is queued and nothing has been started.
LEMMA InitStop == Init => StopInv
<1> SUFFICES ASSUME Init PROVE StopInv
  OBVIOUS
<1>1. /\ global = <<>> /\ \A w \in Workers : local[w] = <<>> /\ hand[w] = <<>>
      /\ \A p \in Workers \cup {Owner} : pc[p] = "off"
      /\ \A f \in Fibers : parked[f] = "no"
      /\ stage = "new" /\ idleTerm = {}
  BY DEF Init
<1>2. Emptied
  BY <1>1 DEF Emptied
<1>3. GlobalIdle
  BY <1>1, PlaceNames, ListNames DEF GlobalIdle
<1>4. FreeServed
  BY <1>1 DEF FreeServed
<1>5. ~autoStop
  BY DEF Init
<1>6. StageInv
  BY <1>1, <1>5 DEF StageInv
<1>7. QED
  BY <1>2, <1>3, <1>4, <1>6 DEF StopInv

\* stop() returns only when every task that any worker may take has been run,
\* provided no fiber waits for another scheduler: whatever the workers were
\* doing while stopping() looked at one queue after the other, the last one to
\* leave run() has found them all empty.
THEOREM StopLeavesNothing == "ext" \notin Holds => (Spec => []StopDrains)
<1> SUFFICES ASSUME "ext" \notin Holds
             PROVE  Spec => []StopDrains
  OBVIOUS
<1>1. Init => StopInv
  BY InitStop
<1>2. IInv /\ ResInv /\ StopInv /\ [Next]_vars => StopInv'
  <2> SUFFICES ASSUME IInv, ResInv, StopInv, [Next]_vars PROVE StopInv'
    OBVIOUS
  <2>1. Emptied' /\ StageInv'
    BY NextEmptied, NextStage DEF StopInv
  <2>2. GlobalIdle'
    BY NextGlobalIdle DEF StopInv
  <2>3. FreeServed'
    BY NextFreeServed
  <2>4. QED
    BY <2>1, <2>2, <2>3 DEF StopInv
<1>3. ASSUME StopInv
      PROVE  StopDrains
  <2> SUFFICES ASSUME stage = "down"
               PROVE  /\ \A i \in DOMAIN global : global[i].thread # AnyThread
                      /\ \A w \in Workers : local[w] = <<>> /\ hand[w] = <<>>
    BY DEF StopDrains
  <2>1. \A w \in Workers : pc[w] \in {"off", "exit"}
    BY <1>3 DEF StopInv, StageInv
  <2>2. \A w \in Workers : local[w] = <<>> /\ hand[w] = <<>>
    BY <1>3, <2>1 DEF StopInv, Emptied, EmptiedPC, HoldingPC
  <2>3. ~FreeQueued
    BY <1>3, <2>1 DEF StopInv, FreeServed, WillLook
  <2>4. QED
    BY <2>2, <2>3 DEF FreeQueued
<1>4. QED
  BY <1>1, <1>2, <1>3, SpecIInv, SpecRes, PTL DEF Spec

-----------------------------------------------------------------------------
(* No task is lost, for fibers that park on other schedulers only.  A      *)
(* fiber that parks on an event may be queued by its wake-up on a          *)
(* Processor while it is still EXEC, and popLocalTask() then drops it.     *)

\* Something will resume the fiber.
Kept(f) == parked[f] # "no" \/ \E p \in Places : f \in At(p)

\* A Processor queue lists no fiber that is still executing, so that
\* popLocalTask() has nothing to throw away.
LocalIdle == \A w \in Workers : \A f \in At(w) : fstate[f] # "EXEC"

\* A worker about to resume a fiber has nothing else in its hand.
GotOne == \A w \in Workers : pc[w] = "got" => At(-w) = {Current(w)}

\* A fiber on its way to HOLD: it has registered its wake-up, and run() has
\* not yet seen it come back.
Holding(w) ==
    \/ pc[w] = "parking"
    \/ pc[w] = "settle" /\ fstate[Current(w)] = "EXEC"

Settling(f) == \E w \in Workers : pc[w] = "settle" /\ Current(w) = f

DueKept ==
    /\ \A f \in Fibers :
         /\ fstate[f] \in {"INIT", "HOLD"} => Kept(f)
         /\ fstate[f] = "READY" => Kept(f) \/ Settling(f)
    /\ \A w \in Workers : Holding(w) => Kept(Current(w))

KeptInv ==
    /\ \A f \in Fibers : parked[f] # "io"
    /\ LocalIdle
    /\ GotOne
    /\ DueKept

\* Fewer positions of T lie before an earlier position, and fewer than all.
LEMMA RankApart ==
    ASSUME NEW T, IsFiniteSet(T), T \subseteq Int, NEW j \in T
    PROVE  LET rank(k) == Cardinality({i \in T : i < k})
           IN  /\ rank(j) + 1 \in 1..Cardinality(T)
               /\ \A k \in T : rank(k) = rank(j) => k = j
<1> DEFINE low(k) == {i \in T : i < k}
           rank(k) == Cardinality(low(k))
<1>1. \A k : IsFiniteSet(low(k)) /\ low(k) \subseteq T
  BY FS_Subset
<1>2. \A k : rank(k) \in Nat
  BY <1>1, FS_CardinalityType
<1>3. ASSUME NEW A, A \subseteq T, NEW B, B \subseteq A, NEW x \in A, x \notin B
      PROVE  Cardinality(B) < Cardinality(A)
  <2>1. IsFiniteSet(A)
    BY <1>3, FS_Subset
  <2>2. IsFiniteSet(B) /\ Cardinality(B) <= Cardinality(A)
        /\ Cardinality(B) # Cardinality(A)
    BY <1>3, <2>1, FS_Subset
  <2>3. QED
    BY <2>1, <2>2, FS_CardinalityType
<1>4. ASSUME NEW k \in T, NEW m \in T, k < m
      PROVE  rank(k) < rank(m)
  <2>1. k \in low(m) /\ k \notin low(k) /\ low(k) \subseteq low(m)
    <3>1. k \in Int /\ m \in Int /\ \A i \in T : i \in Int
      OBVIOUS
    <3>2. ~(k < k) /\ \A i \in T : i < k => i < m
      BY <1>4, <3>1
    <3>3. QED
      BY <1>4, <3>2
  <2> HIDE DEF low
  <2>2. QED
    BY <1>1, <1>3, <2>1
<1>5. rank(j) < Cardinality(T)
  <2>1. j \notin low(j)
    OBVIOUS
  <2> HIDE DEF low
  <2>2. QED
    BY <1>1, <1>3, <2>1
<1>6. Cardinality(T) \in Nat
  BY FS_CardinalityType
<1> HIDE DEF rank
<1>7. rank(j) + 1 \in 1..Cardinality(T)
  BY <1>2, <1>5, <1>6
<1>8. ASSUME NEW k \in T, rank(k) = rank(j)
      PROVE  k = j
  <2>1. k \in Int /\ j \in Int
    OBVIOUS
  <2>2. ~(k < j) /\ ~(j < k)
    BY <1>2, <1>4, <1>8
  <2>3. QED
    BY <2>1, <2>2
<1>9. QED
  BY <1>7, <1>8 DEF rank

\* Pick leaves out none of the positions it is given.
LEMMA PickAll ==
    ASSUME NEW q, NEW T, IsFiniteSet(T), T \subseteq Int, NEW j \in T
    PROVE  q[j].fiber \in Names(Pick(q, T))
<1> DEFINE rank(m) == Cardinality({i \in T : i < m})
           at(k) == CHOOSE m \in T : rank(m) = k - 1
           n == Cardinality(T)
           k == rank(j) + 1
<1>1. k \in 1..n /\ \A m \in T : rank(m) = rank(j) => m = j
  BY RankApart
<1>2. Pick(q, T) = [x \in 1..n |-> q[at(x)]]
  BY DEF Pick
<1>3. n \in Nat /\ rank(j) \in Nat
  <2>1. IsFiniteSet({i \in T : i < j})
    BY FS_Subset
  <2>2. QED
    BY <2>1, FS_CardinalityType
<1>4. at(k) = j
  <2> HIDE DEF rank
  <2>1. k - 1 = rank(j)
    BY <1>3
  <2>2. at(k) \in T /\ rank(at(k)) = k - 1
    BY <2>1
  <2>3. QED
    BY <1>1, <2>1, <2>2
<1> HIDE DEF n, k, at
<1>5. DOMAIN Pick(q, T) = 1..n /\ Pick(q, T)[k] = q[j]
  BY <1>1, <1>2, <1>4
<1>6. QED
  BY <1>1, <1>5 DEF Names

\* A queue's fibers are all among those taken and those left.
LEMMA SplitAll ==
    ASSUME NEW S, NEW q \in Seq(S), NEW T \in SUBSET DOMAIN q
    PROVE  Names(q) \subseteq Names(Pick(q, T)) \cup Names(Without(q, T))
<1>1. IsFiniteSet(DOMAIN q) /\ DOMAIN q \subseteq Int
  <2>1. Len(q) \in Nat /\ DOMAIN q = 1..Len(q)
    BY LenProperties
  <2>2. QED
    BY <2>1, FS_Interval
<1>2. IsFiniteSet(T) /\ T \subseteq Int
  BY <1>1, FS_Subset
<1> DEFINE U == (DOMAIN q) \ T
<1>3. IsFiniteSet(U) /\ U \subseteq Int
  BY <1>1, FS_Subset
<1>4. ASSUME NEW j \in DOMAIN q
      PROVE  q[j].fiber \in Names(Pick(q, T)) \cup Names(Without(q, T))
  <2>1. CASE j \in T
    BY <1>2, <2>1, PickAll
  <2>2. CASE j \in U
    BY <1>3, <2>2, PickAll DEF Without
  <2>3. QED
    BY <2>1, <2>2
<1>5. QED
  BY <1>4 DEF Names

\* A reversed list has all the fibers of the list.
LEMMA BackwardsAll ==
    ASSUME NEW S, NEW q \in Seq(S)
    PROVE  Names(q) \subseteq Names(Backwards(q))
<1>1. Len(q) \in Nat /\ DOMAIN q = 1..Len(q)
  BY LenProperties
<1>2. DOMAIN Backwards(q) = 1..Len(q)
      /\ \A k \in 1..Len(q) : Backwards(q)[k] = q[Len(q) + 1 - k]
  BY DEF Backwards
<1>3. ASSUME NEW j \in DOMAIN q
      PROVE  q[j].fiber \in Names(Backwards(q))
  <2>1. PICK k \in 1..Len(q) : k = Len(q) + 1 - j
    BY <1>1
  <2>2. Len(q) + 1 - k = j
    BY <1>1, <2>1
  <2>3. Backwards(q)[k] = q[j] /\ k \in DOMAIN Backwards(q)
    BY <1>2, <2>2
  <2>4. QED
    BY <2>3 DEF Names
<1>4. QED
  BY <1>3 DEF Names

\* A list's fibers are that of its head and those of its tail.
LEMMA TailAll ==
    ASSUME NEW S, NEW q \in Seq(S), q # <<>>
    PROVE  Names(q) \subseteq {Head(q).fiber} \cup Names(Tail(q))
<1> DEFINE n == Len(q)
           t == Tail(q)
<1>1. n \in Nat \ {0} /\ DOMAIN q = 1..n /\ Head(q) = q[1]
      /\ DOMAIN t = 1..(n - 1)
      /\ \A k \in 1..(n - 1) : t[k] = q[k + 1]
  BY LenProperties, EmptySeq, HeadTailProperties
<1> HIDE DEF n, t
<1>2. ASSUME NEW j \in DOMAIN q, j # 1
      PROVE  q[j].fiber \in Names(t)
  <2>1. PICK k \in 1..(n - 1) : k + 1 = j
    <3>1. j - 1 \in 1..(n - 1) /\ (j - 1) + 1 = j
      BY <1>1, <1>2
    <3>2. QED
      BY <3>1
  <2>2. t[k] = q[j] /\ k \in DOMAIN t
    BY <1>1, <2>1
  <2>3. QED
    BY <2>2 DEF Names
<1>3. QED
  BY <1>1, <1>2 DEF Names, t

\* The first entry popped, the queue's other fibers are behind it.
LEMMA RestAll ==
    ASSUME NEW S, NEW q \in Seq(S), 1 \in DOMAIN q
    PROVE  Names(q) \subseteq {q[1].fiber} \cup Names(SubSeq(q, 2, Len(q)))
<1> DEFINE n == Len(q)
           rest == SubSeq(q, 2, n)
<1>1. n \in Nat /\ DOMAIN q = 1..n
  BY LenProperties
<1>2. DOMAIN rest = 1..(n - 1) /\ \A k \in 1..(n - 1) : rest[k] = q[k + 1]
  <2>1. rest = [k \in 1..(n - 1) |-> q[k + 1]]
    BY <1>1
  <2>2. QED
    BY <2>1
<1> HIDE DEF n, rest
<1>3. ASSUME NEW j \in DOMAIN q, j # 1
      PROVE  q[j].fiber \in Names(rest)
  <2>1. PICK k \in 1..(n - 1) : k + 1 = j
    <3>1. j - 1 \in 1..(n - 1) /\ (j - 1) + 1 = j
      BY <1>1, <1>3
    <3>2. QED
      BY <3>1
  <2>2. rest[k] = q[j] /\ k \in DOMAIN rest
    BY <1>2, <2>1
  <2>3. QED
    BY <2>2 DEF Names
<1>4. QED
  BY <1>3 DEF Names, rest, n

\* A step that concerns fiber f: it leaves the other fibers on their way.
LEMMA KeptStep ==
    ASSUME KeptInv, NEW f \in Fibers,
           \A g \in Fibers : g # f => /\ fstate'[g] = fstate[g]
                                      /\ Kept(g) => Kept(g)'
                                      /\ Settling(g) => Settling(g)',
           \A g \in Fibers : parked'[g] # "io",
           fstate'[f] \in {"INIT", "HOLD"} => Kept(f)',
           fstate'[f] = "READY" => Kept(f)' \/ Settling(f)',
           \A w \in Workers : Holding(w)' /\ Current(w)' = f => Kept(f)',
           \A w \in Workers : Holding(w)' /\ Current(w)' # f =>
               /\ Holding(w)
               /\ Current(w)' = Current(w)
               /\ Current(w) \in Fibers,
           LocalIdle', GotOne'
    PROVE  KeptInv'
<1>1. ASSUME NEW g \in Fibers
      PROVE  /\ fstate'[g] \in {"INIT", "HOLD"} => Kept(g)'
             /\ fstate'[g] = "READY" => Kept(g)' \/ Settling(g)'
  BY DEF KeptInv, DueKept
<1>2. ASSUME NEW w \in Workers, Holding(w)'
      PROVE  Kept(Current(w))'
  <2>1. CASE Current(w)' = f
    BY <1>2, <2>1 DEF Kept
  <2>2. CASE Current(w)' # f
    <3>1. PICK g \in Fibers : g = Current(w)' /\ g = Current(w) /\ Kept(g)
      BY <1>2, <2>2 DEF KeptInv, DueKept
    <3>2. Kept(g)'
      BY <2>2, <3>1
    <3>3. QED
      BY <3>1, <3>2 DEF Kept
  <2>3. QED
    BY <2>1, <2>2
<1>3. QED
  BY <1>1, <1>2 DEF KeptInv, DueKept

\* A step that moves entries about without dropping any.
LEMMA KeptMove ==
    ASSUME KeptInv, UNCHANGED <<fstate, parked>>,
           \A p \in Places : \A f \in At(p) : \E r \in Places : f \in At(r)',
           \A w \in Workers : pc'[w] \in InsidePC \/ pc[w] \in InsidePC =>
               pc'[w] = pc[w] /\ hand'[w] = hand[w],
           LocalIdle', GotOne'
    PROVE  KeptInv'
<1>1. \A f : Kept(f) => Kept(f)'
  BY DEF Kept
<1>2. \A w \in Workers : pc'[w] \in InsidePC \/ pc[w] \in InsidePC =>
          pc'[w] = pc[w] /\ Current(w)' = Current(w)
  BY DEF Current
<1>3. \A f : Settling(f) => Settling(f)'
  BY <1>2 DEF Settling, InsidePC
<1>4. ASSUME NEW w \in Workers, Holding(w)'
      PROVE  Kept(Current(w))'
  <2>1. pc'[w] = pc[w] /\ Current(w)' = Current(w)
    BY <1>2, <1>4 DEF Holding, InsidePC
  <2>2. Holding(w)
    BY <1>4, <2>1 DEF Holding
  <2>3. Kept(Current(w))
    BY <2>2 DEF KeptInv, DueKept
  <2>4. QED
    BY <1>1, <2>1, <2>3 DEF Kept
<1>5. QED
  BY <1>1, <1>3, <1>4 DEF KeptInv, DueKept

\* A new task, or a wake-up that is used up, becomes one queue entry.
LEMMA QueueKept ==
    ASSUME IInv, ResInv, KeptInv, NEW f \in Fibers,
           NEW thread \in Workers \cup {AnyThread}, NEW w \in Workers,
           ScheduleFrom(w, f, thread) \/ ScheduleGlobal(f, thread),
           UNCHANGED <<hand, pc>>,
           \/ /\ fstate[f] = "NONE"
              /\ fstate' = [fstate EXCEPT ![f] = "INIT"]
              /\ parked' = parked
           \/ /\ parked[f] # "no"
              /\ parked' = [parked EXCEPT ![f] = "no"]
              /\ fstate' = fstate
              /\ local' = local
    PROVE  KeptInv'
<1>1. fstate \in [Fibers -> FiberState] /\ parked \in [Fibers -> {"no", "io", "ext"}]
  BY DEF IInv, TypeOK
<1>2. Unlisted(f)
  BY DEF ResInv, WakeApart
<1>3. \A v \in Workers : At(-v)' = At(-v) /\ NoTwice(hand'[v])
  BY PlaceNames, PlaceNamesNext DEF ResInv, EntriesOnce
<1>4. PICK a \in Places :
          /\ At(a)' = At(a) \cup {f}
          /\ \A p \in Places : p # a => At(p)' = At(p)
  BY <1>2, <1>3, ScheduleAdds
<1>5. Kept(f)' /\ \A g \in Fibers : g # f => (Kept(g) => Kept(g)')
  BY <1>1, <1>4 DEF Kept
<1>6. /\ \A g \in Fibers : g # f => fstate'[g] = fstate[g]
      /\ \A g \in Fibers : parked'[g] # "io"
      /\ local' = local \/ fstate'[f] = "INIT"
      /\ \A g \in Fibers : fstate'[g] = "EXEC" => fstate[g] = "EXEC"
  BY <1>1 DEF KeptInv
<1>7. LocalIdle'
  <2> SUFFICES ASSUME NEW v \in Workers, NEW g \in At(v)'
               PROVE  fstate'[g] # "EXEC"
    BY DEF LocalIdle
  <2>1. v \in Places
    BY PlaceFacts
  <2>2. CASE g \in At(v)
    <3>1. g \in Fibers /\ fstate[g] # "EXEC"
      BY <2>1, <2>2, PlacesListFibers DEF IInv, KeptInv, LocalIdle
    <3>2. QED
      BY <1>6, <3>1
  <2>3. CASE g \notin At(v)
    <3>1. g = f
      BY <1>4, <2>1, <2>3
    <3>2. local' # local
      BY <2>3, PlaceNames, PlaceNamesNext
    <3>3. QED
      BY <1>6, <3>1, <3>2
  <2>4. QED
    BY <2>2, <2>3
<1>8. \A v \in Workers : Current(v)' = Current(v) /\ pc'[v] = pc[v]
  BY DEF Current
<1>9. GotOne'
  BY <1>3, <1>8 DEF KeptInv, GotOne
<1>10. \A g : Settling(g) => Settling(g)'
  BY <1>8 DEF Settling
<1>11. ASSUME NEW v \in Workers, Holding(v)'
       PROVE  Holding(v) /\ Current(v) \in Fibers
  <2>1. pc[v] \in HoldingPC
    BY <1>8, <1>11 DEF Holding, HoldingPC
  <2>2. Current(v) \in Fibers
    BY <2>1, CurrentType
  <2>3. QED
    BY <1>6, <1>8, <1>11, <2>2 DEF Holding
<1>12. QED
  BY <1>5, <1>6, <1>7, <1>8, <1>9, <1>10, <1>11, KeptStep

\* schedule() from outside and wake-ups from other schedulers, which go to
\* the global queue.
LEMMA ClientKept ==
    ASSUME IInv, ResInv, KeptInv, Client
    PROVE  KeptInv'
<1>1. PICK w : w \in Workers
  BY ConstantsAssumption DEF Workers
<1>2. ASSUME NEW f \in Fibers, NEW thread \in Pins, Submit(f, thread)
      PROVE  KeptInv'
  <2>1. thread \in Workers \cup {AnyThread}
    BY ConstantsAssumption
  <2>2. QED
    BY <1>1, <1>2, <2>1, QueueKept DEF Submit
<1>3. ASSUME NEW f \in Fibers, ExternalWake(f)
      PROVE  KeptInv'
  <2>1. local' = local /\ ScheduleGlobal(f, AnyThread)
    BY <1>3 DEF ExternalWake, ScheduleGlobal
  <2>2. QED
    BY <1>1, <1>3, <2>1, QueueKept DEF ExternalWake
<1>4. QED
  BY <1>2, <1>3 DEF Client

\* A running fiber queues new tasks; no fiber waits for an event.
LEMMA SpawnWakeKept ==
    ASSUME IInv, ResInv, KeptInv, NEW w \in Workers, NEW f \in Fibers
    PROVE  /\ \A thread \in Pins : Spawn(w, f, thread) => KeptInv'
           /\ SpawnGlobal(w, f) => KeptInv'
           /\ ~FiberWake(w, f) /\ ~PollWake(w, f)
<1>1. ASSUME NEW thread \in Pins, Spawn(w, f, thread)
      PROVE  KeptInv'
  <2>1. thread \in Workers \cup {AnyThread}
    BY ConstantsAssumption
  <2>2. QED
    BY <1>1, <2>1, QueueKept DEF Spawn
<1>2. SpawnGlobal(w, f) => KeptInv'
  BY QueueKept DEF SpawnGlobal
<1>3. ~FiberWake(w, f) /\ ~PollWake(w, f)
  BY DEF FiberWake, PollWake, KeptInv
<1>4. QED
  BY <1>1, <1>2, <1>3

\* A worker takes entries from the queue at place a, and the rest stays there.
LEMMA KeptTake ==
    ASSUME IInv, ResInv, KeptInv, NEW w \in Workers, pc[w] \notin HoldingPC,
           NEW a \in Places, a = 0 \/ a \in Workers,
           UNCHANGED <<fstate, parked>>,
           NEW new, hand' = [hand EXCEPT ![w] = new],
           NEW place \in {"got", "splice"}, pc' = [pc EXCEPT ![w] = place],
           a # 0 => global' = global,
           \A v \in Workers : v # a => local'[v] = local[v],
           At(a)' \subseteq At(a),
           At(a) \subseteq At(a)' \cup Names(new),
           place = "got" => Names(new) = {Head(new).fiber}
    PROVE  KeptInv'
<1>1. hand \in [Workers -> Seq(Item)] /\ pc \in [Workers \cup {Owner} -> WorkerPC]
  BY DEF IInv, TypeOK
<1>2. /\ hand'[w] = new /\ pc'[w] = place
      /\ \A v \in Workers : v # w => hand'[v] = hand[v] /\ pc'[v] = pc[v]
  BY <1>1
<1>3. At(-w)' = Names(new) /\ At(-w) = {} /\ -w \in Places
  BY <1>2, PlaceFacts, PlaceNames, PlaceNamesNext DEF HoldingPC
<1>4. \A v \in Workers : v # w => At(-v)' = At(-v)
  BY <1>2, PlaceNames, PlaceNamesNext
<1>5. ASSUME NEW p \in Places, NEW f \in At(p)
      PROVE  \E r \in Places : f \in At(r)'
  <2>1. CASE p = a
    BY <1>3, <2>1
  <2>2. CASE p = 0 /\ p # a
    <3>1. At(p)' = At(p)
      BY <2>2, PlaceNames, PlaceNamesNext
    <3>2. QED
      BY <3>1
  <2>3. CASE p \in Workers /\ p # a
    <3>1. At(p)' = At(p)
      BY <2>3, PlaceNames, PlaceNamesNext
    <3>2. QED
      BY <3>1
  <2>4. ASSUME NEW v \in Workers, p = -v
        PROVE  \E r \in Places : f \in At(r)'
    <3>1. f \in At(-v)
      BY <2>4
    <3>2. v # w
      BY <1>3, <3>1
    <3>3. f \in At(-v)' /\ -v \in Places
      BY <1>4, <3>1, <3>2, PlaceFacts
    <3>4. QED
      BY <3>3
  <2>5. QED
    BY <2>1, <2>2, <2>3, <2>4, PlaceFacts
<1>6. \A v \in Workers : pc'[v] \in InsidePC \/ pc[v] \in InsidePC =>
               pc'[v] = pc[v] /\ hand'[v] = hand[v]
  BY <1>2 DEF InsidePC, HoldingPC
<1>7. LocalIdle'
  <2> SUFFICES ASSUME NEW v \in Workers, NEW g \in At(v)'
               PROVE  fstate'[g] # "EXEC"
    BY DEF LocalIdle
  <2>1. g \in At(v)
    BY PlaceNames, PlaceNamesNext
  <2>2. QED
    BY <2>1 DEF KeptInv, LocalIdle
<1>8. GotOne'
  <2> SUFFICES ASSUME NEW v \in Workers, pc'[v] = "got"
               PROVE  At(-v)' = {Current(v)'}
    BY DEF GotOne
  <2>1. CASE v = w
    <3>1. Current(v)' = Head(new).fiber
      BY <1>2, <2>1 DEF Current
    <3>2. QED
      BY <1>2, <1>3, <2>1, <3>1
  <2>2. CASE v # w
    <3>1. Current(v)' = Current(v) /\ pc[v] = "got"
      BY <1>2, <2>2 DEF Current
    <3>2. QED
      BY <1>4, <2>2, <3>1 DEF KeptInv, GotOne
  <2>3. QED
    BY <2>1, <2>2
<1>9. QED
  BY <1>5, <1>6, <1>7, <1>8, KeptMove

\* Leaving the queues and the hands alone, and entering no fiber.
LEMMA QuietKept ==
    ASSUME IInv, KeptInv,
           UNCHANGED <<queueVars, fiberVars, hand>>,
           \A w \in Workers : pc'[w] \in HoldingPC \/ pc[w] \in HoldingPC => pc'[w] = pc[w]
    PROVE  KeptInv'
<1>1. UNCHANGED <<global, local, hand, fstate, parked>>
  BY DEF queueVars, fiberVars
<1>2. \A w \in Workers : At(w)' = At(w) /\ At(-w)' = At(-w)
  BY <1>1, PlaceNames, PlaceNamesNext DEF HoldingPC
<1>3. At(0)' = At(0)
  BY <1>1, PlaceNames, PlaceNamesNext
<1>4. ASSUME NEW p \in Places
      PROVE  At(p)' = At(p)
  BY <1>2, <1>3, PlaceFacts
<1>5. \A w \in Workers : pc'[w] \in InsidePC \/ pc[w] \in InsidePC =>
               pc'[w] = pc[w] /\ hand'[w] = hand[w]
  BY <1>1 DEF InsidePC, HoldingPC
<1>6. LocalIdle'
  BY <1>1, <1>2 DEF KeptInv, LocalIdle
<1>7. \A w \in Workers : Current(w)' = Current(w)
  BY <1>1 DEF Current
<1>8. GotOne'
  BY <1>2, <1>7 DEF KeptInv, GotOne, HoldingPC
<1>9. QED
  BY <1>1, <1>4, <1>5, <1>6, <1>8, KeptMove

\* popLocalTask() finds no stale entry: it takes the first one, or none.
LEMMA PopLocalKept ==
    ASSUME IInv, ResInv, KeptInv, NEW w \in Workers, PopLocal(w)
    PROVE  KeptInv'
<1> DEFINE q == local[w]
<1>1. q \in Seq(Item) /\ local \in [Workers -> Seq(Item)]
      /\ pc \in [Workers \cup {Owner} -> WorkerPC]
  BY DEF IInv, TypeOK
<1>2. pc[w] \notin HoldingPC /\ UNCHANGED <<fstate, parked>> /\ global' = global
  BY DEF PopLocal, HoldingPC, fiberVars
<1>3. \A j \in DOMAIN q : ~Exec(q[j].fiber)
  <2>1. At(w) = Names(q)
    BY PlaceNames
  <2>2. \A j \in DOMAIN q : q[j].fiber \in Names(q)
    BY DEF Names
  <2>3. QED
    BY <2>1, <2>2 DEF KeptInv, LocalIdle, Exec
<1>4. Len(q) \in Nat /\ DOMAIN q = 1..Len(q)
  BY <1>1, LenProperties
<1>5. ASSUME NEW i \in DOMAIN q,
             \A j \in 1..(i - 1) : Exec(q[j].fiber),
             local' = [local EXCEPT ![w] = SubSeq(q, i + 1, Len(q))],
             hand' = [hand EXCEPT ![w] = <<q[i]>>],
             pc' = [pc EXCEPT ![w] = "got"]
      PROVE  KeptInv'
  <2>1. i = 1
    <3>1. ASSUME i # 1
          PROVE  FALSE
      <4>1. 1 \in DOMAIN q /\ 1 \in 1..(i - 1)
        BY <1>4, <3>1
      <4>2. QED
        BY <1>3, <1>5, <4>1
    <3>2. QED
      BY <3>1
  <2> DEFINE rest == SubSeq(q, 2, Len(q))
             new == <<q[1]>>
  <2>2. Names(q) \subseteq {q[1].fiber} \cup Names(rest)
    BY <1>1, <1>5, <2>1, RestAll
  <2>3. Names(rest) \subseteq Names(q)
    <3>1. NoTwice(q)
      BY DEF ResInv, EntriesOnce
    <3>2. QED
      BY <1>1, <1>5, <2>1, <3>1, RestNames
  <2>4. Names(new) = {q[1].fiber} /\ Head(new) = q[1]
    BY ListNames
  <2>5. local'[w] = rest /\ \A v \in Workers : v # w => local'[v] = local[v]
    BY <1>1, <1>5, <2>1
  <2>6. At(w)' = Names(rest) /\ At(w) = Names(q)
    BY <2>5, PlaceNames, PlaceNamesNext
  <2>7. w \in Places /\ w # 0
    BY PlaceFacts
  <2>8. hand' = [hand EXCEPT ![w] = new]
    BY <1>5, <2>1
  <2> HIDE DEF rest, new, q
  <2>9. At(w)' \subseteq At(w) /\ At(w) \subseteq At(w)' \cup Names(new)
        /\ Names(new) = {Head(new).fiber}
    BY <2>2, <2>3, <2>4, <2>6
  <2>10. QED
    BY <1>2, <1>5, <2>5, <2>7, <2>8, <2>9, KeptTake
<1>6. ASSUME \A j \in DOMAIN q : Exec(q[j].fiber),
             local' = [local EXCEPT ![w] = <<>>],
             pc' = [pc EXCEPT ![w] = "global"],
             hand' = hand
      PROVE  KeptInv'
  <2>1. q = <<>>
    <3>1. DOMAIN q = {}
      BY <1>3, <1>6
    <3>2. Len(q) = 0
      <4>1. 1 \notin 1..Len(q)
        BY <1>4, <3>1
      <4> HIDE DEF q
      <4>2. QED
        BY <1>4, <4>1
    <3>3. QED
      BY <1>1, <3>2, EmptySeq
  <2>2. local' = local
    BY <1>1, <1>6, <2>1
  <2>3. UNCHANGED <<queueVars, fiberVars, hand>>
    BY <1>2, <1>6, <2>2 DEF PopLocal, queueVars
  <2>4. \A v \in Workers : pc'[v] \in HoldingPC \/ pc[v] \in HoldingPC => pc'[v] = pc[v]
    BY <1>1, <1>2, <1>6 DEF HoldingPC
  <2>5. QED
    BY <2>3, <2>4, QuietKept
<1>7. QED
  BY <1>5, <1>6 DEF PopLocal

\* popGlobalTask() leaves in the queue what it does not take.
LEMMA PopGlobalKept ==
    ASSUME IInv, ResInv, KeptInv, NEW w \in Workers, PopGlobal(w)
    PROVE  KeptInv'
<1>1. global \in Seq(Item) /\ pc \in [Workers \cup {Owner} -> WorkerPC]
      /\ NoTwice(global)
  BY DEF IInv, TypeOK, ResInv, EntriesOnce
<1>2. pc[w] \notin HoldingPC /\ UNCHANGED <<fstate, parked>> /\ local' = local
  BY DEF PopGlobal, HoldingPC, fiberVars
<1>3. ASSUME NEW i \in DOMAIN global,
             NEW batch \in SUBSET Movable(global), i \notin batch,
             hand' = [hand EXCEPT ![w] = <<global[i]>> \o Pick(global, batch)],
             global' = Without(global, {i} \cup batch),
             NEW place \in {"got", "splice"},
             place = "got" => batch = {},
             pc' = [pc EXCEPT ![w] = place]
      PROVE  KeptInv'
  <2> DEFINE one == <<global[i]>>
             rest == Pick(global, batch)
             new == one \o rest
             T == {i} \cup batch
             left == Without(global, T)
  <2>1. T \in SUBSET DOMAIN global /\ batch \in SUBSET DOMAIN global
    BY DEF Movable
  <2>2. /\ IsFiniteSet(batch) /\ batch \subseteq Int
        /\ NoTwice(rest) /\ \A f \in Names(rest) : \E j \in batch : global[j].fiber = f
    BY <1>1, <2>1, PickNames
  <2>3. \A j \in DOMAIN global : global[j] \in Item
    BY <1>1, LenProperties
  <2>4. rest \in Seq(Item) /\ Len(rest) = Cardinality(batch)
    BY <2>1, <2>2, <2>3, PickSeq
  <2>5. one \in Seq(Item) /\ NoTwice(one) /\ Names(one) = {global[i].fiber}
    BY <2>3, ListNames
  <2>6. \A f \in Names(one) : f \notin Names(rest)
    BY <1>1, <1>3, <2>1, <2>2, <2>5 DEF NoTwice
  <2> HIDE DEF one, rest, left
  <2>7. Names(new) = Names(one) \cup Names(rest)
    BY <2>2, <2>4, <2>5, <2>6, ConcatNames
  <2>8. Names(left) \subseteq Names(global)
    BY <1>1, <2>1, SplitNames DEF left
  <2>9. Names(global) \subseteq Names(left) \cup Names(new)
    <3>1. Names(global) \subseteq Names(Pick(global, T)) \cup Names(left)
      BY <1>1, <2>1, SplitAll DEF left
    <3>2. \A f \in Names(Pick(global, T)) : \E j \in T : global[j].fiber = f
      BY <1>1, <2>1, PickNames
    <3>3. \A j \in batch : global[j].fiber \in Names(rest)
      BY <2>2, PickAll DEF rest
    <3>4. QED
      BY <2>5, <2>7, <3>1, <3>2, <3>3
  <2>10. place = "got" => Names(new) = {Head(new).fiber}
    <3> SUFFICES ASSUME place = "got"
                 PROVE  Names(new) = {Head(new).fiber}
      OBVIOUS
    <3>1. batch = {} /\ Cardinality(batch) = 0
      BY <1>3, FS_EmptySet
    <3>2. rest = <<>>
      BY <2>4, <3>1, EmptySeq
    <3>3. new = one /\ Head(one) = global[i]
      BY <2>3, <3>2 DEF one
    <3>4. QED
      BY <2>5, <3>3
  <2>11. hand' = [hand EXCEPT ![w] = new] /\ global' = left
    BY <1>3 DEF one, rest, left
  <2> HIDE DEF new
  <2>12. At(0) = Names(global) /\ At(0)' = Names(left) /\ 0 \in Places
    BY <2>11, PlaceFacts, PlaceNames, PlaceNamesNext
  <2>13. At(0)' \subseteq At(0) /\ At(0) \subseteq At(0)' \cup Names(new)
    BY <2>8, <2>9, <2>12
  <2>14. QED
    BY <1>2, <1>3, <2>10, <2>11, <2>12, <2>13, KeptTake
<1>4. ASSUME pc' = [pc EXCEPT ![w] = "steal"], UNCHANGED <<global, hand>>
      PROVE  KeptInv'
  <2>1. \A v \in Workers : pc'[v] \in HoldingPC \/ pc[v] \in HoldingPC => pc'[v] = pc[v]
    BY <1>1, <1>2, <1>4 DEF HoldingPC
  <2>2. UNCHANGED <<queueVars, fiberVars, hand>>
    BY <1>4 DEF PopGlobal, queueVars
  <2>3. QED
    BY <2>1, <2>2, QuietKept
<1>5. CASE Eligible(w, global) = {}
  BY <1>4, <1>5 DEF PopGlobal
<1>6. CASE Eligible(w, global) # {}
  <2>1. PICK i \in Eligible(w, global) :
          LET after == {j \in Movable(global) : j > i}
              batch == IF global[i].thread = AnyThread
                       THEN FirstOf(after, Half(global) - 1)
                       ELSE {}
          IN  /\ hand' = [hand EXCEPT ![w] = <<global[i]>> \o Pick(global, batch)]
              /\ global' = Without(global, {i} \cup batch)
              /\ pc' = [pc EXCEPT ![w] = IF batch = {} THEN "got" ELSE "splice"]
    BY <1>6 DEF PopGlobal
  <2> DEFINE batch == IF global[i].thread = AnyThread
                      THEN FirstOf({j \in Movable(global) : j > i}, Half(global) - 1)
                      ELSE {}
             place == IF batch = {} THEN "got" ELSE "splice"
  <2>2. i \in DOMAIN global /\ i \in Int
    <3>1. i \in DOMAIN global
      BY DEF Eligible
    <3>2. QED
      BY <1>1, <3>1, LenProperties
  <2>3. batch \in SUBSET {j \in Movable(global) : j > i}
    BY DEF FirstOf
  <2>4. batch \in SUBSET Movable(global) /\ i \notin batch
    BY <2>2, <2>3
  <2>5. /\ hand' = [hand EXCEPT ![w] = <<global[i]>> \o Pick(global, batch)]
        /\ global' = Without(global, {i} \cup batch)
        /\ pc' = [pc EXCEPT ![w] = place]
        /\ place \in {"got", "splice"}
        /\ place = "got" => batch = {}
    BY <2>1
  <2> HIDE DEF batch, place
  <2>6. QED
    BY <1>3, <2>2, <2>4, <2>5
<1>7. QED
  BY <1>5, <1>6

\* stealTask() leaves with the victim what it does not take.
LEMMA StealFromKept ==
    ASSUME IInv, ResInv, KeptInv, NEW w \in Workers, StealFrom(w)
    PROVE  KeptInv'
<1>1. PICK v \in Workers : v = Head(scan[w])
  <2>1. scan[w] \in Seq(Workers) /\ scan[w] # <<>>
    BY DEF StealFrom, IInv, TypeOK
  <2>2. QED
    BY <2>1, HeadTailProperties
<1> DEFINE q == local[v]
           taken == LastOf(Movable(q), Half(q))
<1>2. local \in [Workers -> Seq(Item)] /\ q \in Seq(Item) /\ NoTwice(q)
  BY <1>1 DEF IInv, TypeOK, ResInv, EntriesOnce
<1>3. pc[w] \notin HoldingPC /\ UNCHANGED <<fstate, parked>> /\ global' = global
  BY DEF StealFrom, HoldingPC, fiberVars
<1>4. CASE taken = {}
  <2>1. UNCHANGED <<queueVars, fiberVars, hand>> /\ pc' = pc
    BY <1>1, <1>4 DEF StealFrom, queueVars
  <2>2. QED
    BY <2>1, QuietKept
<1>5. CASE taken # {}
  <2> DEFINE some == Pick(q, taken)
             new == Backwards(some)
             place == IF Cardinality(taken) = 1 THEN "got" ELSE "splice"
             left == Without(q, taken)
  <2>1. /\ local' = [local EXCEPT ![v] = left]
        /\ hand' = [hand EXCEPT ![w] = new]
        /\ pc' = [pc EXCEPT ![w] = place]
        /\ place \in {"got", "splice"}
        /\ place = "got" => Cardinality(taken) = 1
    BY <1>1, <1>5 DEF StealFrom
  <2>2. taken \in SUBSET DOMAIN q
    BY DEF LastOf, Movable
  <2> HIDE DEF q, taken, place
  <2>3. IsFiniteSet(taken) /\ taken \subseteq Int
    BY <1>2, <2>2, PickNames
  <2>4. \A j \in taken : q[j] \in Item
    BY <1>2, <2>2, LenProperties
  <2>5. some \in Seq(Item) /\ Len(some) = Cardinality(taken)
    BY <2>3, <2>4, PickSeq
  <2>6. Names(left) \subseteq Names(q)
    BY <1>2, <2>2, SplitNames
  <2>7. Names(q) \subseteq Names(some) \cup Names(left)
    BY <1>2, <2>2, SplitAll
  <2> HIDE DEF some, left
  <2>8. Names(some) \subseteq Names(new)
    BY <2>5, BackwardsAll
  <2>9. place = "got" => Names(new) = {Head(new).fiber}
    <3> SUFFICES ASSUME place = "got"
                 PROVE  Names(new) = {Head(new).fiber}
      OBVIOUS
    <3>1. new \in Seq(Item) /\ Len(new) = 1
      BY <2>1, <2>5, BackwardsSeq
    <3> HIDE DEF new
    <3>2. PICK x : new = <<x>>
      BY <3>1
    <3>3. QED
      BY <3>2, ListNames
  <2>10. local'[v] = left /\ \A u \in Workers : u # v => local'[u] = local[u]
    BY <1>1, <1>2, <2>1
  <2> HIDE DEF new
  <2>11. At(v) = Names(q) /\ At(v)' = Names(left)
    BY <1>1, <2>10, PlaceNames, PlaceNamesNext DEF q
  <2>12. At(v)' \subseteq At(v) /\ At(v) \subseteq At(v)' \cup Names(new)
    BY <2>6, <2>7, <2>8, <2>11
  <2>13. v \in Places /\ v # 0
    BY <1>1, PlaceFacts
  <2>14. QED
    BY <1>1, <1>3, <2>1, <2>9, <2>10, <2>12, <2>13, KeptTake
<1>6. QED
  BY <1>4, <1>5

\* Splicing moves all but the first entry of the hand into the own queue.
LEMMA SpliceKept ==
    ASSUME IInv, ResInv, KeptInv, NEW w \in Workers, Splice(w)
    PROVE  KeptInv'
<1> DEFINE q == local[w]
           h == hand[w]
           one == <<Head(h)>>
           t == Tail(h)
           new == q \o t
<1>1. pc[w] = "splice" /\ UNCHANGED <<global, fstate, parked>>
  BY DEF Splice, fiberVars
<1>2. h # <<>>
  BY <1>1, CurrentType DEF HoldingPC
<1>3. /\ q \in Seq(Item) /\ h \in Seq(Item)
      /\ local \in [Workers -> Seq(Item)] /\ hand \in [Workers -> Seq(Item)]
      /\ pc \in [Workers \cup {Owner} -> WorkerPC]
      /\ NoTwice(q) /\ NoTwice(h)
  BY DEF IInv, TypeOK, ResInv, EntriesOnce
<1>4. t \in Seq(Item)
  BY <1>2, <1>3, HeadTailProperties
<1>5. NoTwice(t) /\ Names(t) \subseteq Names(h)
  BY <1>2, <1>3, TailNames
<1>6. Names(h) \subseteq {Head(h).fiber} \cup Names(t)
  BY <1>2, <1>3, TailAll
<1>7. Names(one) = {Head(h).fiber} /\ Head(one) = Head(h)
  BY ListNames
<1>8. /\ local' = [local EXCEPT ![w] = new]
      /\ hand' = [hand EXCEPT ![w] = one]
      /\ pc' = [pc EXCEPT ![w] = "got"]
  BY DEF Splice
<1>9. /\ local'[w] = new /\ hand'[w] = one /\ pc'[w] = "got"
      /\ \A v \in Workers : v # w =>
            local'[v] = local[v] /\ hand'[v] = hand[v] /\ pc'[v] = pc[v]
  BY <1>3, <1>8
<1>10. w \in Places /\ -w \in Places /\ w # -w
  BY PlaceFacts
<1>11. At(w) = Names(q) /\ At(-w) = Names(h)
  BY <1>1, PlaceNames
<1> HIDE DEF q, h, one, t
<1>12. \A f \in Names(q) : f \notin Names(t)
  BY <1>5, <1>10, <1>11 DEF ResInv, PlacesApart
<1>13. NoTwice(new) /\ Names(new) = Names(q) \cup Names(t)
  BY <1>3, <1>4, <1>5, <1>12, ConcatNames
<1> HIDE DEF new
<1>14. At(w)' = Names(new) /\ At(-w)' = Names(one)
  BY <1>9, PlaceNamesNext
<1>15. /\ \A f \in At(w) : f \in At(w)'
       /\ \A f \in At(-w) : f \in At(w)' \/ f \in At(-w)'
       /\ \A f \in At(w)' : f \in At(w) \/ f \in At(-w)
  BY <1>5, <1>6, <1>7, <1>11, <1>13, <1>14
<1>16. /\ At(0)' = At(0)
       /\ \A v \in Workers : v # w => At(v)' = At(v) /\ At(-v)' = At(-v)
  BY <1>1, <1>9, PlaceNames, PlaceNamesNext
<1>17. ASSUME NEW p \in Places, NEW f \in At(p)
       PROVE  \E r \in Places : f \in At(r)'
  <2>1. CASE p = w \/ p = -w
    BY <1>10, <1>15, <2>1
  <2>2. CASE p # w /\ p # -w
    <3>1. At(p)' = At(p)
      BY <1>16, <2>2, PlaceFacts
    <3>2. QED
      BY <3>1
  <2>3. QED
    BY <2>1, <2>2
<1>18. \A v \in Workers : pc'[v] \in InsidePC \/ pc[v] \in InsidePC =>
               pc'[v] = pc[v] /\ hand'[v] = hand[v]
  BY <1>1, <1>9 DEF InsidePC
<1>19. LocalIdle'
  <2> SUFFICES ASSUME NEW v \in Workers, NEW g \in At(v)'
               PROVE  fstate[g] # "EXEC"
    BY <1>1 DEF LocalIdle
  <2>1. CASE g \in At(v)
    BY <2>1 DEF KeptInv, LocalIdle
  <2>2. CASE g \notin At(v)
    <3>1. g \in At(-w)
      BY <1>15, <1>16, <2>2
    <3>2. QED
      BY <3>1 DEF ResInv, TakenIdle
  <2>3. QED
    BY <2>1, <2>2
<1>20. GotOne'
  <2> SUFFICES ASSUME NEW v \in Workers, pc'[v] = "got"
               PROVE  At(-v)' = {Current(v)'}
    BY DEF GotOne
  <2>1. CASE v = w
    <3>1. Current(w)' = Head(one).fiber
      BY <1>9 DEF Current
    <3>2. QED
      BY <1>7, <1>14, <2>1, <3>1
  <2>2. CASE v # w
    <3>1. Current(v)' = Current(v) /\ pc[v] = "got"
      BY <1>9, <2>2 DEF Current
    <3>2. QED
      BY <1>16, <2>2, <3>1 DEF KeptInv, GotOne
  <2>3. QED
    BY <2>1, <2>2
<1>21. QED
  BY <1>1, <1>17, <1>18, <1>19, <1>20, KeptMove

\* A worker enters the one fiber in its hand, or puts down one that is over.
LEMMA DispatchKept ==
    ASSUME IInv, ResInv, KeptInv, NEW w \in Workers, Dispatch(w)
    PROVE  KeptInv'
<1>1. PICK f : f = Current(w)
  OBVIOUS
<1>2. pc[w] = "got" /\ UNCHANGED <<global, local, parked>>
  BY DEF Dispatch, queueVars
<1>3. f \in Fibers
  BY <1>1, <1>2, CurrentType DEF HoldingPC
<1>4. /\ hand \in [Workers -> Seq(Item)] /\ pc \in [Workers \cup {Owner} -> WorkerPC]
      /\ fstate \in [Fibers -> FiberState]
  BY DEF IInv, TypeOK
<1>5. At(-w) = {f}
  BY <1>1, <1>2 DEF KeptInv, GotOne
<1>6. /\ pc'[w] \in {"local", "running"}
      /\ \A v \in Workers : v # w => pc'[v] = pc[v] /\ hand'[v] = hand[v]
      /\ \A g \in Fibers : g # f => fstate'[g] = fstate[g]
      /\ fstate'[f] \in {"TERM", "EXCEPT", "EXEC"}
  BY <1>1, <1>3, <1>4 DEF Dispatch
<1>7. At(0)' = At(0) /\ \A v \in Workers : At(v)' = At(v)
  BY <1>2, PlaceNames, PlaceNamesNext
<1>8. At(-w)' = {} /\ \A v \in Workers : v # w => At(-v)' = At(-v)
  BY <1>6, PlaceNames, PlaceNamesNext
<1>9. \A p \in Places : p # -w => At(p)' = At(p)
  BY <1>7, <1>8, PlaceFacts
<1>10. \A g \in Fibers : g # f => (Kept(g) => Kept(g)')
  BY <1>2, <1>5, <1>9 DEF Kept
<1>11. \A v \in Workers : v # w => Current(v)' = Current(v)
  BY <1>6 DEF Current
<1>12. \A g : Settling(g) => Settling(g)'
  BY <1>2, <1>6, <1>11 DEF Settling
<1>13. \A v \in Workers : pc[v] \in InsidePC => Current(v) # f /\ Current(v) \in Fibers
  <2>1. -w \in Places /\ ~Unlisted(f) /\ fstate[f] # "EXEC"
    BY <1>3, <1>5, PlaceFacts DEF Unlisted, ResInv, TakenIdle
  <2>2. QED
    BY <2>1, CurrentType DEF ResInv, InsideInv, InsidePC, HoldingPC
<1>14. ASSUME NEW v \in Workers, Holding(v)'
       PROVE  Current(v)' # f /\ Current(v)' = Current(v) /\ Holding(v)
              /\ Current(v) \in Fibers
  <2>1. v # w
    BY <1>6, <1>14 DEF Holding
  <2>2. pc'[v] = pc[v] /\ Current(v)' = Current(v)
    BY <1>6, <1>11, <2>1
  <2>3. pc[v] \in InsidePC
    BY <1>14, <2>2 DEF Holding, InsidePC
  <2>4. Current(v) # f /\ Current(v) \in Fibers
    BY <1>13, <2>3
  <2>5. QED
    BY <1>6, <1>14, <2>2, <2>4 DEF Holding
<1>15. LocalIdle'
  <2> SUFFICES ASSUME NEW v \in Workers, NEW g \in At(v)
               PROVE  fstate'[g] # "EXEC"
    BY <1>7 DEF LocalIdle
  <2>1. v \in Places /\ -w \in Places /\ v # -w
    BY PlaceFacts
  <2>2. g # f /\ g \in Fibers
    BY <1>5, <2>1, PlacesListFibers DEF IInv, ResInv, PlacesApart
  <2>3. QED
    BY <1>6, <2>2 DEF KeptInv, LocalIdle
<1>16. GotOne'
  BY <1>6, <1>8, <1>11 DEF KeptInv, GotOne
<1>17. \A g \in Fibers : parked'[g] # "io"
  BY <1>2 DEF KeptInv
<1>18. QED
  BY <1>3, <1>6, <1>10, <1>12, <1>14, <1>15, <1>16, <1>17, KeptStep

\* A worker's step on the fiber it is inside of that queues nothing.
LEMMA InsideKept ==
    ASSUME IInv, ResInv, KeptInv, NEW w \in Workers, pc[w] \in InsidePC,
           NEW f \in Fibers, f = Current(w),
           UNCHANGED queueVars,
           \A v \in Workers : v # w => pc'[v] = pc[v] /\ hand'[v] = hand[v],
           pc'[w] \notin {"splice", "got"},
           pc'[w] \in InsidePC => hand'[w] = hand[w],
           \A g \in Fibers : g # f => fstate'[g] = fstate[g] /\ parked'[g] = parked[g],
           parked'[f] # "io",
           fstate'[f] = "EXEC" => fstate[f] = "EXEC",
           fstate'[f] = "HOLD" => Kept(f)',
           fstate'[f] = "READY" => pc'[w] = "settle",
           fstate'[f] # "INIT",
           Holding(w)' => Kept(f)'
    PROVE  KeptInv'
<1>1. \A v \in Workers : At(v)' = At(v) /\ At(-v)' = At(-v)
  BY PlaceNames, PlaceNamesNext DEF queueVars, InsidePC
<1>2. At(0)' = At(0)
  BY PlaceNames, PlaceNamesNext DEF queueVars
<1>3. \A p \in Places : At(p)' = At(p)
  BY <1>1, <1>2, PlaceFacts
<1>4. \A g \in Fibers : g # f => (Kept(g) => Kept(g)')
  BY <1>3 DEF Kept
<1>5. \A v \in Workers : v # w \/ pc'[v] \in InsidePC => Current(v)' = Current(v)
  BY DEF Current
<1>6. \A v \in Workers : v # w /\ pc[v] \in InsidePC => Current(v) # f /\ Current(v) \in Fibers
  BY CurrentType DEF ResInv, InsideApart, InsidePC, HoldingPC
<1>7. \A g \in Fibers : g # f => (Settling(g) => Settling(g)')
  <2> SUFFICES ASSUME NEW g \in Fibers, g # f, NEW v \in Workers,
                      pc[v] = "settle", Current(v) = g
               PROVE  Settling(g)'
    BY DEF Settling
  <2>1. v # w
    OBVIOUS
  <2>2. QED
    BY <1>5, <2>1 DEF Settling
<1>8. fstate'[f] = "READY" => Settling(f)'
  BY <1>5 DEF Settling, InsidePC
<1>9. ASSUME NEW v \in Workers, v # w, Holding(v)'
      PROVE  Current(v)' # f /\ Current(v)' = Current(v) /\ Holding(v)
             /\ Current(v) \in Fibers
  <2>1. pc'[v] = pc[v] /\ Current(v)' = Current(v)
    BY <1>5, <1>9
  <2>2. pc[v] \in InsidePC
    BY <1>9, <2>1 DEF Holding, InsidePC
  <2>3. Current(v) # f /\ Current(v) \in Fibers
    BY <1>6, <1>9, <2>2
  <2>4. QED
    BY <1>9, <2>1, <2>3 DEF Holding
<1>10. ASSUME Holding(w)'
       PROVE  Current(w)' = f
  BY <1>5, <1>10 DEF Holding, InsidePC
<1>11. LocalIdle'
  <2> SUFFICES ASSUME NEW v \in Workers, NEW g \in At(v)
               PROVE  fstate'[g] # "EXEC"
    BY <1>1 DEF LocalIdle
  <2>1. g \in Fibers /\ fstate[g] # "EXEC"
    BY PlaceFacts, PlacesListFibers DEF IInv, KeptInv, LocalIdle
  <2>2. QED
    BY <2>1
<1>12. GotOne'
  BY <1>1, <1>5 DEF KeptInv, GotOne
<1>13. \A g \in Fibers : parked'[g] # "io"
  BY DEF KeptInv
<1>14. QED
  BY <1>4, <1>7, <1>8, <1>9, <1>10, <1>11, <1>12, <1>13, KeptStep

\* A fiber that parks has its wake-up registered before it gives up its thread.
LEMMA GiveUpKept ==
    ASSUME "io" \notin Holds, IInv, ResInv, KeptInv, NEW w \in Workers, GiveUp(w)
    PROVE  KeptInv'
<1>1. PICK f : f = Current(w)
  OBVIOUS
<1>2. pc[w] \in {"running", "parking"} /\ pc[w] \in InsidePC
  BY DEF GiveUp, YieldToReady, Park, YieldToHold, Finish, InsidePC
<1>3. f \in Fibers
  BY <1>1, <1>2, CurrentType DEF HoldingPC
<1>4. /\ hand \in [Workers -> Seq(Item)] /\ pc \in [Workers \cup {Owner} -> WorkerPC]
      /\ fstate \in [Fibers -> FiberState] /\ parked \in [Fibers -> {"no", "io", "ext"}]
  BY DEF IInv, TypeOK
<1>5. fstate[f] = "EXEC" /\ parked[f] # "io"
  BY <1>1, <1>2, <1>3 DEF ResInv, InsideInv, InsidePC, KeptInv
<1>6. /\ UNCHANGED queueVars /\ hand' = hand
      /\ \E place \in {"parking", "settle"} : pc' = [pc EXCEPT ![w] = place]
  BY DEF GiveUp, YieldToReady, Park, YieldToHold, Finish, SwapOut
<1>7. /\ \A v \in Workers : v # w => pc'[v] = pc[v] /\ hand'[v] = hand[v]
      /\ pc'[w] \notin {"splice", "got"} /\ hand'[w] = hand[w]
      /\ Current(w)' = f
  BY <1>1, <1>4, <1>6 DEF Current
<1>8. ASSUME \A g \in Fibers : g # f => fstate'[g] = fstate[g] /\ parked'[g] = parked[g],
             fstate'[f] \in {"EXEC", "READY", "TERM", "EXCEPT"},
             parked'[f] # "io",
             fstate'[f] = "READY" => pc'[w] = "settle",
             Holding(w)' => Kept(f)'
      PROVE  KeptInv'
  BY <1>1, <1>2, <1>3, <1>5, <1>6, <1>7, <1>8, InsideKept
<1>9. ASSUME NEW end \in {"READY", "TERM", "EXCEPT"}, pc[w] = "running",
             fstate' = [fstate EXCEPT ![f] = end], parked' = parked,
             pc' = [pc EXCEPT ![w] = "settle"]
      PROVE  KeptInv'
  <2>1. /\ \A g \in Fibers : g # f => fstate'[g] = fstate[g] /\ parked'[g] = parked[g]
        /\ fstate'[f] = end
        /\ parked'[f] # "io"
        /\ pc'[w] = "settle"
    BY <1>3, <1>4, <1>5, <1>9
  <2>2. ~Holding(w)'
    BY <1>7, <2>1 DEF Holding
  <2>3. QED
    BY <1>8, <2>1, <2>2
<1>10. CASE YieldToReady(w)
  BY <1>1, <1>9, <1>10 DEF YieldToReady, SwapOut
<1>11. ASSUME NEW how \in Holds, Park(w, how)
       PROVE  KeptInv'
  <2>1. how = "ext"
    BY ConstantsAssumption
  <2>2. /\ \A g \in Fibers : g # f => fstate'[g] = fstate[g] /\ parked'[g] = parked[g]
        /\ fstate'[f] = "EXEC"
        /\ parked'[f] = "ext"
    BY <1>1, <1>3, <1>4, <1>5, <1>11, <2>1 DEF Park
  <2>3. Kept(f)'
    BY <2>2 DEF Kept
  <2>4. QED
    BY <1>8, <2>2, <2>3
<1>12. CASE YieldToHold(w)
  <2>1. UNCHANGED <<fstate, parked>> /\ pc' = [pc EXCEPT ![w] = "settle"]
        /\ pc[w] = "parking"
    BY <1>12 DEF YieldToHold, SwapOut, fiberVars
  <2>2. fstate'[f] = "EXEC" /\ parked'[f] # "io"
    BY <1>5, <2>1
  <2>3. Kept(f)
    BY <1>1, <2>1 DEF KeptInv, DueKept, Holding
  <2>4. \A p \in Places : At(p)' = At(p)
    <3>1. At(0)' = At(0) /\ \A v \in Workers : At(v)' = At(v) /\ At(-v)' = At(-v)
      BY <1>6, <1>7, <2>1, PlaceNames, PlaceNamesNext DEF queueVars
    <3>2. QED
      BY <3>1, PlaceFacts
  <2>5. Kept(f)'
    BY <2>1, <2>3, <2>4 DEF Kept
  <2>6. \A g \in Fibers : g # f => fstate'[g] = fstate[g] /\ parked'[g] = parked[g]
    BY <2>1
  <2>7. QED
    BY <1>8, <2>2, <2>5, <2>6
<1>13. ASSUME NEW end \in {"TERM", "EXCEPT"}, Finish(w, end)
       PROVE  KeptInv'
  BY <1>1, <1>9, <1>13 DEF Finish, SwapOut
<1>14. QED
  BY <1>10, <1>11, <1>12, <1>13 DEF GiveUp

\* run() queues a READY fiber again, and a fiber it puts on HOLD has its
\* wake-up registered, or already queued.
LEMMA SettleKept ==
    ASSUME IInv, ResInv, KeptInv, NEW w \in Workers, Settle(w)
    PROVE  KeptInv'
<1>1. PICK f : f = Current(w)
  OBVIOUS
<1>2. pc[w] = "settle" /\ parked' = parked
      /\ hand' = [hand EXCEPT ![w] = <<>>] /\ pc' = [pc EXCEPT ![w] = "local"]
  BY DEF Settle
<1>3. f \in Fibers /\ pc[w] \in InsidePC
  BY <1>1, <1>2, CurrentType DEF HoldingPC, InsidePC
<1>4. /\ hand \in [Workers -> Seq(Item)] /\ pc \in [Workers \cup {Owner} -> WorkerPC]
      /\ fstate \in [Fibers -> FiberState]
  BY DEF IInv, TypeOK
<1>5. /\ hand'[w] = <<>> /\ pc'[w] = "local"
      /\ \A v \in Workers : v # w => pc'[v] = pc[v] /\ hand'[v] = hand[v]
  BY <1>2, <1>4
<1>6. /\ fstate[f] \in {"EXEC", "READY", "TERM", "EXCEPT"}
      /\ fstate[f] # "EXEC" => parked[f] = "no" /\ Unlisted(f)
      /\ parked[f] # "io"
  BY <1>1, <1>2, <1>3 DEF ResInv, InsideInv, KeptInv
<1>7. CASE fstate[f] = "READY"
  <2>1. ScheduleFrom(w, f, AnyThread) /\ fstate' = fstate
    BY <1>1, <1>7 DEF Settle
  <2>2. \A v \in Workers : At(-v)' = At(-v)
    BY <1>2, <1>5, PlaceNames, PlaceNamesNext
  <2>3. \A v \in Workers : NoTwice(hand'[v])
    BY <1>5, ListNames DEF ResInv, EntriesOnce
  <2>4. Unlisted(f)
    BY <1>6, <1>7
  <2>5. PICK a \in Places :
            /\ At(a)' = At(a) \cup {f}
            /\ \A p \in Places : p # a => At(p)' = At(p)
    BY <1>3, <2>1, <2>2, <2>3, <2>4, ScheduleAdds
  <2>6. Kept(f)' /\ \A g : Kept(g) => Kept(g)'
    BY <1>2, <2>5 DEF Kept
  <2>7. \A v \in Workers : v # w => Current(v)' = Current(v) /\ pc'[v] = pc[v]
    BY <1>5 DEF Current
  <2>8. \A g \in Fibers : g # f => (Settling(g) => Settling(g)')
    <3> SUFFICES ASSUME NEW g \in Fibers, g # f, NEW v \in Workers,
                        pc[v] = "settle", Current(v) = g
                 PROVE  Settling(g)'
      BY DEF Settling
    <3>1. v # w
      BY <1>1
    <3>2. QED
      BY <2>7, <3>1 DEF Settling
  <2>9. ASSUME NEW v \in Workers, Holding(v)'
        PROVE  Current(v)' = Current(v) /\ Holding(v) /\ Current(v) \in Fibers
    <3>1. v # w
      BY <1>5, <2>9 DEF Holding
    <3>2. Holding(v) /\ Current(v)' = Current(v)
      BY <2>1, <2>7, <2>9, <3>1 DEF Holding
    <3>3. QED
      BY <3>2, CurrentType DEF Holding, HoldingPC
  <2>10. LocalIdle'
    <3> SUFFICES ASSUME NEW v \in Workers, NEW g \in At(v)'
                 PROVE  fstate[g] # "EXEC"
      BY <2>1 DEF LocalIdle
    <3>1. v \in Places
      BY PlaceFacts
    <3>2. g = f \/ g \in At(v)
      BY <2>5, <3>1
    <3>3. QED
      BY <1>7, <3>2 DEF KeptInv, LocalIdle
  <2>11. GotOne'
    BY <1>5, <2>2, <2>7 DEF KeptInv, GotOne
  <2>12. \A g \in Fibers : parked'[g] # "io"
    BY <1>2 DEF KeptInv
  <2>13. QED
    BY <1>3, <2>1, <2>6, <2>8, <2>9, <2>10, <2>11, <2>12, KeptStep
<1>8. CASE fstate[f] # "READY"
  <2>1. /\ UNCHANGED queueVars
        /\ IF fstate[f] = "EXEC" THEN fstate' = [fstate EXCEPT ![f] = "HOLD"]
           ELSE fstate' = fstate
    <3>1. CASE fstate[f] = "EXEC"
      BY <1>1, <3>1 DEF Settle
    <3>2. CASE fstate[f] \in {"TERM", "EXCEPT"}
      BY <1>1, <3>2 DEF Settle
    <3>3. QED
      BY <1>6, <1>8, <3>1, <3>2
  <2>2. /\ \A g \in Fibers : g # f => fstate'[g] = fstate[g] /\ parked'[g] = parked[g]
        /\ fstate'[f] \in {"TERM", "EXCEPT", "HOLD"}
        /\ fstate'[f] = "HOLD" => fstate[f] = "EXEC"
    BY <1>2, <1>3, <1>4, <1>6, <1>8, <2>1
  <2>3. \A p \in Places : At(p)' = At(p)
    <3>1. At(0)' = At(0) /\ \A v \in Workers : At(v)' = At(v) /\ At(-v)' = At(-v)
      BY <1>2, <1>5, <2>1, PlaceNames, PlaceNamesNext DEF queueVars
    <3>2. QED
      BY <3>1, PlaceFacts
  <2>4. fstate'[f] = "HOLD" => Kept(f)'
    <3>1. fstate[f] = "EXEC" => Kept(f)
      BY <1>1, <1>2 DEF KeptInv, DueKept, Holding
    <3>2. QED
      BY <1>2, <2>2, <2>3, <3>1 DEF Kept
  <2>5. pc'[w] \notin InsidePC /\ pc'[w] \notin {"splice", "got"} /\ ~Holding(w)'
    BY <1>5 DEF InsidePC, Holding
  <2>6. parked'[f] # "io"
    BY <1>2, <1>6
  <2>7. fstate'[f] # "EXEC" /\ fstate'[f] # "READY" /\ fstate'[f] # "INIT"
    BY <2>2
  <2>8. QED
    BY <1>1, <1>3, <1>5, <2>1, <2>2, <2>4, <2>5, <2>6, <2>7, InsideKept
<1>9. QED
  BY <1>7, <1>8

\* stopping(), idle(), start() and stop() leave every fiber on its way: they
\* only concern threads that hold no task.
LEMMA ControlKept ==
    ASSUME IInv, StageInv, KeptInv
    PROVE  /\ \A p \in Workers \cup {Owner} : StoppingCall(p) => KeptInv'
           /\ \A w \in Workers : NoTask(w) \/ LeaveIdle(w) => KeptInv'
           /\ Start \/ StopBegin \/ StopStep => KeptInv'
<1>1. pc \in [Workers \cup {Owner} -> WorkerPC] /\ Owner \notin Workers
  BY WorkersFacts DEF IInv, TypeOK
<1>2. ASSUME NEW p \in Workers \cup {Owner}, p = Owner \/ pc[p] \notin HoldingPC,
             NEW place \in {"off", "exit", "pend", "local", "lock", "scan", "yes", "no"},
             pc' = [pc EXCEPT ![p] = place]
      PROVE  \A w \in Workers : pc'[w] \in HoldingPC \/ pc[w] \in HoldingPC => pc'[w] = pc[w]
  BY <1>1, <1>2 DEF HoldingPC
<1>3. ASSUME NEW p \in Workers \cup {Owner}, StoppingCall(p)
      PROVE  KeptInv'
  <2>1. UNCHANGED <<queueVars, fiberVars, hand>> /\ pc[p] \notin HoldingPC
    BY <1>3 DEF StoppingCall, CheckPending, CheckGlobal, CheckProcessor, HoldingPC
  <2>2. \/ pc' = pc
        \/ \E place \in {"lock", "scan", "yes", "no"} : pc' = [pc EXCEPT ![p] = place]
    BY <1>3 DEF StoppingCall, CheckPending, CheckGlobal, CheckProcessor
  <2>3. \A w \in Workers : pc'[w] \in HoldingPC \/ pc[w] \in HoldingPC => pc'[w] = pc[w]
    BY <1>2, <2>1, <2>2
  <2>4. QED
    BY <2>1, <2>3, QuietKept
<1>4. ASSUME NEW w \in Workers, NoTask(w) \/ LeaveIdle(w)
      PROVE  KeptInv'
  <2>1. UNCHANGED <<queueVars, fiberVars, hand>> /\ pc[w] \notin HoldingPC
    BY <1>4 DEF NoTask, LeaveIdle, HoldingPC
  <2>2. \E place \in {"exit", "pend", "local"} : pc' = [pc EXCEPT ![w] = place]
    BY <1>4 DEF NoTask, LeaveIdle
  <2>3. \A v \in Workers : pc'[v] \in HoldingPC \/ pc[v] \in HoldingPC => pc'[v] = pc[v]
    BY <1>2, <2>1, <2>2
  <2>4. QED
    BY <2>1, <2>3, QuietKept
<1>5. ASSUME Start \/ StopBegin \/ StopStep
      PROVE  KeptInv'
  <2>1. UNCHANGED <<queueVars, fiberVars, hand>>
    BY <1>5 DEF Start, StopBegin, StopStep, StopFirst, StopSecond, StopCalled, StopJoin
  <2>2. \A v \in Workers : pc'[v] \in HoldingPC \/ pc[v] \in HoldingPC => pc'[v] = pc[v]
    <3>1. CASE Start
      <4>1. \A v \in Workers : pc[v] = "off"
        BY <3>1 DEF Start, StageInv
      <4>2. \A v \in Workers : pc'[v] \in {"off", "local"}
        BY <1>1, <3>1, <4>1 DEF Start
      <4>3. QED
        BY <4>1, <4>2 DEF HoldingPC
    <3>2. CASE StopBegin
      BY <1>2, <3>2 DEF StopBegin
    <3>3. CASE StopFirst
      <4>1. \E place \in {"off", "pend"} : pc' = [pc EXCEPT ![Owner] = place]
        BY <3>3 DEF StopFirst
      <4>2. QED
        BY <1>2, <4>1
    <3>4. CASE StopSecond
      <4>1. CASE pc' = [pc EXCEPT ![Owner] = "off"]
        BY <1>2, <4>1
      <4>2. CASE pc' = [pc EXCEPT ![Owner] = "off", ![RootWorker] = "local"]
        <5>1. \A v \in Workers : v = RootWorker => pc[v] = "off"
          BY <3>4 DEF StopSecond, StageInv
        <5>2. \A v \in Workers : pc'[v] = IF v = RootWorker THEN "local" ELSE pc[v]
          BY <1>1, <4>2
        <5>3. QED
          BY <5>1, <5>2 DEF HoldingPC
      <4>3. QED
        BY <3>4, <4>1, <4>2 DEF StopSecond
    <3>5. CASE StopCalled \/ StopJoin
      BY <3>5 DEF StopCalled, StopJoin
    <3>6. QED
      BY <1>5, <3>1, <3>2, <3>3, <3>4, <3>5 DEF StopStep
  <2>3. QED
    BY <2>1, <2>2, QuietKept
<1>6. QED
  BY <1>3, <1>4, <1>5

\* Every step leaves every fiber on its way.
LEMMA NextKept ==
    ASSUME "io" \notin Holds, IInv, ResInv, StageInv, KeptInv, [Next]_vars
    PROVE  KeptInv'
<1>1. CASE Client
  BY <1>1, ClientKept
<1>2. ASSUME NEW w \in Workers, FindTask(w)
      PROVE  KeptInv'
  BY <1>2, PopLocalKept, PopGlobalKept, StealFromKept, SpliceKept, ControlKept
  DEF FindTask
<1>3. ASSUME NEW w \in Workers, RunTask(w)
      PROVE  KeptInv'
  BY <1>3, DispatchKept, SettleKept DEF RunTask
<1>4. ASSUME NEW w \in Workers, FiberStep(w)
      PROVE  KeptInv'
  BY <1>4, SpawnWakeKept, GiveUpKept DEF FiberStep
<1>5. ASSUME NEW w \in Workers, Idle(w)
      PROVE  KeptInv'
  BY <1>5, SpawnWakeKept, ControlKept DEF Idle
<1>6. ASSUME NEW p \in Workers \cup {Owner}, StoppingCall(p)
      PROVE  KeptInv'
  BY <1>6, ControlKept
<1>7. CASE Start \/ StopBegin \/ StopStep
  BY <1>7, ControlKept
<1>8. CASE UNCHANGED vars
  <2>1. UNCHANGED <<queueVars, fiberVars, hand>> /\ pc' = pc
    BY <1>8 DEF vars, queueVars, fiberVars
  <2>2. QED
    BY <2>1, QuietKept
<1>9. QED
  BY <1>1, <1>2, <1>3, <1>4, <1>5, <1>6, <1>7, <1>8 DEF Next, Stopped

\* Nothing is scheduled yet.
LEMMA InitKept == Init => KeptInv
<1> SUFFICES ASSUME Init PROVE KeptInv
  OBVIOUS
<1>1. /\ \A w \in Workers : local[w] = <<>> /\ pc[w] = "off"
      /\ \A f \in Fibers : fstate[f] = "NONE" /\ parked[f] = "no"
  BY DEF Init
<1>2. LocalIdle
  BY <1>1, PlaceNames, ListNames DEF LocalIdle
<1>3. GotOne /\ DueKept
  BY <1>1 DEF GotOne, DueKept, Holding
<1>4. QED
  BY <1>1, <1>2, <1>3 DEF KeptInv

\* What is kept is a resumption.
LEMMA KeptResumes ==
    ASSUME NEW f \in Fibers, Kept(f)
    PROVE  Resumptions(f) # {}
<1> DEFINE G == {<<"global", 0, i>> : i \in {i \in DOMAIN global : global[i].fiber = f}}
           L(w) == {<<"local", w, i>> : i \in {i \in DOMAIN local[w] : local[w][i].fiber = f}}
           H(w) == {<<"hand", w, i>> : i \in {i \in DOMAIN hand[w] : hand[w][i].fiber = f}}
           P == IF parked[f] = "no" THEN {} ELSE {<<"parked", 0, 0>>}
           W == {w \in Workers : pc[w] \in {"splice", "got"}}
           UL == UNION {L(w) : w \in Workers}
           UH == UNION {H(w) : w \in W}
           R == Resumptions(f)
<1>1. R = G \cup UL \cup UH \cup P
  BY Zenon DEF Resumptions
<1>2. \A x : x \in G \/ x \in UL \/ x \in UH \/ x \in P => x \in R
  <2> HIDE DEF R, G, UL, UH, P
  <2>1. QED
    BY <1>1
<1>3. CASE parked[f] # "no"
  <2>1. <<"parked", 0, 0>> \in P
    BY <1>3
  <2> HIDE DEF R, G, UL, UH, P
  <2>2. QED
    BY <1>2, <2>1 DEF R
<1>4. CASE f \in At(0)
  <2>1. PICK i \in DOMAIN global : global[i].fiber = f
    BY <1>4, PlaceNames DEF Names
  <2>2. <<"global", 0, i>> \in G
    BY <2>1
  <2> HIDE DEF R, G, UL, UH, P
  <2>3. QED
    BY <1>2, <2>2 DEF R
<1>5. ASSUME NEW w \in Workers, f \in At(w)
      PROVE  R # {}
  <2>1. f \in Names(local[w])
    BY <1>5, PlaceNames
  <2>2. PICK i \in DOMAIN local[w] : local[w][i].fiber = f
    BY <2>1 DEF Names
  <2>3. <<"local", w, i>> \in L(w)
    BY <2>2
  <2> HIDE DEF L
  <2>4. <<"local", w, i>> \in UL
    BY <2>3, Zenon
  <2> HIDE DEF R, G, UL, UH, P
  <2>5. QED
    BY <1>2, <2>4
<1>6. ASSUME NEW w \in Workers, f \in At(-w)
      PROVE  R # {}
  <2>1. f \in Names(hand[w]) /\ w \in W
    BY <1>6, PlaceNames
  <2>2. PICK i \in DOMAIN hand[w] : hand[w][i].fiber = f
    BY <2>1 DEF Names
  <2>3. <<"hand", w, i>> \in H(w)
    BY <2>2
  <2> HIDE DEF H, W
  <2>4. <<"hand", w, i>> \in UH
    BY <2>1, <2>3, Zenon
  <2> HIDE DEF R, G, UL, UH, P
  <2>5. QED
    BY <1>2, <2>4
<1> HIDE DEF R
<1>7. ASSUME NEW p \in Places, f \in At(p)
      PROVE  R # {}
  <2>1. ASSUME NEW w \in Workers, p = -w
        PROVE  R # {}
    <3>1. f \in At(-w)
      BY <1>7, <2>1
    <3>2. QED
      BY <1>6, <3>1
  <2>2. CASE p = 0
    BY <1>4, <1>7, <2>2 DEF R
  <2>3. CASE p \in Workers
    BY <1>5, <1>7, <2>3
  <2>4. QED
    BY <2>1, <2>2, <2>3, PlaceFacts
<1>8. QED
  BY <1>3, <1>7 DEF Kept, R

\* A scheduled fiber that has not finished is always on its way to a worker,
\* whatever the number of workers, batches and thefts, as long as no fiber
\* parks on an event or a timer: a wake-up from another scheduler enters the
\* global queue, which skips a fiber that is still EXEC and never drops it.
THEOREM TasksKept == "io" \notin Holds => (Spec => []NoTaskLost)
<1> SUFFICES ASSUME "io" \notin Holds
             PROVE  Spec => []NoTaskLost
  OBVIOUS
<1>1. Init => StageInv /\ KeptInv
  BY InitStop, InitKept DEF StopInv
<1>2. IInv /\ ResInv /\ StageInv /\ KeptInv /\ [Next]_vars => StageInv' /\ KeptInv'
  BY NextStage, NextKept
<1>3. ASSUME KeptInv
      PROVE  NoTaskLost
  BY <1>3, KeptResumes DEF KeptInv, DueKept, NoTaskLost, Settling
<1>4. QED
  BY <1>1, <1>2, <1>3, SpecIInv, SpecRes, PTL DEF Spec

=============================================================================
