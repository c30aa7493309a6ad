---------------------------- MODULE SociPoolProofs ----------------------------
(***************************************************************************)
(* Proofs about SociPool, for any callers, connections and maxConn.        *)
(*                                                                         *)
(* OneOwner is not inductive by itself: a created connection is new only   *)
(* because every connection in the pool is in live; a connection given     *)
(* back is a real one only because a caller in "use" has one; a hand-over  *)
(* overwrites nothing only because a listed waiter has no connection yet.  *)
(* IInv adds these facts.                                                  *)
(***************************************************************************)
EXTENDS SociPool, FiniteSetTheorems, SequenceTheorems, TLAPS

\* TypeOK but for the sign of totalCount, which Slots gives.
Typed ==
    /\ idle \in Seq(Conns)
    /\ waiters \in Seq(Callers)
    /\ total \in Int
    /\ live \subseteq Conns
    /\ pc \in [Callers -> CallerPC]
    /\ raw \in [Callers -> Conns \cup {NoConn}]
    /\ linked \in [Callers -> BOOLEAN]
    /\ done \in [Callers -> BOOLEAN]
    /\ wdb \in [Callers -> Conns \cup {NoConn}]
    /\ timedOut \in [Callers -> BOOLEAN]
    /\ patience \in [Callers -> {"zero", "finite", "forever"}]
    /\ timer \in [Callers -> TimerState]
    /\ target \in [Callers -> Callers]
    /\ wakes \in [Callers -> Nat]

Waiting == {"linked", "hold", "collect"}

LiveConns ==
    /\ \A i \in DOMAIN idle : idle[i] \in live
    /\ \A c \in Callers : /\ raw[c] # NoConn => raw[c] \in live
                          /\ wdb[c] # NoConn => wdb[c] \in live

Placed ==
    \A c \in Callers : /\ raw[c] # NoConn <=> pc[c] = "use"
                       /\ wdb[c] # NoConn => pc[c] \in Waiting

WaitList ==
    /\ \A i \in DOMAIN waiters :
           /\ linked[waiters[i]]
           /\ wdb[waiters[i]] = NoConn
           /\ pc[waiters[i]] \in Waiting
    /\ \A i, j \in DOMAIN waiters : i # j => waiters[i] # waiters[j]
    /\ \A c \in Callers : linked[c] => \E i \in DOMAIN waiters : waiters[i] = c

IInv == Typed /\ OneOwner /\ LiveConns /\ Placed /\ WaitList

-----------------------------------------------------------------------------

\* Init establishes the inductive invariant.
LEMMA InitIInv ==
    ASSUME Init
    PROVE  IInv
BY DEF Init, IInv, Typed, OneOwner, LiveConns, Placed, WaitList, Waiting,
       CallerPC, TimerState

\* list::pop_front() on the idle list.
LEMMA PopIdle ==
    ASSUME Typed, idle # <<>>
    PROVE  /\ Head(idle) \in Conns /\ Head(idle) # NoConn
           /\ Head(idle) = idle[1] /\ 1 \in DOMAIN idle
           /\ Tail(idle) \in Seq(Conns)
           /\ Len(Tail(idle)) = Len(idle) - 1
           /\ \A i \in DOMAIN Tail(idle) :
                  i + 1 \in DOMAIN idle /\ Tail(idle)[i] = idle[i + 1]
BY PoolAssumption DEF Typed

\* list::erase(waiter->iter): the waiter is gone, the others stay apart.
LEMMA UnlinkSeq ==
    ASSUME Typed, WaitList, NEW c \in Callers, linked[c]
    PROVE  /\ Unlink(c) \in Seq(Callers)
           /\ \A k \in DOMAIN Unlink(c) : \E i \in DOMAIN waiters :
                  Unlink(c)[k] = waiters[i] /\ waiters[i] # c
           /\ \A k, m \in DOMAIN Unlink(c) : k # m => Unlink(c)[k] # Unlink(c)[m]
           /\ \A i \in DOMAIN waiters : waiters[i] # c =>
                  \E k \in DOMAIN Unlink(c) : Unlink(c)[k] = waiters[i]
<1> DEFINE at == CHOOSE i \in DOMAIN waiters : waiters[i] = c
           rest == [k \in 1..(Len(waiters) - 1) |->
                        waiters[IF k < at THEN k ELSE k + 1]]
<1>1. at \in DOMAIN waiters /\ waiters[at] = c
  BY DEF WaitList
<1>2. Unlink(c) = rest
  BY DEF Unlink
<1> HIDE DEF at
<1>3. waiters \in Seq(Callers) /\ Len(waiters) \in Nat /\ at \in 1..Len(waiters)
      /\ DOMAIN waiters = 1..Len(waiters)
  BY <1>1 DEF Typed
<1>4. rest \in Seq(Callers) /\ DOMAIN rest = 1..(Len(waiters) - 1)
  BY <1>3
<1>5. ASSUME NEW k \in 1..(Len(waiters) - 1)
      PROVE  /\ (IF k < at THEN k ELSE k + 1) \in (DOMAIN waiters) \ {at}
             /\ rest[k] = waiters[IF k < at THEN k ELSE k + 1]
  BY <1>3
<1>6. \A i, j \in DOMAIN waiters : i # j => waiters[i] # waiters[j]
  BY DEF WaitList
<1>7. \A k \in 1..(Len(waiters) - 1) : \E i \in DOMAIN waiters :
          rest[k] = waiters[i] /\ waiters[i] # c
  BY <1>1, <1>5, <1>6
<1>8. \A k, m \in 1..(Len(waiters) - 1) : k # m => rest[k] # rest[m]
  BY <1>3, <1>5, <1>6
<1>9. \A i \in DOMAIN waiters : waiters[i] # c =>
          \E k \in 1..(Len(waiters) - 1) : rest[k] = waiters[i]
  <2>1. ASSUME NEW i \in DOMAIN waiters, waiters[i] # c
        PROVE  \E k \in 1..(Len(waiters) - 1) : rest[k] = waiters[i]
    <3>1. i # at
      BY <1>1, <2>1
    <3>2. CASE i < at
      BY <1>3, <1>5, <3>2
    <3>3. CASE i > at
      <4>1. i - 1 \in 1..(Len(waiters) - 1) /\ ~(i - 1 < at) /\ (i - 1) + 1 = i
        BY <1>3, <3>3
      <4>2. QED
        BY <1>5, <4>1
    <3>4. QED
      BY <1>3, <3>1, <3>2, <3>3
  <2>2. QED
    BY <2>1
<1> HIDE DEF rest
<1>10. QED
  BY <1>2, <1>4, <1>7, <1>8, <1>9

-----------------------------------------------------------------------------
\* get() takes an idle connection.
LEMMA GetIdleIInv ==
    ASSUME IInv, NEW c \in Callers, GetIdle(c)
    PROVE  IInv'
<1>0. /\ Head(idle) \in Conns /\ Head(idle) # NoConn
      /\ Head(idle) = idle[1] /\ 1 \in DOMAIN idle
      /\ Tail(idle) \in Seq(Conns)
      /\ \A i \in DOMAIN Tail(idle) :
             i + 1 \in DOMAIN idle /\ Tail(idle)[i] = idle[i + 1] /\ i + 1 # 1
  BY PopIdle DEF IInv, GetIdle
<1>1. Typed'
  BY <1>0 DEF IInv, Typed, CallerPC, TimerState, GetIdle, waiterVars
<1>2. OneOwner'
  BY <1>0 DEF IInv, Typed, OneOwner, LiveConns, Placed, GetIdle, waiterVars
<1>3. LiveConns'
  BY <1>0 DEF IInv, Typed, LiveConns, Placed, GetIdle, waiterVars
<1>4. Placed'
  BY <1>0 DEF IInv, Typed, Placed, WaitList, Waiting, GetIdle, waiterVars
<1>5. WaitList'
  BY DEF IInv, Typed, Placed, WaitList, Waiting, GetIdle, waiterVars
<1>6. QED
  BY <1>1, <1>2, <1>3, <1>4, <1>5 DEF IInv

\* A new waiter is linked.
LEMMA GetWaitIInv ==
    ASSUME IInv, NEW c \in Callers, NEW timeout \in {"finite", "forever"}, GetWait(c, timeout)
    PROVE  IInv'
<1>1. Typed'
  BY DEF IInv, Typed, CallerPC, TimerState, GetWait
<1>2. OneOwner'
  BY DEF IInv, Typed, OneOwner, LiveConns, Placed, GetWait
<1>3. LiveConns'
  BY DEF IInv, Typed, LiveConns, Placed, GetWait
<1>4. Placed'
  BY DEF IInv, Typed, Placed, WaitList, Waiting, GetWait
<1>5. WaitList'
  <2>1. \A i \in DOMAIN waiters : waiters[i] # c
    BY DEF IInv, WaitList, Waiting, GetWait
  <2>2. waiters \in Seq(Callers) /\ waiters' = Append(waiters, c)
    BY DEF IInv, Typed, GetWait
  <2>3. /\ DOMAIN waiters' = 1..(Len(waiters) + 1)
        /\ \A i \in DOMAIN waiters : i \in DOMAIN waiters' /\ waiters'[i] = waiters[i]
        /\ waiters'[Len(waiters) + 1] = c
        /\ Len(waiters) \in Nat /\ DOMAIN waiters = 1..Len(waiters)
    BY <2>2
  <2>4. \A i \in DOMAIN waiters' : i \in DOMAIN waiters \/ i = Len(waiters) + 1
    BY <2>3
  <2>5. /\ linked' = [linked EXCEPT ![c] = TRUE] /\ wdb' = [wdb EXCEPT ![c] = NoConn]
        /\ pc' = [pc EXCEPT ![c] = "linked"]
        /\ linked \in [Callers -> BOOLEAN] /\ pc \in [Callers -> CallerPC]
        /\ wdb \in [Callers -> Conns \cup {NoConn}]
        /\ \A i \in DOMAIN waiters : waiters[i] \in Callers
    BY <2>2 DEF IInv, Typed, GetWait
  <2>6. /\ \A i \in DOMAIN waiters' : /\ linked'[waiters'[i]]
                                      /\ wdb'[waiters'[i]] = NoConn
                                      /\ pc'[waiters'[i]] \in Waiting
    BY <2>1, <2>3, <2>4, <2>5 DEF IInv, WaitList, Waiting
  <2>7. \A i, j \in DOMAIN waiters' : i # j => waiters'[i] # waiters'[j]
    BY <2>1, <2>3, <2>4 DEF IInv, WaitList
  <2>8. \A e \in Callers : linked'[e] => \E i \in DOMAIN waiters' : waiters'[i] = e
    BY <2>3, <2>5 DEF IInv, WaitList
  <2>9. QED
    BY <2>6, <2>7, <2>8 DEF WaitList
<1>6. QED
  BY <1>1, <1>2, <1>3, <1>4, <1>5 DEF IInv

\* A new connection is in use at once.
LEMMA CreateOkIInv ==
    ASSUME IInv, NEW c \in Callers, CreateOk(c)
    PROVE  IInv'
<1>0. PICK conn \in Conns \ live :
          live' = live \cup {conn} /\ raw' = [raw EXCEPT ![c] = conn] /\ conn # NoConn
  BY PoolAssumption DEF CreateOk
<1>1. Typed'
  BY DEF IInv, Typed, CallerPC, TimerState, CreateOk, waiterVars
<1>2. OneOwner'
  BY <1>0 DEF IInv, Typed, OneOwner, LiveConns, Placed, CreateOk, waiterVars
<1>3. LiveConns'
  BY <1>0 DEF IInv, Typed, LiveConns, Placed, CreateOk, waiterVars
<1>4. Placed'
  BY <1>0 DEF IInv, Typed, Placed, WaitList, Waiting, CreateOk, waiterVars
<1>5. WaitList'
  BY DEF IInv, Typed, Placed, WaitList, Waiting, CreateOk, waiterVars
<1>6. QED
  BY <1>1, <1>2, <1>3, <1>4, <1>5 DEF IInv

\* get() gives up and unlinks its waiter.
LEMMA CollectNullIInv ==
    ASSUME IInv, NEW c \in Callers, CollectNull(c)
    PROVE  IInv'
<1>1. Typed'
  <2>1. waiters' \in Seq(Callers)
    BY UnlinkSeq DEF IInv, Typed, CollectNull
  <2>2. QED
    BY <2>1 DEF IInv, Typed, CallerPC, TimerState, CollectNull, DropWaiter
<1>2. OneOwner'
  BY DEF IInv, Typed, OneOwner, LiveConns, Placed, CollectNull, DropWaiter
<1>3. LiveConns'
  BY DEF IInv, Typed, LiveConns, Placed, CollectNull, DropWaiter
<1>4. Placed'
  BY DEF IInv, Typed, Placed, WaitList, Waiting, CollectNull, DropWaiter
<1>5. WaitList'
  <2>1. CASE waiters' = waiters /\ ~linked[c]
    BY <2>1 DEF IInv, Typed, Placed, WaitList, Waiting, CollectNull, DropWaiter
  <2>2. CASE waiters' = Unlink(c) /\ linked[c]
    <3>1. /\ \A k \in DOMAIN waiters' : \E i \in DOMAIN waiters :
                 waiters'[k] = waiters[i] /\ waiters[i] # c
          /\ \A k, m \in DOMAIN waiters' : k # m => waiters'[k] # waiters'[m]
          /\ \A i \in DOMAIN waiters : waiters[i] # c =>
                 \E k \in DOMAIN waiters' : waiters'[k] = waiters[i]
      BY <2>2, UnlinkSeq DEF IInv
    <3>2. /\ linked' = [linked EXCEPT ![c] = FALSE]
          /\ linked \in [Callers -> BOOLEAN]
          /\ \A i \in DOMAIN waiters : waiters[i] \in Callers
          /\ \A e \in Callers \ {c} : wdb'[e] = wdb[e] /\ pc'[e] = pc[e]
      BY <2>2 DEF IInv, Typed, CollectNull, DropWaiter
    <3>3. \A k \in DOMAIN waiters' : /\ linked'[waiters'[k]]
                                     /\ wdb'[waiters'[k]] = NoConn
                                     /\ pc'[waiters'[k]] \in Waiting
      BY <3>1, <3>2 DEF IInv, WaitList
    <3>4. \A e \in Callers : linked'[e] => \E k \in DOMAIN waiters' : waiters'[k] = e
      BY <3>1, <3>2 DEF IInv, WaitList
    <3>5. QED
      BY <3>1, <3>3, <3>4 DEF WaitList
  <2>3. QED
    BY <2>1, <2>2 DEF CollectNull
<1>6. QED
  BY <1>1, <1>2, <1>3, <1>4, <1>5 DEF IInv

\* The timer callback unlinks a waiter that is not done.
LEMMA TimerLockedIInv ==
    ASSUME IInv, NEW c \in Callers, TimerLocked(c)
    PROVE  IInv'
<1>1. Typed'
  <2>1. waiters' \in Seq(Callers)
    BY UnlinkSeq DEF IInv, Typed, TimerLocked
  <2>2. QED
    BY <2>1 DEF IInv, Typed, CallerPC, TimerState, TimerLocked
<1>2. OneOwner'
  BY DEF IInv, Typed, OneOwner, LiveConns, Placed, TimerLocked
<1>3. LiveConns'
  BY DEF IInv, Typed, LiveConns, Placed, TimerLocked
<1>4. Placed'
  BY DEF IInv, Typed, Placed, WaitList, Waiting, TimerLocked
<1>5. WaitList'
  <2>1. CASE ~done[c] /\ waiters' = waiters /\ ~linked[c]
    <3>1. linked' = [linked EXCEPT ![c] = FALSE] /\ UNCHANGED <<wdb, pc>>
      BY <2>1 DEF TimerLocked
    <3>2. linked' = linked
      BY <2>1, <3>1 DEF IInv, Typed
    <3>3. QED
      BY <2>1, <3>1, <3>2 DEF IInv, WaitList
  <2>2. CASE ~done[c] /\ waiters' = Unlink(c) /\ linked[c]
    <3>1. /\ \A k \in DOMAIN waiters' : \E i \in DOMAIN waiters :
                 waiters'[k] = waiters[i] /\ waiters[i] # c
          /\ \A k, m \in DOMAIN waiters' : k # m => waiters'[k] # waiters'[m]
          /\ \A i \in DOMAIN waiters : waiters[i] # c =>
                 \E k \in DOMAIN waiters' : waiters'[k] = waiters[i]
      BY <2>2, UnlinkSeq DEF IInv
    <3>2. /\ linked' = [linked EXCEPT ![c] = FALSE]
          /\ linked \in [Callers -> BOOLEAN]
          /\ \A i \in DOMAIN waiters : waiters[i] \in Callers
          /\ \A e \in Callers \ {c} : wdb'[e] = wdb[e] /\ pc'[e] = pc[e]
      BY <2>2 DEF IInv, Typed, TimerLocked
    <3>3. \A k \in DOMAIN waiters' : /\ linked'[waiters'[k]]
                                     /\ wdb'[waiters'[k]] = NoConn
                                     /\ pc'[waiters'[k]] \in Waiting
      BY <3>1, <3>2 DEF IInv, WaitList
    <3>4. \A e \in Callers : linked'[e] => \E k \in DOMAIN waiters' : waiters'[k] = e
      BY <3>1, <3>2 DEF IInv, WaitList
    <3>5. QED
      BY <3>1, <3>3, <3>4 DEF WaitList
  <2>3. CASE done[c]
    BY <2>3 DEF IInv, Typed, Placed, WaitList, Waiting, TimerLocked
  <2>4. QED
    BY <2>1, <2>2, <2>3 DEF TimerLocked
<1>6. QED
  BY <1>1, <1>2, <1>3, <1>4, <1>5 DEF IInv

\* freeSoci() hands the connection to the first waiter that is not done.
LEMMA HandOverIInv ==
    ASSUME IInv, NEW c \in Callers, pc[c] = "use",
           NEW i \in DOMAIN waiters, NEW d, d = waiters[i],
           raw' = [raw EXCEPT ![c] = NoConn],
           waiters' = SubSeq(waiters, i + 1, Len(waiters)),
           linked' = [e \in Callers |->
                        linked[e] /\ e \notin {waiters[j] : j \in 1..i}],
           done' = [done EXCEPT ![d] = TRUE],
           wdb' = [wdb EXCEPT ![d] = raw[c]],
           target' = [target EXCEPT ![c] = d],
           pc' = [pc EXCEPT ![c] = "wake"],
           UNCHANGED <<idle, total, live, timedOut, patience, timer, wakes>>
    PROVE  IInv'
<1>1. /\ waiters \in Seq(Callers) /\ Len(waiters) \in Nat
      /\ DOMAIN waiters = 1..Len(waiters) /\ i \in 1..Len(waiters)
      /\ d \in Callers
  BY DEF IInv, Typed
<1>2. /\ waiters' \in Seq(Callers)
      /\ DOMAIN waiters' = 1..(Len(waiters) - i)
      /\ \A k \in DOMAIN waiters' :
             i + k \in DOMAIN waiters /\ waiters'[k] = waiters[i + k]
  BY <1>1
<1>3. d # c /\ wdb[d] = NoConn /\ pc[d] \in Waiting
  BY DEF IInv, WaitList, Waiting
<1>4. raw[c] \in Conns /\ raw[c] # NoConn
  BY DEF IInv, Typed, Placed
<1>5. Typed'
  <2>1. linked' \in [Callers -> BOOLEAN]
    BY DEF IInv, Typed
  <2>2. QED
    BY <1>1, <1>2, <1>4, <2>1 DEF IInv, Typed, CallerPC, TimerState
<1>6. OneOwner'
  BY <1>1, <1>3, <1>4 DEF IInv, Typed, OneOwner
<1>7. LiveConns'
  BY <1>1, <1>3, <1>4 DEF IInv, Typed, LiveConns
<1>8. Placed'
  BY <1>1, <1>3, <1>4 DEF IInv, Typed, Placed, Waiting
<1>9. WaitList'
  <2>1. \A k \in DOMAIN waiters' : waiters'[k] # d /\ waiters'[k] # c
        /\ waiters'[k] \notin {waiters[j] : j \in 1..i}
    <3>1. ASSUME NEW k \in DOMAIN waiters'
          PROVE  waiters'[k] # c /\ \A j \in 1..i : waiters'[k] # waiters[j]
      <4>1. i + k \in DOMAIN waiters /\ waiters'[k] = waiters[i + k]
        BY <1>2
      <4>2. \A j \in 1..i : j \in DOMAIN waiters /\ j # i + k
        BY <1>1, <1>2
      <4>3. pc[waiters[i + k]] \in Waiting
        BY <4>1 DEF IInv, WaitList
      <4>4. QED
        BY <4>1, <4>2, <4>3 DEF IInv, WaitList, Waiting
    <3>2. i \in 1..i
      BY <1>1
    <3>3. QED
      BY <3>1, <3>2
  <2>2. \A k \in DOMAIN waiters' : waiters'[k] \in Callers
    BY <1>2
  <2>3. \A k \in DOMAIN waiters' : /\ linked'[waiters'[k]]
                                   /\ wdb'[waiters'[k]] = NoConn
                                   /\ pc'[waiters'[k]] \in Waiting
    <3>1. ASSUME NEW k \in DOMAIN waiters'
          PROVE  /\ linked'[waiters'[k]]
                 /\ wdb'[waiters'[k]] = NoConn
                 /\ pc'[waiters'[k]] \in Waiting
      <4>1. PICK m \in DOMAIN waiters : waiters'[k] = waiters[m]
        BY <1>2
      <4>2. /\ linked[waiters[m]] /\ wdb[waiters[m]] = NoConn
            /\ pc[waiters[m]] \in Waiting
        BY DEF IInv, WaitList
      <4>3. /\ waiters'[k] \in Callers /\ waiters'[k] # d /\ waiters'[k] # c
            /\ waiters'[k] \notin {waiters[j] : j \in 1..i}
        BY <2>1, <2>2
      <4>4. linked'[waiters'[k]]
        BY <4>1, <4>2, <4>3
      <4>5. wdb'[waiters'[k]] = wdb[waiters'[k]] /\ pc'[waiters'[k]] = pc[waiters'[k]]
        BY <4>3 DEF IInv, Typed
      <4>6. QED
        BY <4>1, <4>2, <4>4, <4>5
    <3>2. QED
      BY <3>1
  <2>4. \A k, m \in DOMAIN waiters' : k # m => waiters'[k] # waiters'[m]
    BY <1>1, <1>2 DEF IInv, WaitList
  <2>5. ASSUME NEW e \in Callers, linked'[e]
        PROVE  \E k \in DOMAIN waiters' : waiters'[k] = e
    <3>1. linked[e] /\ \A j \in 1..i : e # waiters[j]
      BY <2>5
    <3>2. PICK j \in DOMAIN waiters : waiters[j] = e
      BY <3>1 DEF IInv, WaitList
    <3>3. j > i /\ j - i \in DOMAIN waiters' /\ i + (j - i) = j
      BY <1>1, <1>2, <3>1, <3>2
    <3>4. QED
      BY <1>2, <3>2, <3>3
  <2>6. QED
    BY <2>3, <2>4, <2>5 DEF WaitList
<1>10. QED
  BY <1>5, <1>6, <1>7, <1>8, <1>9 DEF IInv

\* freeSoci() puts the connection on the idle list.
LEMMA BackToIdleIInv ==
    ASSUME IInv, NEW c \in Callers, pc[c] = "use",
           raw' = [raw EXCEPT ![c] = NoConn],
           waiters' = <<>>,
           linked' = [e \in Callers |->
                        linked[e] /\ e \notin {waiters[j] : j \in DOMAIN waiters}],
           idle' = Append(idle, raw[c]),
           pc' = [pc EXCEPT ![c] = "out"],
           UNCHANGED <<done, wdb, target, total, live, timedOut, patience, timer,
                       wakes>>
    PROVE  IInv'
<1>1. raw[c] \in Conns /\ raw[c] # NoConn /\ wdb[c] = NoConn
  BY DEF IInv, Typed, Placed, Waiting
<1>2. idle \in Seq(Conns) /\ Len(idle) \in Nat /\ DOMAIN idle = 1..Len(idle)
  BY DEF IInv, Typed
<1>3. /\ idle' \in Seq(Conns) /\ DOMAIN idle' = 1..(Len(idle) + 1)
      /\ idle'[Len(idle) + 1] = raw[c]
      /\ \A i \in DOMAIN idle' : \/ i \in DOMAIN idle /\ idle'[i] = idle[i]
                                 \/ i = Len(idle) + 1
  BY <1>1, <1>2
<1>4. Typed'
  <2>1. linked' \in [Callers -> BOOLEAN]
    BY DEF IInv, Typed
  <2>2. QED
    BY <1>3, <2>1 DEF IInv, Typed, CallerPC, TimerState
<1>5. OneOwner'
  BY <1>1, <1>2, <1>3 DEF IInv, Typed, OneOwner
<1>6. LiveConns'
  BY <1>1, <1>3 DEF IInv, Typed, LiveConns
<1>7. Placed'
  BY <1>1 DEF IInv, Typed, Placed, Waiting
<1>8. WaitList'
  <2>1. ASSUME NEW e \in Callers
        PROVE  ~linked'[e]
    <3>1. linked[e] => e \in {waiters[j] : j \in DOMAIN waiters}
      BY DEF IInv, WaitList
    <3>2. QED
      BY <3>1
  <2>2. DOMAIN waiters' = {}
    OBVIOUS
  <2>3. QED
    BY <2>1, <2>2 DEF WaitList
<1>9. QED
  BY <1>4, <1>5, <1>6, <1>7, <1>8 DEF IInv

\* freeSoci(), both ways.
LEMMA FreeIInv ==
    ASSUME IInv, NEW c \in Callers, Free(c)
    PROVE  IInv'
<1>1. CASE \A j \in DOMAIN waiters : done[waiters[j]]
  BY <1>1, BackToIdleIInv DEF Free
<1>2. CASE \E j \in DOMAIN waiters : ~done[waiters[j]]
  <2>1. PICK i \in DOMAIN waiters :
            /\ waiters' = SubSeq(waiters, i + 1, Len(waiters))
            /\ linked' = [e \in Callers |->
                            linked[e] /\ e \notin {waiters[j] : j \in 1..i}]
            /\ done' = [done EXCEPT ![waiters[i]] = TRUE]
            /\ wdb' = [wdb EXCEPT ![waiters[i]] = raw[c]]
            /\ target' = [target EXCEPT ![c] = waiters[i]]
            /\ pc' = [pc EXCEPT ![c] = "wake"]
            /\ UNCHANGED idle
    BY <1>2, Zenon DEF Free
  <2>2. /\ pc[c] = "use" /\ raw' = [raw EXCEPT ![c] = NoConn]
        /\ UNCHANGED <<total, live, timedOut, patience, timer, wakes>>
    BY DEF Free
  <2>3. QED
    BY <2>1, <2>2, HandOverIInv
<1>3. QED
  BY <1>1, <1>2

\* get() takes a slot.
LEMMA GetSlotIInv ==
    ASSUME IInv, NEW c \in Callers, GetSlot(c)
    PROVE  IInv'
<1>1. Typed'
  BY DEF IInv, Typed, CallerPC, TimerState, GetSlot, waiterVars
<1>2. OneOwner'
  BY DEF IInv, Typed, OneOwner, LiveConns, Placed, GetSlot, waiterVars
<1>3. LiveConns'
  BY DEF IInv, Typed, LiveConns, Placed, GetSlot, waiterVars
<1>4. Placed'
  BY DEF IInv, Typed, Placed, WaitList, Waiting, GetSlot, waiterVars
<1>5. WaitList'
  BY DEF IInv, Typed, Placed, WaitList, Waiting, GetSlot, waiterVars
<1>6. QED
  BY <1>1, <1>2, <1>3, <1>4, <1>5 DEF IInv

\* get() returns null at once.
LEMMA GetRefusedIInv ==
    ASSUME IInv, NEW c \in Callers, GetRefused(c)
    PROVE  IInv'
<1>1. Typed'
  BY DEF IInv, Typed, CallerPC, TimerState, GetRefused, vars
<1>2. OneOwner'
  BY DEF IInv, Typed, OneOwner, LiveConns, Placed, GetRefused, vars
<1>3. LiveConns'
  BY DEF IInv, Typed, LiveConns, Placed, GetRefused, vars
<1>4. Placed'
  BY DEF IInv, Typed, Placed, WaitList, Waiting, GetRefused, vars
<1>5. WaitList'
  BY DEF IInv, Typed, Placed, WaitList, Waiting, GetRefused, vars
<1>6. QED
  BY <1>1, <1>2, <1>3, <1>4, <1>5 DEF IInv

\* The slot is given back.
LEMMA CreateFailIInv ==
    ASSUME IInv, NEW c \in Callers, CreateFail(c)
    PROVE  IInv'
<1>1. Typed'
  BY DEF IInv, Typed, CallerPC, TimerState, CreateFail, waiterVars
<1>2. OneOwner'
  BY DEF IInv, Typed, OneOwner, LiveConns, Placed, CreateFail, waiterVars
<1>3. LiveConns'
  BY DEF IInv, Typed, LiveConns, Placed, CreateFail, waiterVars
<1>4. Placed'
  BY DEF IInv, Typed, Placed, WaitList, Waiting, CreateFail, waiterVars
<1>5. WaitList'
  BY DEF IInv, Typed, Placed, WaitList, Waiting, CreateFail, waiterVars
<1>6. QED
  BY <1>1, <1>2, <1>3, <1>4, <1>5 DEF IInv

\* The timer is armed.
LEMMA HoldIInv ==
    ASSUME IInv, NEW c \in Callers, Hold(c)
    PROVE  IInv'
<1>1. Typed'
  BY DEF IInv, Typed, CallerPC, TimerState, Hold, poolVars, waiterVars
<1>2. OneOwner'
  BY DEF IInv, Typed, OneOwner, LiveConns, Placed, Hold, poolVars, waiterVars
<1>3. LiveConns'
  BY DEF IInv, Typed, LiveConns, Placed, Hold, poolVars, waiterVars
<1>4. Placed'
  BY DEF IInv, Typed, Placed, WaitList, Waiting, Hold, poolVars, waiterVars
<1>5. WaitList'
  BY DEF IInv, Typed, Placed, WaitList, Waiting, Hold, poolVars, waiterVars
<1>6. QED
  BY <1>1, <1>2, <1>3, <1>4, <1>5 DEF IInv

\* The fiber is resumed.
LEMMA ResumeIInv ==
    ASSUME IInv, NEW c \in Callers, Resume(c)
    PROVE  IInv'
<1>1. Typed'
  BY DEF IInv, Typed, CallerPC, TimerState, Resume, poolVars, waiterVars
<1>2. OneOwner'
  BY DEF IInv, Typed, OneOwner, LiveConns, Placed, Resume, poolVars, waiterVars
<1>3. LiveConns'
  BY DEF IInv, Typed, LiveConns, Placed, Resume, poolVars, waiterVars
<1>4. Placed'
  BY DEF IInv, Typed, Placed, WaitList, Waiting, Resume, poolVars, waiterVars
<1>5. WaitList'
  BY DEF IInv, Typed, Placed, WaitList, Waiting, Resume, poolVars, waiterVars
<1>6. QED
  BY <1>1, <1>2, <1>3, <1>4, <1>5 DEF IInv

\* The waiter takes what it was given.
LEMMA CollectConnIInv ==
    ASSUME IInv, NEW c \in Callers, CollectConn(c)
    PROVE  IInv'
<1>1. Typed'
  BY DEF IInv, Typed, CallerPC, TimerState, CollectConn, poolVars, DropWaiter
<1>2. OneOwner'
  BY DEF IInv, Typed, OneOwner, LiveConns, Placed, CollectConn, poolVars, DropWaiter
<1>3. LiveConns'
  BY DEF IInv, Typed, LiveConns, Placed, CollectConn, poolVars, DropWaiter
<1>4. Placed'
  BY DEF IInv, Typed, Placed, WaitList, Waiting, CollectConn, poolVars, DropWaiter
<1>5. WaitList'
  BY DEF IInv, Typed, Placed, WaitList, Waiting, CollectConn, poolVars, DropWaiter
<1>6. QED
  BY <1>1, <1>2, <1>3, <1>4, <1>5 DEF IInv

\* The callback is queued.
LEMMA TimerExpiresIInv ==
    ASSUME IInv, NEW c \in Callers, TimerExpires(c)
    PROVE  IInv'
<1>1. Typed'
  BY DEF IInv, Typed, CallerPC, TimerState, TimerExpires, poolVars, waiterVars
<1>2. OneOwner'
  BY DEF IInv, Typed, OneOwner, LiveConns, Placed, TimerExpires, poolVars, waiterVars
<1>3. LiveConns'
  BY DEF IInv, Typed, LiveConns, Placed, TimerExpires, poolVars, waiterVars
<1>4. Placed'
  BY DEF IInv, Typed, Placed, WaitList, Waiting, TimerExpires, poolVars, waiterVars
<1>5. WaitList'
  BY DEF IInv, Typed, Placed, WaitList, Waiting, TimerExpires, poolVars, waiterVars
<1>6. QED
  BY <1>1, <1>2, <1>3, <1>4, <1>5 DEF IInv

\* The callback schedules the waiter.
LEMMA TimerSchedulesIInv ==
    ASSUME IInv, NEW c \in Callers, TimerSchedules(c)
    PROVE  IInv'
<1>1. Typed'
  BY DEF IInv, Typed, CallerPC, TimerState, TimerSchedules, poolVars, waiterVars
<1>2. OneOwner'
  BY DEF IInv, Typed, OneOwner, LiveConns, Placed, TimerSchedules, poolVars, waiterVars
<1>3. LiveConns'
  BY DEF IInv, Typed, LiveConns, Placed, TimerSchedules, poolVars, waiterVars
<1>4. Placed'
  BY DEF IInv, Typed, Placed, WaitList, Waiting, TimerSchedules, poolVars, waiterVars
<1>5. WaitList'
  BY DEF IInv, Typed, Placed, WaitList, Waiting, TimerSchedules, poolVars, waiterVars
<1>6. QED
  BY <1>1, <1>2, <1>3, <1>4, <1>5 DEF IInv

\* freeSoci() schedules the waiter.
LEMMA FreeSchedulesIInv ==
    ASSUME IInv, NEW c \in Callers, FreeSchedules(c)
    PROVE  IInv'
<1>1. Typed'
  BY DEF IInv, Typed, CallerPC, TimerState, FreeSchedules, poolVars, waiterVars
<1>2. OneOwner'
  BY DEF IInv, Typed, OneOwner, LiveConns, Placed, FreeSchedules, poolVars, waiterVars
<1>3. LiveConns'
  BY DEF IInv, Typed, LiveConns, Placed, FreeSchedules, poolVars, waiterVars
<1>4. Placed'
  BY DEF IInv, Typed, Placed, WaitList, Waiting, FreeSchedules, poolVars, waiterVars
<1>5. WaitList'
  BY DEF IInv, Typed, Placed, WaitList, Waiting, FreeSchedules, poolVars, waiterVars
<1>6. QED
  BY <1>1, <1>2, <1>3, <1>4, <1>5 DEF IInv

-----------------------------------------------------------------------------
\* Every step preserves the inductive invariant.
LEMMA NextIInv ==
    ASSUME IInv, [Next]_vars
    PROVE  IInv'
<1>1. CASE UNCHANGED vars
  BY <1>1 DEF vars, IInv, Typed, OneOwner, LiveConns, Placed, WaitList
<1>2. ASSUME NEW c \in Callers,
             Get(c) \/ Create(c) \/ Wait(c) \/ TimerStep(c) \/ Release(c)
      PROVE  IInv'
  <2>1. CASE Get(c)
    BY <2>1, GetIdleIInv, GetSlotIInv, GetRefusedIInv, GetWaitIInv DEF Get
  <2>2. CASE Create(c)
    BY <2>2, CreateOkIInv, CreateFailIInv DEF Create
  <2>3. CASE Wait(c)
    BY <2>3, HoldIInv, ResumeIInv, CollectConnIInv, CollectNullIInv DEF Wait
  <2>4. CASE TimerStep(c)
    BY <2>4, TimerExpiresIInv, TimerLockedIInv, TimerSchedulesIInv DEF TimerStep
  <2>5. CASE Release(c)
    BY <2>5, FreeIInv, FreeSchedulesIInv DEF Release
  <2>6. QED
    BY <1>2, <2>1, <2>2, <2>3, <2>4, <2>5
<1>3. QED
  BY <1>1, <1>2 DEF Next

-----------------------------------------------------------------------------
(* The slots.  SlotsExact counts three sets of callers; each step adds or  *)
(* removes one caller at a time.                                           *)

Lent     == {c \in Callers : raw[c] # NoConn}
Handed   == {c \in Callers : wdb[c] # NoConn}
Creating == {c \in Callers : pc[c] = "create"}

\* The three sets are finite, so their cardinalities are numbers.
LEMMA CountsFinite ==
    /\ IsFiniteSet(Lent) /\ IsFiniteSet(Handed) /\ IsFiniteSet(Creating)
    /\ Cardinality(Lent) \in Nat /\ Cardinality(Handed) \in Nat
    /\ Cardinality(Creating) \in Nat
<1>1. /\ IsFiniteSet(Callers)
      /\ Lent \subseteq Callers /\ Handed \subseteq Callers
      /\ Creating \subseteq Callers
  BY PoolAssumption DEF Lent, Handed, Creating
<1>2. IsFiniteSet(Lent) /\ IsFiniteSet(Handed) /\ IsFiniteSet(Creating)
  BY <1>1, FS_Subset
<1>3. QED
  BY <1>2, FS_CardinalityType

\* One caller enters or leaves a finite set.
LEMMA CountOne ==
    ASSUME NEW S, IsFiniteSet(S), NEW x
    PROVE  /\ x \notin S => Cardinality(S \cup {x}) = Cardinality(S) + 1
           /\ x \in S => /\ Cardinality(S \ {x}) = Cardinality(S) - 1
                         /\ Cardinality(S) >= 1
<1>1. x \notin S => Cardinality(S \cup {x}) = Cardinality(S) + 1
  BY FS_AddElement
<1>2. ASSUME x \in S
      PROVE  Cardinality(S \ {x}) = Cardinality(S) - 1 /\ Cardinality(S) >= 1
  <2>1. Cardinality(S \ {x}) = Cardinality(S) - 1
    BY <1>2, FS_RemoveElement
  <2>2. Cardinality(S \ {x}) \in Nat /\ Cardinality(S) \in Nat
    BY FS_CardinalityType, FS_Subset
  <2>3. QED
    BY <2>1, <2>2
<1>3. QED
  BY <1>1, <1>2

Slots ==
    /\ total = Len(idle) + Cardinality(Lent) + Cardinality(Handed)
             + Cardinality(Creating)
    /\ total <= MaxConn

\* How a step moves callers between the three sets and the idle list.
LEMMA SlotMoves ==
    ASSUME IInv, Next
    PROVE  \/ /\ UNCHANGED <<raw, total>> /\ Len(idle') = Len(idle)
              /\ Lent' = Lent /\ Handed' = Handed /\ Creating' = Creating
           \/ \E c \in Callers :
                \/ /\ GetIdle(c)
                   /\ c \notin Lent /\ Lent' = Lent \cup {c}
                   /\ Len(idle) >= 1 /\ Len(idle') = Len(idle) - 1
                   /\ total' = total /\ Handed' = Handed /\ Creating' = Creating
                \/ /\ GetSlot(c)
                   /\ c \notin Creating /\ Creating' = Creating \cup {c}
                   /\ total < MaxConn /\ total' = total + 1
                   /\ Len(idle') = Len(idle) /\ Lent' = Lent /\ Handed' = Handed
                \/ /\ CreateOk(c)
                   /\ c \in Creating /\ Creating' = Creating \ {c}
                   /\ c \notin Lent /\ Lent' = Lent \cup {c}
                   /\ total' = total /\ Len(idle') = Len(idle) /\ Handed' = Handed
                \/ /\ CreateFail(c)
                   /\ c \in Creating /\ Creating' = Creating \ {c}
                   /\ total' = total - 1
                   /\ Len(idle') = Len(idle) /\ Lent' = Lent /\ Handed' = Handed
                \/ /\ CollectConn(c)
                   /\ c \in Handed /\ Handed' = Handed \ {c}
                   /\ c \notin Lent /\ Lent' = Lent \cup {c}
                   /\ total' = total /\ Len(idle') = Len(idle)
                   /\ Creating' = Creating
                \/ /\ Free(c)
                   /\ c \in Lent /\ Lent' = Lent \ {c}
                   /\ total' = total /\ Creating' = Creating
                   /\ \/ Len(idle') = Len(idle) + 1 /\ Handed' = Handed
                      \/ /\ Len(idle') = Len(idle)
                         /\ \E d \in Callers : /\ d \notin Handed
                                               /\ Handed' = Handed \cup {d}
PROOF
<1>1. PICK c \in Callers :
          Get(c) \/ Create(c) \/ Wait(c) \/ TimerStep(c) \/ Release(c)
  BY DEF Next
<1> DEFINE Quiet == /\ UNCHANGED <<raw, total>> /\ Len(idle') = Len(idle)
                    /\ Lent' = Lent /\ Handed' = Handed /\ Creating' = Creating
<1>2. CASE GetSlot(c) \/ CreateFail(c)
  <2>1. CASE GetSlot(c)
    <3>1. c \notin Creating /\ Creating' = Creating \cup {c}
      BY <2>1 DEF IInv, Typed, GetSlot, Creating
    <3>2. /\ total < MaxConn /\ total' = total + 1
          /\ Len(idle') = Len(idle) /\ Lent' = Lent /\ Handed' = Handed
      BY <2>1 DEF GetSlot, waiterVars, Lent, Handed
    <3>3. QED
      BY <2>1, <3>1, <3>2
  <2>2. CASE CreateFail(c)
    <3>1. c \in Creating /\ Creating' = Creating \ {c}
      BY <2>2 DEF IInv, Typed, CreateFail, Creating
    <3>2. /\ total' = total - 1
          /\ Len(idle') = Len(idle) /\ Lent' = Lent /\ Handed' = Handed
      BY <2>2 DEF CreateFail, waiterVars, Lent, Handed
    <3>3. QED
      BY <2>2, <3>1, <3>2
  <2>3. QED
    BY <1>2, <2>1, <2>2
<1>3. CASE GetIdle(c)
  <2>1. /\ idle \in Seq(Conns) /\ idle # <<>> /\ idle' = Tail(idle)
        /\ Head(idle) # NoConn
    BY <1>3, PopIdle DEF IInv, Typed, GetIdle
  <2>2. Len(idle) >= 1 /\ Len(idle') = Len(idle) - 1
    BY <2>1
  <2>3. c \notin Lent /\ Lent' = Lent \cup {c}
    BY <1>3, <2>1 DEF IInv, Typed, Placed, GetIdle, Lent
  <2>4. total' = total /\ Handed' = Handed /\ Creating' = Creating
    BY <1>3 DEF IInv, Typed, GetIdle, waiterVars, Handed, Creating
  <2>5. QED
    BY <1>3, <2>2, <2>3, <2>4
<1>4. CASE CreateOk(c)
  <2>1. PICK conn \in Conns : raw' = [raw EXCEPT ![c] = conn] /\ conn # NoConn
    BY <1>4, PoolAssumption DEF CreateOk
  <2>2. c \notin Lent /\ Lent' = Lent \cup {c}
    BY <1>4, <2>1 DEF IInv, Typed, Placed, CreateOk, Lent
  <2>3. c \in Creating /\ Creating' = Creating \ {c}
    BY <1>4 DEF IInv, Typed, CreateOk, Creating
  <2>4. total' = total /\ Len(idle') = Len(idle) /\ Handed' = Handed
    BY <1>4 DEF CreateOk, waiterVars, Handed
  <2>5. QED
    BY <1>4, <2>2, <2>3, <2>4
<1>5. CASE CollectConn(c)
  <2>1. c \notin Lent /\ Lent' = Lent \cup {c}
    BY <1>5 DEF IInv, Typed, Placed, CollectConn, DropWaiter, Lent
  <2>2. c \in Handed /\ Handed' = Handed \ {c}
    BY <1>5 DEF IInv, Typed, CollectConn, DropWaiter, Handed
  <2>3. total' = total /\ Len(idle') = Len(idle) /\ Creating' = Creating
    BY <1>5 DEF IInv, Typed, CollectConn, DropWaiter, poolVars, Creating
  <2>4. QED
    BY <1>5, <2>1, <2>2, <2>3
<1>6. CASE Free(c)
  <2>1. c \in Lent /\ Lent' = Lent \ {c}
    BY <1>6 DEF IInv, Typed, Placed, Free, Lent
  <2>2. total' = total /\ Creating' = Creating
    BY <1>6 DEF IInv, Typed, Free, Creating
  <2>3. CASE \A j \in DOMAIN waiters : done[waiters[j]]
    <3>1. idle' = Append(idle, raw[c]) /\ wdb' = wdb
      BY <1>6, <2>3 DEF Free
    <3>2. Len(idle') = Len(idle) + 1
      BY <3>1 DEF IInv, Typed
    <3>3. QED
      BY <1>6, <2>1, <2>2, <3>1, <3>2 DEF Handed
  <2>4. CASE \E j \in DOMAIN waiters : ~done[waiters[j]]
    <3>1. PICK i \in DOMAIN waiters : wdb' = [wdb EXCEPT ![waiters[i]] = raw[c]]
                                      /\ idle' = idle
      BY <1>6, <2>4, Zenon DEF Free
    <3>2. waiters[i] \in Callers /\ wdb[waiters[i]] = NoConn /\ raw[c] # NoConn
      BY <1>6 DEF IInv, Typed, WaitList, Placed, Free
    <3>3. waiters[i] \notin Handed /\ Handed' = Handed \cup {waiters[i]}
      BY <3>1, <3>2 DEF IInv, Typed, Handed
    <3>4. QED
      BY <1>6, <2>1, <2>2, <3>1, <3>2, <3>3
  <2>5. QED
    BY <2>3, <2>4
<1>7. CASE \E timeout \in Timeouts \cap {"finite", "forever"} : GetWait(c, timeout)
  <2>1. wdb[c] = NoConn
    BY <1>7 DEF IInv, Typed, Placed, Waiting, GetWait
  <2>2. Quiet
    BY <1>7, <2>1 DEF IInv, Typed, GetWait, Lent, Handed, Creating
  <2>3. QED
    BY <2>2
<1>8. CASE CollectNull(c)
  BY <1>8 DEF IInv, Typed, CollectNull, DropWaiter, Lent, Handed, Creating
<1>9. CASE GetRefused(c) \/ Hold(c) \/ Resume(c) \/ TimerStep(c) \/ FreeSchedules(c)
  BY <1>9 DEF IInv, Typed, GetRefused, Hold, Resume, TimerStep, TimerExpires,
              TimerLocked, TimerSchedules, FreeSchedules, vars, poolVars, waiterVars,
              Lent, Handed, Creating
<1>10. \/ GetSlot(c) \/ CreateFail(c) \/ GetIdle(c) \/ CreateOk(c)
       \/ CollectConn(c) \/ Free(c) \/ CollectNull(c)
       \/ \E timeout \in Timeouts \cap {"finite", "forever"} : GetWait(c, timeout)
       \/ GetRefused(c) \/ Hold(c) \/ Resume(c) \/ TimerStep(c) \/ FreeSchedules(c)
  BY <1>1 DEF Get, Create, Wait, Release
<1>11. QED
  BY <1>2, <1>3, <1>4, <1>5, <1>6, <1>7, <1>8, <1>9, <1>10, Zenon

\* A step keeps the count of slots exact and within maxConn.
LEMMA NextSlots ==
    ASSUME IInv, Slots, [Next]_vars
    PROVE  Slots'
<1>1. /\ Len(idle) \in Nat /\ total \in Int /\ MaxConn \in Nat
      /\ Cardinality(Lent) \in Nat /\ Cardinality(Handed) \in Nat
      /\ Cardinality(Creating) \in Nat
  BY PoolAssumption, CountsFinite DEF IInv, Typed
<1>2. /\ \A x : x \notin Lent => Cardinality(Lent \cup {x}) = Cardinality(Lent) + 1
      /\ \A x : x \in Lent => Cardinality(Lent \ {x}) = Cardinality(Lent) - 1
  BY CountsFinite, CountOne
<1>3. /\ \A x : x \notin Handed => Cardinality(Handed \cup {x}) = Cardinality(Handed) + 1
      /\ \A x : x \in Handed => Cardinality(Handed \ {x}) = Cardinality(Handed) - 1
  BY CountsFinite, CountOne
<1>4. /\ \A x : x \notin Creating =>
                  Cardinality(Creating \cup {x}) = Cardinality(Creating) + 1
      /\ \A x : x \in Creating => Cardinality(Creating \ {x}) = Cardinality(Creating) - 1
  BY CountsFinite, CountOne
<1>5. CASE UNCHANGED vars
  BY <1>5 DEF vars, Slots, Lent, Handed, Creating
<1>6. CASE Next
  <2>1. total' <= MaxConn
    BY <1>1, <1>6, SlotMoves DEF Slots
  <2>2. total' = Len(idle') + Cardinality(Lent') + Cardinality(Handed')
                + Cardinality(Creating')
    <3> DEFINE n == Len(idle)  n2 == Len(idle')
               l == Cardinality(Lent)  l2 == Cardinality(Lent')
               h == Cardinality(Handed)  h2 == Cardinality(Handed')
               k == Cardinality(Creating)  k2 == Cardinality(Creating')
    <3>1. \/ total' = total /\ n2 = n /\ l2 = l /\ h2 = h /\ k2 = k
          \/ total' = total /\ n2 = n - 1 /\ l2 = l + 1 /\ h2 = h /\ k2 = k
          \/ total' = total + 1 /\ n2 = n /\ l2 = l /\ h2 = h /\ k2 = k + 1
          \/ total' = total /\ n2 = n /\ l2 = l + 1 /\ h2 = h /\ k2 = k - 1
          \/ total' = total - 1 /\ n2 = n /\ l2 = l /\ h2 = h /\ k2 = k - 1
          \/ total' = total /\ n2 = n /\ l2 = l + 1 /\ h2 = h - 1 /\ k2 = k
          \/ total' = total /\ n2 = n + 1 /\ l2 = l - 1 /\ h2 = h /\ k2 = k
          \/ total' = total /\ n2 = n /\ l2 = l - 1 /\ h2 = h + 1 /\ k2 = k
      BY <1>2, <1>3, <1>4, <1>6, SlotMoves, Zenon
    <3>2. /\ n \in Nat /\ l \in Nat /\ h \in Nat /\ k \in Nat /\ total \in Int
          /\ total = n + l + h + k
      BY <1>1 DEF Slots
    <3> HIDE DEF n, n2, l, l2, h, h2, k, k2
    <3>3. total' = n2 + l2 + h2 + k2
      BY <3>1, <3>2
    <3>4. QED
      BY <3>3 DEF n2, l2, h2, k2
  <2>3. QED
    BY <2>1, <2>2 DEF Slots
<1>7. QED
  BY <1>5, <1>6

\* A step of the pool is a step of the lending, or none.
LEMMA NextLends ==
    ASSUME IInv, Slots, [Next]_vars
    PROVE  [Lend!Next]_raw
<1>1. /\ Len(idle) \in Nat /\ total \in Int /\ MaxConn \in Nat
      /\ Cardinality(Lent) \in Nat /\ Cardinality(Handed) \in Nat
      /\ Cardinality(Creating) \in Nat
  BY PoolAssumption, CountsFinite DEF IInv, Typed
<1>2. Lend!Borrowers = Lent
  BY DEF Lend!Borrowers, Lent
<1>3. ASSUME NEW c \in Callers, NEW conn \in Conns, pc[c] # "use",
             raw' = [raw EXCEPT ![c] = conn],
             \A d \in Callers : raw[d] # conn,
             Cardinality(Lent) < MaxConn
      PROVE  Lend!Next
  <2>1. raw[c] = NoConn
    BY <1>3 DEF IInv, Placed
  <2>2. Lend!Take(c, conn)
    <3>1. Cardinality(Lend!Borrowers) < MaxConn
      BY <1>2, <1>3
    <3>2. Lend!Cardinality(Lend!Borrowers) = Cardinality(Lend!Borrowers)
      BY DEF Lend!Cardinality, Cardinality
    <3>3. QED
      BY <1>3, <2>1, <3>1, <3>2 DEF Lend!Take
  <2>3. QED
    BY <2>2 DEF Lend!Next
<1>4. CASE UNCHANGED raw
  BY <1>4
<1>5. ASSUME NEW c \in Callers, GetIdle(c), Len(idle) >= 1
      PROVE  Lend!Next
  <2>1. /\ Head(idle) \in Conns /\ Head(idle) = idle[1] /\ 1 \in DOMAIN idle
        /\ raw' = [raw EXCEPT ![c] = Head(idle)] /\ pc[c] # "use"
    BY <1>5, PopIdle DEF IInv, GetIdle
  <2>2. \A d \in Callers : raw[d] # Head(idle)
    BY <2>1 DEF IInv, OneOwner
  <2>3. Cardinality(Lent) < MaxConn
    BY <1>1, <1>5 DEF Slots
  <2>4. QED
    BY <1>3, <2>1, <2>2, <2>3
<1>6. ASSUME NEW c \in Callers, CreateOk(c), c \in Creating
      PROVE  Lend!Next
  <2>1. PICK conn \in Conns \ live : raw' = [raw EXCEPT ![c] = conn]
    BY <1>6 DEF CreateOk
  <2>2. pc[c] # "use" /\ conn # NoConn
    BY <1>6, PoolAssumption DEF CreateOk
  <2>3. \A d \in Callers : raw[d] # conn
    BY <2>2 DEF IInv, LiveConns
  <2>4. Cardinality(Creating) >= 1
    BY <1>6, CountsFinite, CountOne
  <2>5. Cardinality(Lent) < MaxConn
    BY <1>1, <2>4 DEF Slots
  <2>6. QED
    BY <1>3, <2>1, <2>2, <2>3, <2>5
<1>7. ASSUME NEW c \in Callers, CollectConn(c), c \in Handed
      PROVE  Lend!Next
  <2>1. /\ wdb[c] \in Conns /\ raw' = [raw EXCEPT ![c] = wdb[c]] /\ pc[c] # "use"
    BY <1>7 DEF IInv, Typed, CollectConn
  <2>2. \A d \in Callers : raw[d] # wdb[c]
    BY <1>7 DEF IInv, OneOwner, CollectConn
  <2>3. Cardinality(Handed) >= 1
    BY <1>7, CountsFinite, CountOne
  <2>4. Cardinality(Lent) < MaxConn
    BY <1>1, <2>3 DEF Slots
  <2>5. QED
    BY <1>3, <2>1, <2>2, <2>4
<1>8. ASSUME NEW c \in Callers, Free(c)
      PROVE  Lend!Next
  <2>1. raw[c] # NoConn /\ raw' = [raw EXCEPT ![c] = NoConn]
    BY <1>8 DEF IInv, Placed, Free
  <2>2. Lend!GiveBack(c)
    BY <2>1 DEF Lend!GiveBack
  <2>3. QED
    BY <2>2 DEF Lend!Next
<1>9. CASE Next
  <2>1. \/ UNCHANGED raw
        \/ \E c \in Callers :
             \/ GetIdle(c) /\ Len(idle) >= 1
             \/ GetSlot(c) \/ CreateFail(c)
             \/ CreateOk(c) /\ c \in Creating
             \/ CollectConn(c) /\ c \in Handed
             \/ Free(c)
    BY <1>9, SlotMoves
  <2>2. \A c \in Callers : GetSlot(c) \/ CreateFail(c) => UNCHANGED raw
    BY DEF GetSlot, CreateFail
  <2>3. QED
    BY <1>4, <1>5, <1>6, <1>7, <1>8, <2>1, <2>2
<1>10. QED
  BY <1>4, <1>9 DEF vars

\* The inductive invariant and the count of slots hold in every reachable state.
LEMMA SpecIInv == Spec => [](IInv /\ Slots)
<1>1. Init => IInv
  BY InitIInv
<1>2. Init => Slots
  <2>1. ASSUME Init
        PROVE  Lent = {} /\ Handed = {} /\ Creating = {} /\ idle = <<>> /\ total = 0
    BY <2>1 DEF Init, Lent, Handed, Creating
  <2>2. Cardinality({}) = 0
    BY FS_EmptySet
  <2>3. QED
    <3>1. ASSUME Init
          PROVE  Slots
      <4>1. /\ Cardinality(Lent) = 0 /\ Cardinality(Handed) = 0
            /\ Cardinality(Creating) = 0 /\ Len(idle) = 0 /\ total = 0
        BY <2>1, <2>2, <3>1
      <4>2. QED
        BY <4>1, PoolAssumption DEF Slots
    <3>2. QED
      BY <3>1
<1>3. IInv /\ Slots /\ [Next]_vars => IInv' /\ Slots'
  BY NextIInv, NextSlots
<1>4. QED
  BY <1>1, <1>2, <1>3, PTL DEF Spec

\* Type correctness of the pool.  totalCount does not wrap around below zero,
\* because it counts the connections and the slots being filled.
THEOREM PoolTypeCorrect == Spec => []TypeOK
<1>1. IInv /\ Slots => TypeOK
  <2>1. ASSUME IInv, Slots
        PROVE  total \in Nat
    <3>1. Len(idle) \in Nat
      BY <2>1 DEF IInv, Typed
    <3>2. /\ Cardinality(Lent) \in Nat
          /\ Cardinality(Handed) \in Nat
          /\ Cardinality(Creating) \in Nat
      BY CountsFinite
    <3>3. QED
      BY <2>1, <3>1, <3>2 DEF Slots
  <2>2. QED
    BY <2>1 DEF IInv, Typed, TypeOK
<1>2. QED
  BY <1>1, SpecIInv, PTL

\* No connection is ever in two places, whatever the interleaving of get(),
\* freeSoci() and timeouts.
THEOREM PoolOneOwner == Spec => []OneOwner
<1>1. IInv => OneOwner
  BY DEF IInv
<1>2. QED
  BY <1>1, SpecIInv, PTL

\* totalCount is exact and never exceeds maxConn: no path through get(),
\* freeSoci() and the timer callback leaks or doubles a slot.
THEOREM PoolSlotsExact == Spec => []SlotsExact
<1>1. Slots => SlotsExact
  BY DEF Slots, SlotsExact, Lent, Handed, Creating
<1>2. QED
  BY <1>1, SpecIInv, PTL

\* The pool implements exclusive, bounded lending.
THEOREM PoolImplementsLending == Spec => LendingSpec
<1>1. Init => Lend!Init
  BY DEF Init, Lend!Init
<1>2. IInv /\ Slots /\ [Next]_vars => [Lend!Next]_raw
  BY NextLends
<1>3. QED
  BY <1>1, <1>2, SpecIInv, PTL DEF Spec, LendingSpec, Lend!Spec

-----------------------------------------------------------------------------
(***************************************************************************)
(* The waits.  WokenOnce, OneSideCompletes and NoIdleWhileWaiting need     *)
(* each other: the timeout completes a wait in "hold" only because a       *)
(* resumed one is completed, freeSoci() finds every wait that is not       *)
(* completed because such a wait is listed, and a wake-up is the only one  *)
(* because completing a wait is what starts it.                            *)
(***************************************************************************)

\* Caller d is about to schedule the fiber of caller c.
Waking(d, c) == pc[d] = "wake" /\ target[d] = c

\* Caller c's wait is completed and its fiber has not been resumed.
Completed(c) == pc[c] \in {"linked", "hold"} /\ done[c]

\* A wait that was resumed is completed; one that is not is listed, and then
\* nothing is idle.
ListedWaits ==
    \A c \in Callers :
        /\ pc[c] = "collect" => done[c]
        /\ pc[c] \in {"linked", "hold"} /\ ~done[c] => linked[c] /\ idle = <<>>

\* A completed wait was completed by one side.
Completions ==
    \A c \in Callers : pc[c] \in Waiting =>
        /\ done[c] => (timedOut[c] <=> wdb[c] = NoConn)
        /\ ~done[c] => ~timedOut[c] /\ wdb[c] = NoConn

\* Where a caller is while its timer lives.
TimerPlaces ==
    \A c \in Callers :
        /\ timer[c] # "none" => pc[c] \in {"hold", "collect"}
        /\ timer[c] = "armed" => pc[c] = "hold"

\* The three ways a wake-up is under way, of which a completed wait has one.
WakeUps ==
    \A c \in Callers :
        /\ wakes[c] \in {0, 1}
        /\ wakes[c] = 1 => Completed(c) /\ timer[c] # "waking"
        /\ timer[c] = "waking" => Completed(c)
        /\ \A d \in Callers : Waking(d, c) =>
              /\ Completed(c) /\ wakes[c] = 0 /\ timer[c] # "waking"
              /\ \A e \in Callers : Waking(e, c) => e = d
        /\ Completed(c) =>
              wakes[c] = 1 \/ timer[c] = "waking" \/ \E d \in Callers : Waking(d, c)

WaitInv == ListedWaits /\ Completions /\ TimerPlaces /\ WakeUps

\* get() takes an idle connection: the caller was in no wait.
LEMMA GetIdleWait ==
    ASSUME IInv, WaitInv, NEW c \in Callers, GetIdle(c)
    PROVE  WaitInv'
<1> USE DEF IInv, Typed, Placed, Waiting, GetIdle, waiterVars
<1>1. ListedWaits'
  BY DEF WaitInv, ListedWaits, Completions, TimerPlaces, WakeUps, Completed
<1>2. Completions'
  BY DEF WaitInv, ListedWaits, Completions, TimerPlaces, WakeUps, Completed
<1>3. TimerPlaces'
  BY DEF WaitInv, ListedWaits, TimerPlaces, WakeUps, Completed, TimerState
<1>4. WakeUps'
  BY DEF WaitInv, ListedWaits, TimerPlaces, WakeUps, Completed, Waking
<1>5. QED
  BY <1>1, <1>2, <1>3, <1>4 DEF WaitInv

\* get() takes a slot.
LEMMA GetSlotWait ==
    ASSUME IInv, WaitInv, NEW c \in Callers, GetSlot(c)
    PROVE  WaitInv'
<1> USE DEF IInv, Typed, Placed, Waiting, GetSlot, waiterVars
<1>1. ListedWaits'
  BY DEF WaitInv, ListedWaits, Completions, TimerPlaces, WakeUps, Completed
<1>2. Completions'
  BY DEF WaitInv, ListedWaits, Completions, TimerPlaces, WakeUps, Completed
<1>3. TimerPlaces'
  BY DEF WaitInv, ListedWaits, TimerPlaces, WakeUps, Completed, TimerState
<1>4. WakeUps'
  BY DEF WaitInv, ListedWaits, TimerPlaces, WakeUps, Completed, Waking
<1>5. QED
  BY <1>1, <1>2, <1>3, <1>4 DEF WaitInv

\* A new wait is listed and not completed; nothing is idle.
LEMMA GetWaitWait ==
    ASSUME IInv, WaitInv, NEW c \in Callers, \E timeout \in {"finite", "forever"} : GetWait(c, timeout)
    PROVE  WaitInv'
<1> USE DEF IInv, Typed, Placed, Waiting, GetWait
<1>1. ListedWaits'
  BY DEF WaitInv, ListedWaits, Completions, TimerPlaces, WakeUps, Completed
<1>2. Completions'
  BY DEF WaitInv, ListedWaits, Completions, TimerPlaces, WakeUps, Completed
<1>3. TimerPlaces'
  BY DEF WaitInv, ListedWaits, TimerPlaces, WakeUps, Completed, TimerState
<1>4. WakeUps'
  BY DEF WaitInv, ListedWaits, TimerPlaces, WakeUps, Completed, Waking
<1>5. QED
  BY <1>1, <1>2, <1>3, <1>4 DEF WaitInv

\* A connection was made.
LEMMA CreateOkWait ==
    ASSUME IInv, WaitInv, NEW c \in Callers, CreateOk(c)
    PROVE  WaitInv'
<1> USE DEF IInv, Typed, Placed, Waiting, CreateOk, waiterVars
<1>1. ListedWaits'
  BY DEF WaitInv, ListedWaits, Completions, TimerPlaces, WakeUps, Completed
<1>2. Completions'
  BY DEF WaitInv, ListedWaits, Completions, TimerPlaces, WakeUps, Completed
<1>3. TimerPlaces'
  BY DEF WaitInv, ListedWaits, TimerPlaces, WakeUps, Completed, TimerState
<1>4. WakeUps'
  BY DEF WaitInv, ListedWaits, TimerPlaces, WakeUps, Completed, Waking
<1>5. QED
  BY <1>1, <1>2, <1>3, <1>4 DEF WaitInv

\* A connect failed.
LEMMA CreateFailWait ==
    ASSUME IInv, WaitInv, NEW c \in Callers, CreateFail(c)
    PROVE  WaitInv'
<1> USE DEF IInv, Typed, Placed, Waiting, CreateFail, waiterVars
<1>1. ListedWaits'
  BY DEF WaitInv, ListedWaits, Completions, TimerPlaces, WakeUps, Completed
<1>2. Completions'
  BY DEF WaitInv, ListedWaits, Completions, TimerPlaces, WakeUps, Completed
<1>3. TimerPlaces'
  BY DEF WaitInv, ListedWaits, TimerPlaces, WakeUps, Completed, TimerState
<1>4. WakeUps'
  BY DEF WaitInv, ListedWaits, TimerPlaces, WakeUps, Completed, Waking
<1>5. QED
  BY <1>1, <1>2, <1>3, <1>4 DEF WaitInv

\* The timer is armed: none was left from an earlier wait.
LEMMA HoldWait ==
    ASSUME IInv, WaitInv, NEW c \in Callers, Hold(c)
    PROVE  WaitInv'
<1> USE DEF IInv, Typed, Placed, Waiting, Hold, poolVars, waiterVars
<1>1. ListedWaits'
  BY DEF WaitInv, ListedWaits, Completions, TimerPlaces, WakeUps, Completed
<1>2. Completions'
  BY DEF WaitInv, ListedWaits, Completions, TimerPlaces, WakeUps, Completed
<1>3. TimerPlaces'
  BY DEF WaitInv, ListedWaits, TimerPlaces, WakeUps, Completed, TimerState
<1>4. WakeUps'
  <2>1. /\ \A d \in Callers : timer'[d] = "waking" <=> timer[d] = "waking"
        /\ \A d \in Callers : pc'[d] = "wake" <=> pc[d] = "wake"
        /\ \A d \in Callers : pc'[d] \in {"linked", "hold"} <=> pc[d] \in {"linked", "hold"}
        /\ UNCHANGED <<done, wakes, target>>
    BY DEF WaitInv, TimerPlaces
  <2>2. QED
    BY <2>1 DEF WaitInv, WakeUps, Completed, Waking
<1>5. QED
  BY <1>1, <1>2, <1>3, <1>4 DEF WaitInv

\* The one wake-up is consumed.
LEMMA ResumeWait ==
    ASSUME IInv, WaitInv, NEW c \in Callers, Resume(c)
    PROVE  WaitInv'
<1> USE DEF IInv, Typed, Placed, Waiting, Resume, poolVars, waiterVars
<1>1. ListedWaits'
  BY DEF WaitInv, ListedWaits, Completions, TimerPlaces, WakeUps, Completed
<1>2. Completions'
  BY DEF WaitInv, ListedWaits, Completions, TimerPlaces, WakeUps, Completed
<1>3. TimerPlaces'
  BY DEF WaitInv, ListedWaits, TimerPlaces, WakeUps, Completed, TimerState
<1>4. WakeUps'
  BY DEF WaitInv, ListedWaits, TimerPlaces, WakeUps, Completed, Waking
<1>5. QED
  BY <1>1, <1>2, <1>3, <1>4 DEF WaitInv

\* get() returns the connection it was given.
LEMMA CollectConnWait ==
    ASSUME IInv, WaitInv, NEW c \in Callers, CollectConn(c)
    PROVE  WaitInv'
<1> USE DEF IInv, Typed, Placed, Waiting, CollectConn, poolVars, DropWaiter
<1>1. ListedWaits'
  BY DEF WaitInv, ListedWaits, Completions, TimerPlaces, WakeUps, Completed
<1>2. Completions'
  BY DEF WaitInv, ListedWaits, Completions, TimerPlaces, WakeUps, Completed
<1>3. TimerPlaces'
  BY DEF WaitInv, ListedWaits, TimerPlaces, WakeUps, Completed, TimerState
<1>4. WakeUps'
  BY DEF WaitInv, ListedWaits, TimerPlaces, WakeUps, Completed, Waking
<1>5. QED
  BY <1>1, <1>2, <1>3, <1>4 DEF WaitInv

\* get() returns null.
LEMMA CollectNullWait ==
    ASSUME IInv, WaitInv, NEW c \in Callers, CollectNull(c)
    PROVE  WaitInv'
<1> USE DEF IInv, Typed, Placed, Waiting, CollectNull, DropWaiter
<1>1. ListedWaits'
  BY DEF WaitInv, ListedWaits, Completions, TimerPlaces, WakeUps, Completed
<1>2. Completions'
  BY DEF WaitInv, ListedWaits, Completions, TimerPlaces, WakeUps, Completed
<1>3. TimerPlaces'
  BY DEF WaitInv, ListedWaits, TimerPlaces, WakeUps, Completed, TimerState
<1>4. WakeUps'
  BY DEF WaitInv, ListedWaits, TimerPlaces, WakeUps, Completed, Waking
<1>5. QED
  BY <1>1, <1>2, <1>3, <1>4 DEF WaitInv

\* listExpiredCb() takes the callback out.
LEMMA TimerExpiresWait ==
    ASSUME IInv, WaitInv, NEW c \in Callers, TimerExpires(c)
    PROVE  WaitInv'
<1> USE DEF IInv, Typed, Placed, Waiting, TimerExpires, poolVars, waiterVars
<1>1. ListedWaits'
  BY DEF WaitInv, ListedWaits, Completions, TimerPlaces, WakeUps, Completed
<1>2. Completions'
  BY DEF WaitInv, ListedWaits, Completions, TimerPlaces, WakeUps, Completed
<1>3. TimerPlaces'
  BY DEF WaitInv, ListedWaits, TimerPlaces, WakeUps, Completed, TimerState
<1>4. WakeUps'
  BY DEF WaitInv, ListedWaits, TimerPlaces, WakeUps, Completed, Waking
<1>5. QED
  BY <1>1, <1>2, <1>3, <1>4 DEF WaitInv

\* The callback completes a wait nobody completed, or does nothing.
LEMMA TimerLockedWait ==
    ASSUME IInv, WaitInv, NEW c \in Callers, TimerLocked(c)
    PROVE  WaitInv'
<1> USE DEF IInv, Typed, Placed, Waiting
<1>1. CASE done[c]
  <2>1. timer' = [timer EXCEPT ![c] = "none"] /\ timer[c] = "queued"
        /\ UNCHANGED <<idle, pc, linked, done, wdb, timedOut, target, wakes>>
    BY <1>1 DEF TimerLocked
  <2>2. ListedWaits' /\ Completions'
    BY <2>1 DEF WaitInv, ListedWaits, Completions
  <2>3. TimerPlaces' /\ WakeUps'
    BY <2>1 DEF WaitInv, TimerPlaces, WakeUps, Completed, Waking
  <2>4. QED
    BY <2>2, <2>3 DEF WaitInv
<1>2. CASE ~done[c]
  <2>1. /\ timer' = [timer EXCEPT ![c] = "waking"] /\ timer[c] = "queued"
        /\ linked' = [linked EXCEPT ![c] = FALSE]
        /\ done' = [done EXCEPT ![c] = TRUE]
        /\ timedOut' = [timedOut EXCEPT ![c] = TRUE]
        /\ UNCHANGED <<idle, pc, wdb, target, wakes>>
    BY <1>2 DEF TimerLocked
  <2>2. pc[c] = "hold"
    BY <1>2, <2>1 DEF WaitInv, TimerPlaces, ListedWaits
  <2>3. ListedWaits'
    BY <2>1, <2>2 DEF WaitInv, ListedWaits
  <2>4. Completions'
    BY <1>2, <2>1, <2>2 DEF WaitInv, Completions
  <2>5. TimerPlaces'
    BY <2>1, <2>2 DEF WaitInv, TimerPlaces
  <2>6. WakeUps'
    BY <1>2, <2>1, <2>2 DEF WaitInv, WakeUps, Completed, Waking
  <2>7. QED
    BY <2>3, <2>4, <2>5, <2>6 DEF WaitInv
<1>3. QED
  BY <1>1, <1>2

\* The callback schedules the fiber after the unlock.
LEMMA TimerSchedulesWait ==
    ASSUME IInv, WaitInv, NEW c \in Callers, TimerSchedules(c)
    PROVE  WaitInv'
<1> USE DEF IInv, Typed, Placed, Waiting, TimerSchedules, poolVars, waiterVars
<1>1. ListedWaits'
  BY DEF WaitInv, ListedWaits, Completions, TimerPlaces, WakeUps, Completed
<1>2. Completions'
  BY DEF WaitInv, ListedWaits, Completions, TimerPlaces, WakeUps, Completed
<1>3. TimerPlaces'
  BY DEF WaitInv, ListedWaits, TimerPlaces, WakeUps, Completed, TimerState
<1>4. WakeUps'
  BY DEF WaitInv, ListedWaits, TimerPlaces, WakeUps, Completed, Waking
<1>5. QED
  BY <1>1, <1>2, <1>3, <1>4 DEF WaitInv

\* freeSoci() schedules the fiber after the unlock.
LEMMA FreeSchedulesWait ==
    ASSUME IInv, WaitInv, NEW c \in Callers, FreeSchedules(c)
    PROVE  WaitInv'
<1> USE DEF IInv, Typed, Placed, Waiting, FreeSchedules, poolVars, waiterVars
<1>1. ListedWaits'
  BY DEF WaitInv, ListedWaits, Completions, TimerPlaces, WakeUps, Completed
<1>2. Completions'
  BY DEF WaitInv, ListedWaits, Completions, TimerPlaces, WakeUps, Completed
<1>3. TimerPlaces'
  BY DEF WaitInv, ListedWaits, TimerPlaces, WakeUps, Completed, TimerState
<1>4. WakeUps'
  BY DEF WaitInv, ListedWaits, TimerPlaces, WakeUps, Completed, Waking
<1>5. QED
  BY <1>1, <1>2, <1>3, <1>4 DEF WaitInv

\* freeSoci() completes the first wait that is not completed, or finds every
\* listed wait completed and gives the connection to the idle list.
LEMMA FreeWait ==
    ASSUME IInv, WaitInv, NEW c \in Callers, Free(c)
    PROVE  WaitInv'
<1> USE DEF IInv, Typed
<1>1. ASSUME NEW i \in DOMAIN waiters, ~done[waiters[i]],
             \A j \in 1..(i - 1) : done[waiters[j]],
             linked' = [e \in Callers |->
                           linked[e] /\ e \notin {waiters[j] : j \in 1..i}],
             done' = [done EXCEPT ![waiters[i]] = TRUE],
             wdb' = [wdb EXCEPT ![waiters[i]] = raw[c]],
             target' = [target EXCEPT ![c] = waiters[i]],
             pc' = [pc EXCEPT ![c] = "wake"],
             UNCHANGED <<idle, timedOut, timer, wakes>>
      PROVE  WaitInv'
  <2> DEFINE d == waiters[i]
  <2>1. d \in Callers /\ d # c /\ pc[d] \in {"linked", "hold"} /\ pc[c] = "use"
        /\ raw[c] # NoConn
    BY <1>1 DEF Free, WaitList, WaitInv, ListedWaits, Waiting, Placed
  <2>2. \A e \in Callers : ~done'[e] => (linked'[e] <=> linked[e]) /\ ~done[e]
    <3>1. ASSUME NEW e \in Callers, ~done'[e]
          PROVE  ~done[e] /\ e \notin {waiters[j] : j \in 1..i}
      <4>1. e # d /\ ~done[e]
        BY <1>1, <2>1, <3>1
      <4>2. ASSUME NEW j \in 1..i
            PROVE  waiters[j] # e
        <5>1. j \in 1..(i - 1) \/ j = i
          BY <1>1
        <5>2. QED
          BY <1>1, <4>1, <5>1
      <4>3. QED
        BY <4>1, <4>2
    <3>2. QED
      BY <1>1, <3>1
  <2> HIDE DEF d
  <2>3. /\ done' = [done EXCEPT ![d] = TRUE] /\ wdb' = [wdb EXCEPT ![d] = raw[c]]
        /\ target' = [target EXCEPT ![c] = d] /\ ~done[d]
        /\ pc' = [pc EXCEPT ![c] = "wake"] /\ UNCHANGED <<idle, timedOut, timer, wakes>>
    BY <1>1 DEF d
  <2>4. ListedWaits'
    BY <2>1, <2>2, <2>3 DEF WaitInv, ListedWaits
  <2>5. Completions'
    BY <2>1, <2>3 DEF WaitInv, Completions, Waiting
  <2>6. TimerPlaces'
    BY <2>1, <2>3 DEF WaitInv, TimerPlaces
  <2>7. WakeUps'
    BY <2>1, <2>3 DEF WaitInv, WakeUps, Completed, Waking
  <2>8. QED
    BY <2>4, <2>5, <2>6, <2>7 DEF WaitInv
<1>2. ASSUME \A j \in DOMAIN waiters : done[waiters[j]],
             pc' = [pc EXCEPT ![c] = "out"],
             linked' = [e \in Callers |->
                          linked[e] /\ e \notin {waiters[j] : j \in DOMAIN waiters}],
             UNCHANGED <<done, wdb, target, timedOut, timer, wakes>>
      PROVE  WaitInv'
  <2>1. \A e \in Callers : linked[e] => done[e]
    BY <1>2 DEF WaitList
  <2>2. pc[c] = "use"
    BY DEF Free
  <2>3. ListedWaits'
    BY <1>2, <2>1, <2>2 DEF WaitInv, ListedWaits
  <2>4. Completions' /\ TimerPlaces'
    BY <1>2, <2>2 DEF WaitInv, Completions, TimerPlaces, Waiting
  <2>5. WakeUps'
    BY <1>2, <2>2 DEF WaitInv, WakeUps, Completed, Waking
  <2>6. QED
    BY <2>3, <2>4, <2>5 DEF WaitInv
<1>3. QED
  BY <1>1, <1>2 DEF Free

\* Every step keeps the facts about waits.
LEMMA NextWait ==
    ASSUME IInv, WaitInv, [Next]_vars
    PROVE  WaitInv'
<1>1. CASE UNCHANGED vars
  BY <1>1 DEF vars, WaitInv, ListedWaits, Completions, TimerPlaces, WakeUps, Completed,
             Waking
<1>2. ASSUME NEW c \in Callers, Get(c) \/ Create(c)
      PROVE  WaitInv'
  <2>1. CASE GetRefused(c)
    BY <1>1, <2>1 DEF GetRefused
  <2>2. QED
    BY <1>2, <2>1, GetIdleWait, GetSlotWait, GetWaitWait, CreateOkWait, CreateFailWait
    DEF Get, Create
<1>3. ASSUME NEW c \in Callers, Wait(c) \/ TimerStep(c) \/ Release(c)
      PROVE  WaitInv'
  BY <1>3, HoldWait, ResumeWait, CollectConnWait, CollectNullWait, TimerExpiresWait,
     TimerLockedWait, TimerSchedulesWait, FreeWait, FreeSchedulesWait
  DEF Wait, TimerStep, Release
<1>4. QED
  BY <1>1, <1>2, <1>3 DEF Next

\* The wake-ups of a caller, counted.
LEMMA WakersCount ==
    ASSUME IInv, WaitInv
    PROVE  WokenOnce
<1> SUFFICES ASSUME NEW c \in Callers
             PROVE  Wakers(c) = IF Completed(c) THEN 1 ELSE 0
  BY DEF WokenOnce, Completed
<1> DEFINE S == {d \in Callers : pc[d] = "wake" /\ target[d] = c}
<1>1. CASE \E d \in Callers : Waking(d, c)
  <2>1. PICK d \in Callers : Waking(d, c)
    BY <1>1
  <2>2. S = {d} /\ Completed(c) /\ wakes[c] = 0 /\ timer[c] # "waking"
    BY <2>1 DEF WaitInv, WakeUps, Waking
  <2>3. Cardinality(S) = 1
    BY <2>2, FS_Singleton
  <2>4. QED
    BY <2>2, <2>3 DEF Wakers
<1>2. CASE ~\E d \in Callers : Waking(d, c)
  <2>1. S = {}
    BY <1>2 DEF Waking
  <2>2. Cardinality(S) = 0
    BY <2>1, FS_EmptySet
  <2>3. Wakers(c) = wakes[c] + 0 + (IF timer[c] = "waking" THEN 1 ELSE 0)
    BY <2>2 DEF Wakers
  <2>4. /\ wakes[c] \in {0, 1}
        /\ wakes[c] = 1 => Completed(c) /\ timer[c] # "waking"
        /\ timer[c] = "waking" => Completed(c)
        /\ Completed(c) => wakes[c] = 1 \/ timer[c] = "waking"
    BY <1>2 DEF WaitInv, WakeUps
  <2>5. QED
    BY <2>3, <2>4
<1>3. QED
  BY <1>1, <1>2

\* The facts about waits hold in every reachable state.
LEMMA SpecWait == Spec => [](IInv /\ WaitInv)
<1>1. Init => WaitInv
  BY DEF Init, WaitInv, ListedWaits, Completions, TimerPlaces, WakeUps, Completed,
         Waking, Waiting
<1>2. IInv /\ WaitInv /\ [Next]_vars => WaitInv'
  BY NextWait
<1>3. QED
  BY <1>1, <1>2, SpecIInv, PTL DEF Spec

\* A waiting fiber is scheduled once, by freeSoci() or by its timeout, and no
\* fiber is scheduled that is not in the wait, for any number of callers.
THEOREM PoolWokenOnce == Spec => []WokenOnce
<1>1. IInv /\ WaitInv => WokenOnce
  BY WakersCount
<1>2. QED
  BY <1>1, SpecWait, PTL

\* get() comes out of the wait with a connection or timed out, never both.
THEOREM PoolOneSideCompletes == Spec => []OneSideCompletes
<1>1. IInv /\ WaitInv => OneSideCompletes
  <2> SUFFICES ASSUME IInv, WaitInv, NEW c \in Callers, pc[c] = "collect"
               PROVE  (wdb[c] # NoConn) # timedOut[c]
    BY DEF OneSideCompletes
  <2>1. timedOut[c] <=> wdb[c] = NoConn
    BY DEF WaitInv, ListedWaits, Completions, Waiting
  <2>2. timedOut[c] \in BOOLEAN
    BY DEF IInv, Typed
  <2>3. QED
    BY <2>1, <2>2, Zenon
<1>2. QED
  BY <1>1, SpecWait, PTL

\* No connection is idle while a fiber waits for one.
THEOREM PoolNoIdleWhileWaiting == Spec => []NoIdleWhileWaiting
<1>1. WaitInv => NoIdleWhileWaiting
  BY DEF WaitInv, ListedWaits, NoIdleWhileWaiting
<1>2. QED
  BY <1>1, SpecWait, PTL

=============================================================================
