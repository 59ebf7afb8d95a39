-------------------------- MODULE WorkerPool_proofs --------------------------
(***************************************************************************)
(* Proofs about WorkerPool, for every finite set of workers and every set  *)
(* of clients.                                                             *)
(***************************************************************************)
EXTENDS WorkerPool, FiniteSetTheorems, SequenceTheorems, TLAPS

\* Every reachable state is well typed.
THEOREM TypeCorrect == Spec => []TypeOK
<1>1. Init => TypeOK
  BY DEF Init, TypeOK
<1>2. TypeOK /\ [Next]_vars => TypeOK'
  <2>. SUFFICES ASSUME TypeOK, [Next]_vars PROVE TypeOK'
    OBVIOUS
  <2>. USE DEF TypeOK
  <2>1. ASSUME NEW c \in Clients, Accept(c) PROVE TypeOK'
    <3>1. clientQueue' \in Seq(Clients) /\ accepted' \in Seq(Clients)
      BY <2>1 DEF Accept
    <3>2. ready' \subseteq Workers /\ sleeping' \subseteq Workers
      BY <2>1 DEF Accept
    <3>. QED  BY <2>1, <3>1, <3>2 DEF Accept
  <2>2. ASSUME NEW w \in Workers, WakeUp(w) PROVE TypeOK'
    BY <2>2 DEF WakeUp
  <2>3. ASSUME NEW w \in Workers, Take(w) PROVE TypeOK'
    <3>1. Head(clientQueue) \in Clients /\ clientQueue' \in Seq(Clients)
      BY <2>3 DEF Take
    <3>2. served' \in Seq(Clients) /\ serves' \subseteq Workers \X Clients
      BY <2>3, <3>1 DEF Take
    <3>. QED  BY <2>3, <3>1, <3>2 DEF Take
  <2>4. ASSUME NEW w \in Workers, Sleep(w) PROVE TypeOK'
    BY <2>4 DEF Sleep
  <2>5. ASSUME NEW w \in Workers, Finish(w) PROVE TypeOK'
    BY <2>5 DEF Finish
  <2>6. CASE UNCHANGED vars
    BY <2>6 DEF vars
  <2>. QED  BY <2>1, <2>2, <2>3, <2>4, <2>5, <2>6 DEF Next
<1>. QED  BY <1>1, <1>2, PTL DEF Spec

-----------------------------------------------------------------------------
(* Order and ownership.                                                    *)

\* accept returns each connection once, and a worker serves what it took.
Distinct == \A i, j \in 1..Len(accepted) : accepted[i] = accepted[j] => i = j
HeldWereServed == \A p \in serves : IsIn(served, p[2])

OrderInv == ServedInOrder /\ Distinct /\ HeldWereServed /\ OneClientPerWorker

\* Steps that touch neither the queue nor who is served keep the order.
LEMMA OrderKept ==
    ASSUME ServedInOrder, Distinct, HeldWereServed,
           UNCHANGED <<clientQueue, serves, accepted, served>>
    PROVE  ServedInOrder' /\ Distinct' /\ HeldWereServed'
<1>1. ServedInOrder'
  BY DEF ServedInOrder
<1>2. Distinct'
  BY DEF Distinct
<1>3. HeldWereServed'
  BY DEF HeldWereServed, IsIn
<1>. QED  BY <1>1, <1>2, <1>3

\* Appending to the queue appends to all that was taken and waits.
LEMMA AppendOfConcat ==
    ASSUME served \in Seq(Clients), clientQueue \in Seq(Clients), NEW c \in Clients
    PROVE  Append(served \o clientQueue, c) = served \o Append(clientQueue, c)
<1>. DEFINE left == Append(served \o clientQueue, c)
            right == served \o Append(clientQueue, c)
<1>1. left \in Seq(Clients) /\ right \in Seq(Clients)
  OBVIOUS
<1>2. Len(left) = Len(right)
  OBVIOUS
<1>3. \A i \in 1..Len(left) : left[i] = right[i]
  OBVIOUS
<1>. HIDE DEF left, right
<1>4. left = right
  BY <1>1, <1>2, <1>3, SeqEqual
<1>. QED  BY <1>4 DEF left, right

\* Clients are taken in the order of accept, by one worker each, and a worker is
\* never in two places.
LEMMA OrderInvariant == Spec => []OrderInv
<1>1. Init => OrderInv
  BY DEF Init, OrderInv, ServedInOrder, Distinct, HeldWereServed, OneClientPerWorker, Busy
<1>2. TypeOK /\ OrderInv /\ [Next]_vars => OrderInv'
  <2>. SUFFICES ASSUME TypeOK, OrderInv, [Next]_vars PROVE OrderInv'
    OBVIOUS
  <2>0. /\ clientQueue \in Seq(Clients) /\ accepted \in Seq(Clients) /\ served \in Seq(Clients)
        /\ serves \subseteq Workers \X Clients /\ ready \subseteq Workers /\ sleeping \subseteq Workers
    BY DEF TypeOK
  <2>. USE DEF OrderInv
  <2>1. ASSUME NEW c \in Clients, Accept(c) PROVE OrderInv'
    <3>1. accepted' = served' \o clientQueue'
      <4>1. accepted' = Append(served \o clientQueue, c)
        BY <2>1 DEF Accept, ServedInOrder
      <4>2. served' = served /\ clientQueue' = Append(clientQueue, c)
        BY <2>1 DEF Accept
      <4>3. Append(served \o clientQueue, c) = served \o Append(clientQueue, c)
        BY <2>0, AppendOfConcat
      <4>. QED  BY <4>1, <4>2, <4>3
    <3>2. Distinct'
      BY <2>0, <2>1 DEF Accept, Distinct, IsIn
    <3>3. HeldWereServed'
      BY <2>1 DEF Accept, HeldWereServed, IsIn
    <3>4. Busy' = Busy
      BY <2>1 DEF Accept, Busy
    <3>5. OneClientPerWorker'
      BY <2>1, <3>4 DEF Accept, OneClientPerWorker
    <3>. QED  BY <3>1, <3>2, <3>3, <3>5 DEF ServedInOrder
  <2>2. ASSUME NEW w \in Workers, WakeUp(w) PROVE OrderInv'
    <3>1. ServedInOrder' /\ Distinct' /\ HeldWereServed'
      BY <2>2, OrderKept DEF OrderInv, WakeUp
    <3>2. Busy' = Busy
      BY <2>2 DEF WakeUp, Busy
    <3>. QED  BY <2>2, <3>1, <3>2 DEF WakeUp, OneClientPerWorker
  <2>3. ASSUME NEW w \in Workers, Take(w) PROVE OrderInv'
    <3>. DEFINE h == Head(clientQueue)
    <3>1. /\ clientQueue # <<>> /\ clientQueue' = Tail(clientQueue)
          /\ ready' = ready \ {w} /\ w \in ready
          /\ serves' = serves \cup {<<w, h>>}
          /\ served' = Append(served, h)
          /\ sleeping' = sleeping /\ accepted' = accepted
      BY <2>3 DEF Take
    <3>2. h \in Clients /\ clientQueue = <<h>> \o Tail(clientQueue)
      BY <2>0, <3>1
    <3>3. ServedInOrder'
      BY <2>0, <3>1, <3>2 DEF ServedInOrder
    <3>4. Distinct'
      BY <3>1 DEF Distinct
    <3>5. \A i \in 1..Len(served) : served'[i] = served[i]
      BY <2>0, <3>1, <3>2
    <3>6. Len(served') = Len(served) + 1 /\ served'[Len(served) + 1] = h
      BY <2>0, <3>1, <3>2
    <3>7. HeldWereServed'
      <4>. SUFFICES ASSUME NEW p \in serves' PROVE \E i \in 1..Len(served') : served'[i] = p[2]
        BY DEF HeldWereServed, IsIn
      <4>1. CASE p \in serves
        <5>1. PICK i \in 1..Len(served) : served[i] = p[2]
          BY <4>1 DEF HeldWereServed, IsIn
        <5>. QED  BY <2>0, <3>5, <3>6, <5>1
      <4>2. CASE p = <<w, h>>
        BY <2>0, <3>6, <4>2
      <4>. QED  BY <3>1, <4>1, <4>2
    <3>8. accepted[Len(served) + 1] = h /\ Len(served) + 1 \in 1..Len(accepted)
      BY <2>0, <3>1 DEF ServedInOrder
    <3>9. \A i \in 1..Len(served) : accepted[i] = served[i] /\ i \in 1..Len(accepted)
      BY <2>0 DEF ServedInOrder
    <3>10. \A i \in 1..Len(served) : served[i] # h
      BY <2>0, <3>8, <3>9 DEF Distinct
    <3>11. \A p \in serves : p[2] # h
      BY <3>10 DEF HeldWereServed, IsIn
    <3>12. Busy' = Busy \cup {w} /\ w \notin Busy
      <4>1. <<w, h>>[1] = w
        OBVIOUS
      <4>2. Busy' = Busy \cup {w}
        BY <3>1, <4>1 DEF Busy
      <4>. QED  BY <3>1, <4>2 DEF OneClientPerWorker
    <3>13. \A p \in serves : p[1] # w
      BY <3>12 DEF Busy
    <3>14. OneClientPerWorker'
      <4>1. ready' \cap sleeping' = {} /\ Busy' \cap (ready' \cup sleeping') = {}
        BY <2>0, <3>1, <3>12 DEF OneClientPerWorker
      <4>2. <<w, h>>[1] = w /\ <<w, h>>[2] = h
        OBVIOUS
      <4>3. \A p, q \in serves' : p[1] = q[1] \/ p[2] = q[2] => p = q
        BY <3>1, <3>11, <3>13, <4>2 DEF OneClientPerWorker
      <4>. QED  BY <4>1, <4>3 DEF OneClientPerWorker
    <3>. QED  BY <3>3, <3>4, <3>7, <3>14
  <2>4. ASSUME NEW w \in Workers, Sleep(w) PROVE OrderInv'
    <3>0. UNCHANGED <<clientQueue, serves, accepted, served>>
      BY <2>4 DEF Sleep
    <3>1. ServedInOrder' /\ Distinct' /\ HeldWereServed'
      BY <3>0, OrderKept DEF OrderInv
    <3>2. Busy' = Busy
      BY <2>4 DEF Sleep, Busy
    <3>. QED  BY <2>4, <3>1, <3>2 DEF Sleep, OneClientPerWorker
  <2>5. ASSUME NEW w \in Workers, Finish(w) PROVE OrderInv'
    <3>1. ServedInOrder' /\ Distinct' /\ HeldWereServed'
      BY <2>5 DEF Finish, ServedInOrder, Distinct, HeldWereServed, IsIn
    <3>2. Busy' = Busy \ {w}
      BY <2>5 DEF Finish, Busy
    <3>. QED  BY <2>5, <3>1, <3>2 DEF Finish, OneClientPerWorker
  <2>6. CASE UNCHANGED vars
    <3>1. ServedInOrder' /\ Distinct' /\ HeldWereServed'
      BY <2>6, OrderKept DEF OrderInv, vars
    <3>. QED  BY <2>6, <3>1 DEF vars, OneClientPerWorker, Busy
  <2>. QED  BY <2>1, <2>2, <2>3, <2>4, <2>5, <2>6 DEF Next
<1>. QED  BY <1>1, <1>2, TypeCorrect, PTL DEF Spec

\* Clients are served in the order in which they were accepted, each once.
THEOREM ServedInAcceptOrder == Spec => []ServedInOrder
<1>. OrderInv => ServedInOrder
  BY DEF OrderInv
<1>. QED  BY OrderInvariant, PTL

\* No worker is in two places and no client with two workers.
THEOREM Ownership == Spec => []OneClientPerWorker
<1>. OrderInv => OneClientPerWorker
  BY DEF OrderInv
<1>. QED  BY OrderInvariant, PTL

-----------------------------------------------------------------------------
(* Signals.                                                                *)

\* One worker more, or one less, in a finite set of them.
LEMMA CountReady ==
    ASSUME NEW S, S \subseteq Workers, NEW w \in Workers
    PROVE  /\ IsFiniteSet(S) /\ Cardinality(S) \in Nat
           /\ w \notin S => Cardinality(S \cup {w}) = Cardinality(S) + 1
           /\ w \in S => Cardinality(S \ {w}) = Cardinality(S) - 1
<1>1. IsFiniteSet(S)
  BY FS_Subset, WorkerPoolAssumption DEF WorkerPoolAssumption
<1>. QED  BY <1>1, FS_CardinalityType, FS_AddElement, FS_RemoveElement

\* No signal is lost: a sleeping worker is never the only one that could take the
\* next client.
THEOREM SignalsSuffice == Spec => []NoLostWakeup
<1>1. Init => NoLostWakeup
  BY DEF Init, NoLostWakeup
<1>2. TypeOK /\ OneClientPerWorker /\ NoLostWakeup /\ [Next]_vars => NoLostWakeup'
  <2>. SUFFICES ASSUME TypeOK, OneClientPerWorker, NoLostWakeup, [Next]_vars
                PROVE  NoLostWakeup'
    OBVIOUS
  <2>0. clientQueue \in Seq(Clients) /\ ready \subseteq Workers /\ sleeping \subseteq Workers
    BY DEF TypeOK
  <2>1. ASSUME NEW c \in Clients, Accept(c) PROVE NoLostWakeup'
    <3>1. Len(clientQueue') = Len(clientQueue) + 1
      BY <2>0, <2>1 DEF Accept
    <3>2. CASE sleeping = {}
      BY <2>1, <3>2 DEF Accept, NoLostWakeup
    <3>3. ASSUME NEW w \in sleeping, ready' = ready \cup {w}
          PROVE  NoLostWakeup'
      <4>1. w \notin ready /\ w \in Workers
        BY <2>0 DEF OneClientPerWorker
      <4>. QED  BY <2>0, <3>1, <3>3, <4>1, CountReady DEF NoLostWakeup
    <3>. QED  BY <2>1, <3>2, <3>3 DEF Accept
  <2>2. ASSUME NEW w \in Workers, WakeUp(w) PROVE NoLostWakeup'
    <3>1. w \notin ready /\ w \in sleeping /\ ready' = ready \cup {w} /\ clientQueue' = clientQueue
      BY <2>2 DEF WakeUp, OneClientPerWorker
    <3>. QED  BY <2>0, <3>1, CountReady DEF NoLostWakeup
  <2>3. ASSUME NEW w \in Workers, Take(w) PROVE NoLostWakeup'
    <3>1. /\ w \in ready /\ ready' = ready \ {w} /\ sleeping' = sleeping
          /\ Len(clientQueue') = Len(clientQueue) - 1
      BY <2>0, <2>3 DEF Take
    <3>. QED  BY <2>0, <3>1, CountReady DEF NoLostWakeup
  <2>4. ASSUME NEW w \in Workers, Sleep(w) PROVE NoLostWakeup'
    <3>1. Len(clientQueue') = 0 /\ ready' \subseteq Workers
      BY <2>0, <2>4 DEF Sleep
    <3>2. Cardinality(ready') \in Nat
      BY <3>1, CountReady
    <3>. QED  BY <3>1, <3>2 DEF NoLostWakeup
  <2>5. ASSUME NEW w \in Workers, Finish(w) PROVE NoLostWakeup'
    <3>1. /\ w \notin ready /\ ready' = ready \cup {w}
          /\ clientQueue' = clientQueue /\ sleeping' = sleeping
      BY <2>5 DEF Finish, OneClientPerWorker
    <3>. QED  BY <2>0, <3>1, CountReady DEF NoLostWakeup
  <2>6. CASE UNCHANGED vars
    BY <2>6 DEF vars, NoLostWakeup
  <2>. QED  BY <2>1, <2>2, <2>3, <2>4, <2>5, <2>6 DEF Next
<1>. QED  BY <1>1, <1>2, TypeCorrect, Ownership, PTL DEF Spec
=============================================================================
