------------------------------ MODULE WorkerPool ------------------------------
(***************************************************************************)
(* The thread pool of the servers LAB3 to LAB6, as in LAB6/server.cpp: the *)
(* accept loop of main pushes sockets to clientQueue and signals           *)
(* queueCond, THREAD_COUNT workers pop them.  A worker stays with its      *)
(* client until handleClient returns, that is until the client leaves.     *)
(*                                                                         *)
(* A critical section of queueMutex is one step.  pthread_cond_wait        *)
(* releases the mutex and sleeps in one step; a woken worker has to take   *)
(* the mutex again and looks at the queue again, and may find it empty.    *)
(***************************************************************************)
EXTENDS Naturals, Sequences, FiniteSets

CONSTANTS
    Workers,        \* THREAD_COUNT of them, 10 in the program
    Clients         \* the connections that come in, each once

ASSUME WorkerPoolAssumption == IsFiniteSet(Workers)

VARIABLES
    clientQueue,    \* accepted and waiting for a worker
    ready,          \* workers about to look at the queue
    sleeping,       \* workers in pthread_cond_wait, not signalled
    serves,         \* of each busy worker, its client: a set of pairs
    accepted,       \* observed: clients in the order of accept
    served          \* observed: clients in the order in which workers took them

vars == <<clientQueue, ready, sleeping, serves, accepted, served>>

Busy == {p[1] : p \in serves}

TypeOK ==
    /\ clientQueue \in Seq(Clients)
    /\ ready \subseteq Workers
    /\ sleeping \subseteq Workers
    /\ serves \subseteq Workers \X Clients
    /\ accepted \in Seq(Clients)
    /\ served \in Seq(Clients)

Init ==
    /\ clientQueue = <<>>
    /\ ready = Workers
    /\ sleeping = {}
    /\ serves = {}
    /\ accepted = <<>>
    /\ served = <<>>

IsIn(s, c) == \E i \in 1..Len(s) : s[i] = c

-----------------------------------------------------------------------------
\* The signal is given only to a queue that was empty.
AcceptSignalsWhenEmpty(c) ==
    /\ ~IsIn(accepted, c)
    /\ accepted' = Append(accepted, c)
    /\ clientQueue' = Append(clientQueue, c)
    /\ IF clientQueue = <<>> /\ sleeping # {}
       THEN \E w \in sleeping : sleeping' = sleeping \ {w} /\ ready' = ready \cup {w}
       ELSE UNCHANGED <<ready, sleeping>>
    /\ UNCHANGED <<serves, served>>

\* No signal at all.
AcceptWithoutSignal(c) ==
    /\ ~IsIn(accepted, c)
    /\ accepted' = Append(accepted, c)
    /\ clientQueue' = Append(clientQueue, c)
    /\ UNCHANGED <<ready, sleeping, serves, served>>

\* The accept loop: pthread_cond_signal wakes one sleeping worker, if there is
\* one; otherwise it has no effect.
Accept(c) ==
    /\ ~IsIn(accepted, c)
    /\ accepted' = Append(accepted, c)
    /\ clientQueue' = Append(clientQueue, c)
    /\ \/ \E w \in sleeping : sleeping' = sleeping \ {w} /\ ready' = ready \cup {w}
       \/ sleeping = {} /\ UNCHANGED <<ready, sleeping>>
    /\ UNCHANGED <<serves, served>>

\* pthread_cond_wait may return without a signal.
WakeUp(w) ==
    /\ w \in sleeping
    /\ sleeping' = sleeping \ {w}
    /\ ready' = ready \cup {w}
    /\ UNCHANGED <<clientQueue, serves, accepted, served>>

\* The last client of the queue in place of the first.
TakeNewest(w) ==
    /\ w \in ready
    /\ clientQueue # <<>>
    /\ clientQueue' = SubSeq(clientQueue, 1, Len(clientQueue) - 1)
    /\ ready' = ready \ {w}
    /\ serves' = serves \cup {<<w, clientQueue[Len(clientQueue)]>>}
    /\ served' = Append(served, clientQueue[Len(clientQueue)])
    /\ UNCHANGED <<sleeping, accepted>>

\* front without pop.
TakeWithoutPop(w) ==
    /\ w \in ready
    /\ clientQueue # <<>>
    /\ ready' = ready \ {w}
    /\ serves' = serves \cup {<<w, Head(clientQueue)>>}
    /\ served' = Append(served, Head(clientQueue))
    /\ UNCHANGED <<clientQueue, sleeping, accepted>>

\* worker with a client in the queue: front, pop, handleClient begins.
Take(w) ==
    /\ w \in ready
    /\ clientQueue # <<>>
    /\ clientQueue' = Tail(clientQueue)
    /\ ready' = ready \ {w}
    /\ serves' = serves \cup {<<w, Head(clientQueue)>>}
    /\ served' = Append(served, Head(clientQueue))
    /\ UNCHANGED <<sleeping, accepted>>

\* worker with an empty queue.
Sleep(w) ==
    /\ w \in ready
    /\ clientQueue = <<>>
    /\ ready' = ready \ {w}
    /\ sleeping' = sleeping \cup {w}
    /\ UNCHANGED <<clientQueue, serves, accepted, served>>

\* handleClient returns: its client has left, or was refused.
Finish(w) ==
    /\ w \in Busy
    /\ serves' = {p \in serves : p[1] # w}
    /\ ready' = ready \cup {w}
    /\ UNCHANGED <<clientQueue, sleeping, accepted, served>>

-----------------------------------------------------------------------------
WorkerStep(w) == Take(w) \/ Sleep(w)

Next ==
    \/ \E c \in Clients : Accept(c)
    \/ \E w \in Workers : WakeUp(w) \/ Take(w) \/ Sleep(w) \/ Finish(w)

Spec == Init /\ [][Next]_vars

\* A worker that is neither asleep nor busy runs on.  That clients leave is an
\* assumption about users, made only where a property names it.
WorkersRun == \A w \in Workers : WF_vars(WorkerStep(w))
ClientsLeave == \A w \in Workers : WF_vars(Finish(w))

FairSpec == Spec /\ WorkersRun

-----------------------------------------------------------------------------
(* Properties.                                                             *)

\* While a worker sleeps there are at least as many workers about to look at the
\* queue as clients in it: no signal is lost although it reaches only a worker
\* that sleeps, and one that was woken may find the queue emptied by another.
NoLostWakeup == sleeping # {} => Len(clientQueue) <= Cardinality(ready)

\* Each worker is in one place, and no two hold the same client.
OneClientPerWorker ==
    /\ ready \cap sleeping = {}
    /\ Busy \cap (ready \cup sleeping) = {}
    /\ \A p, q \in serves : p[1] = q[1] \/ p[2] = q[2] => p = q

\* Clients are served in the order they were accepted, each once; one that is
\* not yet served is in the queue.
ServedInOrder == accepted = served \o clientQueue

\* If clients leave, every accepted client is served.
EveryClientServed ==
    ClientsLeave => \A c \in Clients : IsIn(accepted, c) ~> IsIn(served, c)

\* Even if no client ever leaves, the pool takes on clients until every worker is
\* busy: no client waits beside an idle worker for good.
NoWorkerIdlesForever ==
    (clientQueue # <<>> /\ Busy # Workers) ~> (clientQueue = <<>> \/ Busy = Workers)
=============================================================================
