----------------------- MODULE SessionRegistry_proofs -----------------------
(***************************************************************************)
(* Proofs about SessionRegistry, for all three servers and any number of   *)
(* connections, nicknames and descriptors.                                 *)
(***************************************************************************)
EXTENDS SessionRegistry, Subsequences_proofs

\* A handler on its way to somebody's socket knows whose.
TargetKnown == \A c \in Conns : pc[c] = "toPrivate" => target[c] \in Conns

TypeInv == TypeOK /\ TargetKnown

\* Every reachable state is well typed.
THEOREM TypeCorrect == Spec => []TypeOK
<1>. USE SessionRegistryAssumption
<1>1. Init => TypeInv
  BY DEF Init, TypeInv, TargetKnown, TypeOK, Jobs, Phases
<1>2. TargetKnown /\ TypeOK /\ [Next]_vars => TargetKnown'
  <2>. SUFFICES ASSUME TargetKnown, TypeOK, [Next]_vars PROVE TargetKnown'
    OBVIOUS
  <2>. USE DEF TargetKnown, Enter, StartJob, kernelVars, lockVars, loopVars, wireVars
  <2>0. pc \in [Conns -> Phases] /\ target \in [Conns -> Conns \cup {None}]
    BY DEF TypeOK
  <2>1. ASSUME NEW c \in Conns, LookUp(c) PROVE TargetKnown'
    BY <2>0, <2>1 DEF LookUp
  <2>2. ASSUME NEW c \in Conns, SendPrivate(c) PROVE TargetKnown'
    <3>1. pc' = [pc EXCEPT ![c] = "toTell"] \/ pc' = [pc EXCEPT ![c] = "serving"]
      BY <2>2 DEF SendPrivate
    <3>2. target' = [target EXCEPT ![c] = None]
      BY <2>2 DEF SendPrivate
    <3>. QED  BY <2>0, <3>1, <3>2
  <2>3. ASSUME NEW c \in Conns, NEW next, next # "toPrivate",
               pc' = [pc EXCEPT ![c] = next] \/ pc' = pc, target' = target
        PROVE  TargetKnown'
    BY <2>0, <2>3
  <2>4. ASSUME NEW c \in Conns,
               \/ Accept(c) \/ Refuse(c) \/ TakeText(c) \/ TakeList(c) \/ LookUpInVain(c)
               \/ AnnounceList(c) \/ TakeOther(c) \/ LeaveLoop(c) \/ PeerReads(c) \/ PeerLeaves(c)
               \/ BlockInSend(c) \/ CheckNickname(c) \/ GreetAnyone(c) \/ AddClient(c)
               \/ ConfirmAuth(c) \/ ConfirmAuthOrGiveUp(c) \/ LockList(c)
               \/ BroadcastToNext(c) \/ ListNext(c) \/ UnlockList(c) \/ Tell(c)
               \/ RemoveClient(c) \/ CloseSocket(c) \/ CloseLast(c)
        PROVE  TargetKnown'
    <3>1. /\ target' = target
          /\ \E next \in Phases \ {"toPrivate"} : pc' = [pc EXCEPT ![c] = next] \/ pc' = pc
      BY <2>4 DEF AnnounceList, Accept, Refuse, TakeText, TakeList, LookUpInVain, TakeOther, LeaveLoop,
           PeerReads, PeerLeaves, BlockInSend, CheckNickname, GreetAnyone, AddClient,
           ConfirmAuth, ConfirmAuthOrGiveUp, LockList, BroadcastToNext, ListNext, UnlockList,
           Tell, RemoveClient, CloseSocket, CloseLast, Phases, InSession
    <3>. QED  BY <2>3, <3>1
  <2>5. CASE UNCHANGED vars
    BY <2>5 DEF vars
  <2>. QED  BY <2>1, <2>2, <2>4, <2>5 DEF Next, Work
<1>3. TargetKnown /\ TypeOK /\ [Next]_vars => TypeOK'
  <2>. SUFFICES ASSUME TargetKnown, TypeOK, [Next]_vars PROVE TypeOK'
    OBVIOUS
  <2>. USE DEF TypeOK, Jobs, Phases, InSession, Enter, StartJob, kernelVars, lockVars,
               loopVars, wireVars
  <2>a. SendBuffer \in Nat
    OBVIOUS
  <2>b. \A k \in 0..SendBuffer : k < SendBuffer => k + 1 \in 0..SendBuffer
    BY <2>a
  <2>0. ASSUME NEW f
        PROVE  Room(f) =>
                 (IF owner[f] \in peerUp \cap Slow
                  THEN [unread EXCEPT ![owner[f]] = @ + 1] ELSE unread)
                     \in [Conns -> 0..SendBuffer]
    <3>. SUFFICES ASSUME Room(f), owner[f] \in peerUp \cap Slow
                  PROVE  [unread EXCEPT ![owner[f]] = @ + 1] \in [Conns -> 0..SendBuffer]
      OBVIOUS
    <3>. DEFINE d == owner[f]
    <3>1. d \in Conns /\ unread[d] \in 0..SendBuffer /\ unread[d] < SendBuffer
      BY DEF Room
    <3>. HIDE DEF d
    <3>2. unread[d] + 1 \in 0..SendBuffer
      BY <2>b, <3>1
    <3>3. [unread EXCEPT ![d] = @ + 1] \in [Conns -> 0..SendBuffer]
      BY <3>1, <3>2
    <3>. QED  BY <3>3 DEF d
  <2>1. ASSUME NEW h \in Conns, NEW f, Transmit(h, f)
        PROVE  unread' \in [Conns -> 0..SendBuffer] /\ sendMutex' \in Conns \cup {None}
    BY <2>0, <2>1 DEF Transmit
  <2>2. ASSUME NEW h \in Conns, Close(h)
        PROVE  /\ unread' \in [Conns -> 0..SendBuffer]
               /\ owner' \in [Fds -> Conns \cup {None}]
               /\ peerUp' \in SUBSET Conns
               /\ heard' \in [Conns -> Nat]
    <3>1. 0 \in 0..SendBuffer /\ 0 \in Nat
      OBVIOUS
    <3>2. unread' \in [Conns -> 0..SendBuffer] /\ heard' \in [Conns -> Nat]
      BY <2>2, <3>1 DEF Close
    <3>3. owner' \in [Fds -> Conns \cup {None}] /\ peerUp' \in SUBSET Conns
      BY <2>2 DEF Close
    <3>. QED  BY <3>2, <3>3
  <2>3. ASSUME NEW h \in Conns, pc[h] = "iterating", todo[h] # <<>>
        PROVE  Head(todo[h]) \in Conns /\ [todo EXCEPT ![h] = Tail(@)] \in [Conns -> Seq(Conns)]
    <3>1. todo[h] \in Seq(Conns)
      OBVIOUS
    <3>2. Head(todo[h]) \in Conns /\ Tail(todo[h]) \in Seq(Conns)
      BY <2>3, <3>1, HeadTailProperties
    <3>. QED  BY <3>2
  <2>4. ASSUME NEW c \in Conns, Accept(c) PROVE TypeOK'
    <3>1. fd' \in [Conns -> Fds \cup {0}] /\ owner' \in [Fds -> Conns \cup {None}]
      BY <2>4 DEF Accept
    <3>2. pc' \in [Conns -> Phases] /\ peerUp' \in SUBSET Conns
      BY <2>4 DEF Accept
    <3>. QED  BY <2>4, <3>1, <3>2 DEF Accept
  <2>5. ASSUME NEW c \in Conns, Refuse(c) PROVE TypeOK'
    BY <2>2, <2>5 DEF Refuse
  <2>6. ASSUME NEW c \in Conns, TakeText(c) \/ TakeList(c) \/ LookUpInVain(c) \/ TakeOther(c)
                               \/ LeaveLoop(c)
        PROVE  TypeOK'
    BY <2>6, ZenonT(60) DEF TakeText, TakeList, LookUpInVain, TakeOther, LeaveLoop, Command
  <2>7. ASSUME NEW c \in Conns, AnnounceList(c) PROVE TypeOK'
    BY <2>1, <2>7 DEF AnnounceList, Answer
  <2>8. ASSUME NEW c \in Conns, LookUp(c) PROVE TypeOK'
    <3>1. target' \in [Conns -> Conns \cup {None}]
      BY <2>8 DEF LookUp
    <3>2. pc' \in [Conns -> Phases] /\ toTalk' \in SUBSET Conns
      BY <2>8 DEF LookUp, Command
    <3>. QED  BY <2>8, <3>1, <3>2 DEF LookUp
  <2>9. ASSUME NEW c \in Conns, PeerReads(c) PROVE TypeOK'
    <3>1. unread[c] \in 0..SendBuffer /\ unread[c] > 0
      BY <2>9 DEF PeerReads
    <3>2. unread[c] - 1 \in 0..SendBuffer
      BY <2>a, <3>1, SMTT(60)
    <3>3. unread' \in [Conns -> 0..SendBuffer]
      BY <2>9, <3>2 DEF PeerReads
    <3>. QED  BY <2>9, <3>3 DEF PeerReads
  <2>10. ASSUME NEW c \in Conns, PeerLeaves(c) PROVE TypeOK'
    <3>1. 0 \in 0..SendBuffer /\ 0 \in Nat
      OBVIOUS
    <3>2. unread' \in [Conns -> 0..SendBuffer] /\ heard' \in [Conns -> Nat] /\ peerUp' \in SUBSET Conns
      BY <2>10, <3>1 DEF PeerLeaves
    <3>. QED  BY <2>10, <3>2 DEF PeerLeaves
  <2>11. ASSUME NEW c \in Conns, BlockInSend(c) PROVE TypeOK'
    BY <2>11 DEF BlockInSend
  <2>12. ASSUME NEW c \in Conns, CheckNickname(c) PROVE TypeOK'
    BY <2>12 DEF CheckNickname
  <2>13. ASSUME NEW c \in Conns, GreetAnyone(c) PROVE TypeOK'
    BY <2>13 DEF GreetAnyone
  <2>14. ASSUME NEW c \in Conns, AddClient(c) PROVE TypeOK'
    <3>1. clients' \in Seq(Conns)
      BY <2>14 DEF AddClient
    <3>2. pc' \in [Conns -> Phases]
      BY <2>14 DEF AddClient
    <3>. QED  BY <2>14, <3>1, <3>2 DEF AddClient
  <2>15. ASSUME NEW c \in Conns, ConfirmAuth(c) \/ ConfirmAuthOrGiveUp(c) PROVE TypeOK'
    <3>1. pc' \in [Conns -> Phases]
      <4>1. pc' = [pc EXCEPT ![c] = "waiting"] \/ pc' = [pc EXCEPT ![c] = "authFailed"]
        BY <2>15 DEF ConfirmAuth, ConfirmAuthOrGiveUp
      <4>. QED  BY <4>1
    <3>3. job' \in [Conns -> Jobs]
      BY <2>15 DEF ConfirmAuth, ConfirmAuthOrGiveUp
    <3>2. unread' \in [Conns -> 0..SendBuffer] /\ sendMutex' \in Conns \cup {None}
      BY <2>1, <2>15 DEF ConfirmAuth, ConfirmAuthOrGiveUp, Answer
    <3>. QED  BY <2>15, <3>1, <3>2, <3>3, ZenonT(60) DEF ConfirmAuth, ConfirmAuthOrGiveUp, Answer
  <2>16. ASSUME NEW c \in Conns, LockList(c) PROVE TypeOK'
    <3>0. aired + 1 \in Nat
      OBVIOUS
    <3>1. aired' \in Nat /\ airing' \in [Conns -> Nat]
      <4>1. CASE job[c] = "LIST"
        BY <2>16, <4>1 DEF LockList, Number
      <4>2. CASE job[c] # "LIST"
        <5>1. aired' = aired + 1 /\ airing' = [airing EXCEPT ![c] = aired + 1]
          BY <2>16, <4>2 DEF LockList, Number
        <5>. QED  BY <3>0, <5>1
      <4>. QED  BY <4>1, <4>2
    <3>2. todo' \in [Conns -> Seq(Conns)] /\ pc' \in [Conns -> Phases]
      BY <2>16 DEF LockList
    <3>. QED  BY <2>16, <3>1, <3>2 DEF LockList
  <2>17. ASSUME NEW c \in Conns, BroadcastToNext(c) PROVE TypeOK'
    <3>1. todo' \in [Conns -> Seq(Conns)]
      BY <2>3, <2>17 DEF BroadcastToNext
    <3>2. heard' \in [Conns -> Nat]
      BY <2>17 DEF BroadcastToNext
    <3>. QED  BY <2>1, <2>17, <3>1, <3>2 DEF BroadcastToNext
  <2>18. ASSUME NEW c \in Conns, ListNext(c) PROVE TypeOK'
    <3>1. todo' \in [Conns -> Seq(Conns)]
      BY <2>3, <2>18 DEF ListNext
    <3>. QED  BY <2>1, <2>18, <3>1 DEF ListNext, Answer
  <2>19. ASSUME NEW c \in Conns, UnlockList(c) PROVE TypeOK'
    BY <2>19 DEF UnlockList
  <2>20. ASSUME NEW c \in Conns, SendPrivate(c) PROVE TypeOK'
    <3>. DEFINE d == owner[fd[target[c]]]
    <3>2. strayed' = strayed \/ (d \in peerUp /\ Nick[d] # Nick[target[c]]
                                /\ strayed' = strayed \cup {<<target[c], d>>})
      BY <2>20 DEF SendPrivate
    <3>3. target[c] \in Conns
      BY <2>20 DEF SendPrivate, TargetKnown
    <3>1. strayed' \in SUBSET (Conns \X Conns)
      BY <3>2, <3>3
    <3>. QED  BY <2>1, <2>20, <3>1 DEF SendPrivate
  <2>21. ASSUME NEW c \in Conns, Tell(c) PROVE TypeOK'
    BY <2>1, <2>21 DEF Tell, Answer
  <2>22. ASSUME NEW c \in Conns, RemoveClient(c) PROVE TypeOK'
    <3>. DEFINE I == {i \in 1..Len(clients) : ~SameEntry(clients[i], c)}
    <3>1. I \in SUBSET (1..Len(clients)) /\ clients \in Seq(Conns)
      OBVIOUS
    <3>2. clients' = Pick(clients, I)
      BY <2>22 DEF RemoveClient
    <3>. HIDE DEF I
    <3>3. clients' \in Seq(Conns)
      BY <3>1, <3>2, PickEmbeds
    <3>. QED  BY <2>22, <3>3, ZenonT(60) DEF RemoveClient
  <2>23. ASSUME NEW c \in Conns, CloseSocket(c) \/ CloseLast(c) PROVE TypeOK'
    BY <2>2, <2>23 DEF CloseSocket, CloseLast
  <2>24. CASE UNCHANGED vars
    BY <2>24 DEF vars
  <2>. QED
    BY <2>4, <2>5, <2>6, <2>7, <2>8, <2>9, <2>10, <2>11, <2>12, <2>13, <2>14, <2>15,
       <2>16, <2>17, <2>18, <2>19, <2>20, <2>21, <2>22, <2>23, <2>24 DEF Next, Work
<1>. QED  BY <1>1, <1>2, <1>3, PTL DEF Spec, TypeInv

-----------------------------------------------------------------------------
(* The list of clients and the descriptors.                                *)

\* From accept to close, which LAB6 calls before its last broadcast.
Holds(c) ==
    \/ pc[c] \in {"accepted", "checked", "removed", "closing"}
    \/ Listed(c)
    \/ pc[c] \in {"waiting", "iterating"} /\ lab # 6

\* A descriptor in use belongs to the handler that uses it.
OwnDescriptor == \A c \in Conns : Holds(c) => fd[c] \in Fds /\ owner[fd[c]] = c

\* LAB3 and LAB4 do not broadcast after close.
RemovedOnlyInLab6 == \A c \in Conns : pc[c] = "removed" => lab = 6

InList(c) == \E i \in 1..Len(clients) : clients[i] = c
ListExact == \A c \in Conns : Listed(c) <=> InList(c)
NoTwice == \A i, j \in 1..Len(clients) : clients[i] = clients[j] => i = j

\* Steps of a session in between: no login, no end.
Session(c) ==
    \/ TakeText(c) \/ TakeList(c) \/ LookUp(c) \/ LookUpInVain(c) \/ TakeOther(c)
    \/ LeaveLoop(c) \/ PeerReads(c) \/ PeerLeaves(c) \/ BlockInSend(c)
    \/ ConfirmAuth(c) \/ ConfirmAuthOrGiveUp(c) \/ LockList(c) \/ BroadcastToNext(c)
    \/ AnnounceList(c) \/ ListNext(c) \/ UnlockList(c) \/ SendPrivate(c) \/ Tell(c)

\* What such a step leaves as it was.
LEMMA SessionStep ==
    ASSUME TypeOK, NEW c \in Conns, Session(c)
    PROVE  /\ UNCHANGED <<lab, fd, owner, clients, raced>>
           /\ \A d \in Conns : d # c => pc'[d] = pc[d] /\ job'[d] = job[d]
           /\ Listed(c)' <=> Listed(c)
           /\ Holds(c)' => Holds(c)
           /\ pc[c] \in {"away", "accepted", "checked", "removed"} => pc'[c] = pc[c]
           /\ pc'[c] \in {"away", "accepted", "checked", "removed"} => pc'[c] = pc[c]
<1>. USE DEF Enter, StartJob, kernelVars, lockVars, loopVars, wireVars
<1>0. pc \in [Conns -> Phases] /\ job \in [Conns -> Jobs]
  BY DEF TypeOK
<1>1. UNCHANGED <<lab, fd, owner, clients, raced>>
  BY DEF Session, AnnounceList, TakeText, TakeList, LookUp, LookUpInVain, TakeOther, LeaveLoop, PeerReads,
         PeerLeaves, BlockInSend, ConfirmAuth, ConfirmAuthOrGiveUp, LockList,
         BroadcastToNext, ListNext, UnlockList, SendPrivate, Tell
<1>. DEFINE Step(p, q, j) == pc[c] = p /\ pc' = [pc EXCEPT ![c] = q]
                             /\ job' = [job EXCEPT ![c] = j]
            Goal == /\ \A d \in Conns : d # c => pc'[d] = pc[d] /\ job'[d] = job[d]
                    /\ Listed(c)' <=> Listed(c)
                    /\ Holds(c)' => Holds(c)
                    /\ pc[c] \in {"away", "accepted", "checked", "removed"} => pc'[c] = pc[c]
                    /\ pc'[c] \in {"away", "accepted", "checked", "removed"} => pc'[c] = pc[c]
<1>2. CASE TakeText(c) \/ AnnounceList(c)
  <2>1. Step("serving", "waiting", "TEXT") \/ Step("toList", "waiting", "LIST")
    BY <1>2 DEF TakeText, AnnounceList, Command
  <2>2. Goal
    BY <1>0, <1>1, <2>1 DEF Listed, Holds, InSession
  <2>. QED  BY <1>1, <2>2
<1>3. CASE TakeList(c) \/ LookUp(c) \/ LookUpInVain(c) \/ TakeOther(c) \/ LeaveLoop(c)
           \/ SendPrivate(c) \/ Tell(c)
  <2>1. /\ job' = job
        /\ pc[c] \in {"serving", "toPrivate", "toTell"}
        /\ \E q \in {"toList", "toPrivate", "toTell", "leaving", "serving"} :
              pc' = [pc EXCEPT ![c] = q]
    BY <1>3 DEF TakeList, LookUp, LookUpInVain, TakeOther, LeaveLoop, SendPrivate, Tell, Command
  <2>2. Goal
    BY <1>0, <1>1, <2>1 DEF Listed, Holds, InSession
  <2>. QED  BY <1>1, <2>2
<1>4. CASE PeerReads(c) \/ PeerLeaves(c) \/ BlockInSend(c) \/ BroadcastToNext(c) \/ ListNext(c)
  <2>1. pc' = pc /\ job' = job
    BY <1>4 DEF PeerReads, PeerLeaves, BlockInSend, BroadcastToNext, ListNext
  <2>2. Goal
    BY <1>0, <1>1, <2>1 DEF Listed, Holds, InSession
  <2>. QED  BY <1>1, <2>2
<1>5. CASE ConfirmAuth(c) \/ ConfirmAuthOrGiveUp(c)
  <2>1. \/ Step("added", "waiting", "JOIN")
        \/ pc[c] = "added" /\ pc' = [pc EXCEPT ![c] = "authFailed"] /\ job' = job
    BY <1>5 DEF ConfirmAuth, ConfirmAuthOrGiveUp
  <2>2. Goal
    BY <1>0, <1>1, <2>1 DEF Listed, Holds, InSession
  <2>. QED  BY <1>1, <2>2
<1>6. CASE LockList(c)
  <2>1. pc[c] = "waiting" /\ pc' = [pc EXCEPT ![c] = "iterating"] /\ job' = job
    BY <1>6 DEF LockList
  <2>2. Goal
    BY <1>0, <1>1, <2>1 DEF Listed, Holds, InSession
  <2>. QED  BY <1>1, <2>2
<1>7. CASE UnlockList(c)
  <2>1. /\ pc[c] = "iterating" /\ job' = job
        /\ \/ job[c] = "LEFT" /\ lab = 6 /\ pc' = [pc EXCEPT ![c] = "gone"]
           \/ job[c] = "LEFT" /\ lab # 6 /\ pc' = [pc EXCEPT ![c] = "closing"]
           \/ job[c] # "LEFT" /\ pc' = [pc EXCEPT ![c] = "serving"]
           \/ job[c] # "LEFT" /\ pc' = [pc EXCEPT ![c] = "toTell"]
    BY <1>7 DEF UnlockList
  <2>2. Goal
    BY <1>0, <1>1, <2>1 DEF Listed, Holds, InSession
  <2>. QED  BY <1>1, <2>2
<1>. QED  BY <1>2, <1>3, <1>4, <1>5, <1>6, <1>7 DEF Session

\* A handler that is not the one that steps is where it was.
LEMMA OthersStay ==
    ASSUME NEW c \in Conns, NEW d \in Conns, d # c, UNCHANGED lab,
           pc'[d] = pc[d], job'[d] = job[d]
    PROVE  (Listed(d)' <=> Listed(d)) /\ (Holds(d)' <=> Holds(d))
BY DEF Listed, Holds

\* No step of another handler takes a descriptor away that is still in use.
LEMMA DescriptorInvariant == Spec => [](OwnDescriptor /\ RemovedOnlyInLab6)
<1>. DEFINE Inv == OwnDescriptor /\ RemovedOnlyInLab6
<1>1. Init => Inv
  BY DEF Init, OwnDescriptor, RemovedOnlyInLab6, Holds, Listed, InSession
<1>2. TypeOK /\ Inv /\ [Next]_vars => Inv'
  <2>. SUFFICES ASSUME TypeOK, Inv, [Next]_vars PROVE Inv'
    OBVIOUS
  <2>. USE DEF Enter, StartJob, kernelVars, lockVars, loopVars, wireVars
  <2>0. /\ pc \in [Conns -> Phases] /\ job \in [Conns -> Jobs] /\ fd \in [Conns -> Fds \cup {0}]
        /\ owner \in [Fds -> Conns \cup {None}]
    BY DEF TypeOK
  <2>1. ASSUME NEW c \in Conns, Session(c) PROVE Inv'
    <3>1. /\ UNCHANGED <<lab, fd, owner>>
          /\ \A d \in Conns : Holds(d)' => Holds(d)
          /\ \A d \in Conns : pc'[d] = "removed" => pc[d] = "removed"
      BY <2>1, SessionStep, OthersStay
    <3>. QED  BY <3>1 DEF OwnDescriptor, RemovedOnlyInLab6
  <2>2. ASSUME NEW c \in Conns, Accept(c) PROVE Inv'
    <3>1. /\ lab' = lab /\ job' = job /\ pc[c] = "away" /\ pc' = [pc EXCEPT ![c] = "accepted"]
      BY <2>2 DEF Accept
    <3>2. PICK f \in Fds : /\ owner[f] = None /\ fd' = [fd EXCEPT ![c] = f]
                           /\ owner' = [owner EXCEPT ![f] = c]
      BY <2>2 DEF Accept
    <3>3. fd'[c] = f /\ owner'[f] = c
      BY <2>0, <3>2
    <3>4. ASSUME NEW d \in Conns, d # c, Holds(d)' PROVE fd'[d] \in Fds /\ owner'[fd'[d]] = d
      <4>1. Holds(d)
        BY <2>0, <3>1, <3>4, OthersStay
      <4>2. fd'[d] = fd[d] /\ fd[d] \in Fds /\ owner[fd[d]] = d
        BY <2>0, <3>2, <3>4, <4>1 DEF OwnDescriptor
      <4>3. d # None
        BY SessionRegistryAssumption
      <4>. QED  BY <2>0, <3>2, <4>2, <4>3
    <3>5. OwnDescriptor'
      BY <3>3, <3>4 DEF OwnDescriptor
    <3>6. RemovedOnlyInLab6'
      BY <2>0, <3>1 DEF RemovedOnlyInLab6
    <3>. QED  BY <3>5, <3>6
  <2>3. ASSUME NEW c \in Conns, Refuse(c) \/ CloseSocket(c) \/ CloseLast(c) PROVE Inv'
    <3>1. /\ lab' = lab /\ fd' = fd /\ owner' = [owner EXCEPT ![fd[c]] = None]
          /\ pc[c] \in {"accepted", "removed", "closing"}
      BY <2>3 DEF Refuse, CloseSocket, CloseLast, Close
    <3>2. /\ \/ pc' = [pc EXCEPT ![c] = "gone"] /\ job' = job
             \/ lab = 6 /\ pc' = [pc EXCEPT ![c] = "waiting"] /\ job' = [job EXCEPT ![c] = "LEFT"]
      BY <2>3 DEF Refuse, CloseSocket, CloseLast, RemovedOnlyInLab6
    <3>3. ~Holds(c)'
      BY <2>0, <3>1, <3>2 DEF Holds, Listed, InSession
    <3>4. Holds(c)
      BY <3>1 DEF Holds
    <3>5. ASSUME NEW d \in Conns, Holds(d)' PROVE fd'[d] \in Fds /\ owner'[fd'[d]] = d
      <4>1. d # c
        BY <3>3, <3>5
      <4>2. pc'[d] = pc[d] /\ job'[d] = job[d]
        BY <2>0, <3>2, <4>1
      <4>3. Holds(d)
        BY <3>1, <3>5, <4>1, <4>2, OthersStay
      <4>4. owner[fd[d]] = d /\ owner[fd[c]] = c /\ fd[d] \in Fds
        BY <3>4, <4>3 DEF OwnDescriptor
      <4>5. fd[d] # fd[c]
        BY <4>1, <4>4
      <4>. QED  BY <2>0, <3>1, <4>4, <4>5
    <3>6. OwnDescriptor'
      BY <3>5 DEF OwnDescriptor
    <3>7. RemovedOnlyInLab6'
      BY <2>0, <3>1, <3>2 DEF RemovedOnlyInLab6
    <3>. QED  BY <3>6, <3>7
  <2>4. ASSUME NEW c \in Conns, CheckNickname(c) \/ GreetAnyone(c) \/ AddClient(c) \/ RemoveClient(c)
        PROVE  Inv'
    <3>1. UNCHANGED <<lab, fd, owner>>
      BY <2>4 DEF CheckNickname, GreetAnyone, AddClient, RemoveClient
    <3>2. \/ pc[c] = "accepted" /\ pc' = [pc EXCEPT ![c] = "checked"] /\ job' = job
          \/ pc[c] = "checked" /\ pc' = [pc EXCEPT ![c] = "serving"] /\ job' = job
          \/ pc[c] = "checked" /\ pc' = [pc EXCEPT ![c] = "added"] /\ job' = job
          \/ /\ pc[c] \in {"leaving", "authFailed"}
             /\ \/ pc' = [pc EXCEPT ![c] = "waiting"] /\ job' = [job EXCEPT ![c] = "LEFT"]
                \/ lab = 6 /\ pc' = [pc EXCEPT ![c] = "removed"] /\ job' = job
                \/ pc' = [pc EXCEPT ![c] = "closing"] /\ job' = job
      BY <2>4 DEF CheckNickname, GreetAnyone, AddClient, RemoveClient
    <3>3. Holds(c)
      BY <3>2 DEF Holds, Listed, InSession
    <3>4. \A d \in Conns : d # c => pc'[d] = pc[d] /\ job'[d] = job[d]
      BY <2>0, <3>2
    <3>5. \A d \in Conns : Holds(d)' => Holds(d)
      BY <3>1, <3>3, <3>4, OthersStay
    <3>6. OwnDescriptor'
      BY <3>1, <3>5 DEF OwnDescriptor
    <3>7. RemovedOnlyInLab6'
      BY <2>0, <3>1, <3>2 DEF RemovedOnlyInLab6
    <3>. QED  BY <3>6, <3>7
  <2>5. CASE UNCHANGED vars
    BY <2>5 DEF vars, OwnDescriptor, RemovedOnlyInLab6, Holds, Listed
  <2>. QED  BY <2>1, <2>2, <2>3, <2>4, <2>5 DEF Next, Work, Session
<1>. QED  BY <1>1, <1>2, TypeCorrect, PTL DEF Spec

\* A step that leaves the list and who is in it alone keeps the list exact.
LEMMA ListKept ==
    ASSUME ListExact, NoTwice, clients' = clients,
           \A d \in Conns : Listed(d)' <=> Listed(d)
    PROVE  ListExact' /\ NoTwice'
<1>1. \A d \in Conns : InList(d)' <=> InList(d)
  BY DEF InList
<1>. QED  BY <1>1 DEF ListExact, NoTwice

\* removeClient takes exactly the handler's own entry out.
LEMMA RemoveOwnEntry ==
    ASSUME TypeOK, OwnDescriptor, ListExact, NoTwice, NEW c \in Conns, RemoveClient(c)
    PROVE  ListExact' /\ NoTwice'
<1>. USE DEF Enter, StartJob, kernelVars, lockVars, loopVars, wireVars
<1>0. /\ pc \in [Conns -> Phases] /\ job \in [Conns -> Jobs] /\ clients \in Seq(Conns)
      /\ fd \in [Conns -> Fds \cup {0}]
  BY DEF TypeOK
<1>. DEFINE I == {i \in 1..Len(clients) : ~SameEntry(clients[i], c)}
<1>1. I \in SUBSET (1..Len(clients))
  OBVIOUS
<1>2. \A i \in 1..Len(clients) : i \in I <=> clients[i] # c
  <2>. SUFFICES ASSUME NEW i \in 1..Len(clients) PROVE i \in I <=> clients[i] # c
    OBVIOUS
  <2>1. clients[i] \in Conns
    BY <1>0
  <2>2. Listed(clients[i]) /\ Listed(c)
    <3>1. InList(clients[i])
      BY DEF InList
    <3>2. pc[c] \in {"leaving", "authFailed"}
      BY DEF RemoveClient
    <3>. QED  BY <2>1, <3>1, <3>2 DEF ListExact, Listed, InSession
  <2>3. owner[fd[clients[i]]] = clients[i] /\ owner[fd[c]] = c
    BY <2>1, <2>2 DEF OwnDescriptor, Holds
  <2>. QED  BY <2>3 DEF SameEntry
<1>3. clients' = Pick(clients, I) /\ lab' = lab
  BY DEF RemoveClient
<1>4. /\ pc[c] \in {"leaving", "authFailed"}
      /\ \/ pc' = [pc EXCEPT ![c] = "waiting"] /\ job' = [job EXCEPT ![c] = "LEFT"]
         \/ pc' = [pc EXCEPT ![c] = "removed"] /\ job' = job
         \/ pc' = [pc EXCEPT ![c] = "closing"] /\ job' = job
  BY DEF RemoveClient
<1>5. ~Listed(c)'
  BY <1>0, <1>4 DEF Listed, InSession
<1>6. \A d \in Conns : d # c => (Listed(d)' <=> Listed(d))
  <2>1. \A d \in Conns : d # c => pc'[d] = pc[d] /\ job'[d] = job[d]
    BY <1>0, <1>4
  <2>. QED  BY <1>3, <2>1, OthersStay
<1>. HIDE DEF I
<1>7. /\ Cardinality(I) \in Nat
      /\ Len(clients') = Cardinality(I)
      /\ \E f : Embeds(f, clients, I)
  BY <1>0, <1>1, <1>3, PickEmbeds
<1>8. PICK f : Embeds(f, clients, I)
  BY <1>7
<1>9. /\ \A k \in 1..Len(clients') : f[k] \in I /\ clients'[k] = clients[f[k]]
      /\ \A j, k \in 1..Len(clients') : j < k => f[j] < f[k]
      /\ \A i \in I : \E k \in 1..Len(clients') : f[k] = i
  BY <1>3, <1>7, <1>8 DEF Embeds
<1>10. NoTwice'
  <2>. SUFFICES ASSUME NEW j \in 1..Len(clients'), NEW k \in 1..Len(clients'), clients'[j] = clients'[k]
                PROVE  j = k
    BY DEF NoTwice
  <2>1. f[j] \in I /\ f[k] \in I /\ clients[f[j]] = clients[f[k]]
    BY <1>9
  <2>2. f[j] = f[k]
    BY <1>1, <2>1 DEF NoTwice
  <2>3. f[j] \in Nat
    <3>1. f[j] \in 1..Len(clients)
      BY <1>1, <2>1
    <3>. QED  BY <3>1
  <2>4. ~(j < k) /\ ~(k < j)
    BY <1>9, <2>2, <2>3
  <2>. QED  BY <1>7, <2>4
<1>11. ASSUME NEW d \in Conns PROVE Listed(d)' <=> InList(d)'
  <2>1. CASE d = c
    <3>1. \A k \in 1..Len(clients') : clients'[k] # c
      BY <1>1, <1>2, <1>9
    <3>. QED  BY <1>5, <2>1, <3>1 DEF InList
  <2>2. CASE d # c
    <3>1. InList(d)' => InList(d)
      BY <1>1, <1>9 DEF InList
    <3>2. InList(d) => InList(d)'
      <4>. SUFFICES ASSUME NEW i \in 1..Len(clients), clients[i] = d PROVE InList(d)'
        BY DEF InList
      <4>1. i \in I
        BY <1>2, <2>2
      <4>. QED  BY <1>9, <4>1 DEF InList
    <3>. QED  BY <1>6, <2>2, <3>1, <3>2 DEF ListExact
  <2>. QED  BY <2>1, <2>2
<1>. QED  BY <1>10, <1>11 DEF ListExact

\* The list holds who is logged in, each once.
LEMMA ListInvariant == Spec => [](ListExact /\ NoTwice)
<1>. DEFINE Inv == ListExact /\ NoTwice
<1>1. Init => Inv
  BY DEF Init, ListExact, NoTwice, InList, Listed, InSession
<1>2. TypeOK /\ OwnDescriptor /\ Inv /\ [Next]_vars => Inv'
  <2>. SUFFICES ASSUME TypeOK, OwnDescriptor, Inv, [Next]_vars PROVE Inv'
    OBVIOUS
  <2>. USE DEF Enter, StartJob, kernelVars, lockVars, loopVars, wireVars
  <2>0. pc \in [Conns -> Phases] /\ job \in [Conns -> Jobs] /\ clients \in Seq(Conns)
    BY DEF TypeOK
  <2>1. ASSUME NEW c \in Conns, Session(c) PROVE Inv'
    <3>1. clients' = clients /\ \A d \in Conns : Listed(d)' <=> Listed(d)
      BY <2>1, SessionStep, OthersStay
    <3>. QED  BY <3>1, ListKept
  <2>2. ASSUME NEW c \in Conns,
               Accept(c) \/ Refuse(c) \/ CheckNickname(c) \/ GreetAnyone(c)
               \/ CloseSocket(c) \/ CloseLast(c)
        PROVE  Inv'
    <3>1. clients' = clients /\ lab' = lab
      BY <2>2 DEF Accept, Refuse, CheckNickname, GreetAnyone, CloseSocket, CloseLast
    <3>2. /\ pc[c] \in {"away", "accepted", "removed", "closing"}
          /\ \/ job' = job /\ \E q \in {"accepted", "checked", "gone"} : pc' = [pc EXCEPT ![c] = q]
             \/ pc' = [pc EXCEPT ![c] = "waiting"] /\ job' = [job EXCEPT ![c] = "LEFT"]
      BY <2>2 DEF Accept, Refuse, CheckNickname, GreetAnyone, CloseSocket, CloseLast
    <3>3. ~Listed(c) /\ ~Listed(c)'
      BY <2>0, <3>2 DEF Listed, InSession
    <3>4. \A d \in Conns : d # c => pc'[d] = pc[d] /\ job'[d] = job[d]
      BY <2>0, <3>2
    <3>5. \A d \in Conns : Listed(d)' <=> Listed(d)
      BY <3>1, <3>3, <3>4, OthersStay
    <3>. QED  BY <3>1, <3>5, ListKept
  <2>3. ASSUME NEW c \in Conns, AddClient(c) PROVE Inv'
    <3>1. /\ clients' = Append(clients, c) /\ lab' = lab /\ job' = job /\ pc[c] = "checked"
          /\ pc' = [pc EXCEPT ![c] = "serving"] \/ pc' = [pc EXCEPT ![c] = "added"]
      BY <2>3 DEF AddClient
    <3>2. ~Listed(c) /\ Listed(c)'
      BY <2>0, <3>1 DEF Listed, InSession
    <3>3. \A d \in Conns : d # c => (Listed(d)' <=> Listed(d))
      <4>1. \A d \in Conns : d # c => pc'[d] = pc[d] /\ job'[d] = job[d]
        BY <2>0, <3>1
      <4>. QED  BY <3>1, <4>1, OthersStay
    <3>4. /\ Len(clients) \in Nat /\ Len(clients') = Len(clients) + 1
          /\ clients'[Len(clients) + 1] = c
          /\ \A i \in 1..Len(clients) : clients'[i] = clients[i]
      BY <2>0, <3>1, AppendProperties
    <3>5. \A i \in 1..Len(clients) : clients[i] # c
      BY <3>2 DEF ListExact, InList
    <3>6. NoTwice'
      <4>. SUFFICES ASSUME NEW i \in 1..Len(clients'), NEW j \in 1..Len(clients'),
                           clients'[i] = clients'[j], i # j
                    PROVE  FALSE
        BY DEF NoTwice
      <4>1. i \in 1..Len(clients) \/ i = Len(clients) + 1
        BY <3>4
      <4>2. j \in 1..Len(clients) \/ j = Len(clients) + 1
        BY <3>4
      <4>. QED  BY <3>4, <3>5, <4>1, <4>2 DEF NoTwice
    <3>7. \A d \in Conns : InList(d)' <=> InList(d) \/ d = c
      <4>1. \A i \in 1..Len(clients') : i \in 1..Len(clients) \/ i = Len(clients) + 1
        BY <3>4
      <4>2. (Len(clients) + 1) \in 1..Len(clients') /\ \A i \in 1..Len(clients) : i \in 1..Len(clients')
        BY <3>4
      <4>. QED  BY <3>4, <4>1, <4>2 DEF InList
    <3>8. ListExact'
      BY <3>2, <3>3, <3>7 DEF ListExact
    <3>. QED  BY <3>6, <3>8
  <2>4. ASSUME NEW c \in Conns, RemoveClient(c) PROVE Inv'
    BY <2>4, RemoveOwnEntry
  <2>5. CASE UNCHANGED vars
    BY <2>5 DEF vars, ListExact, NoTwice, InList, Listed
  <2>. QED  BY <2>1, <2>2, <2>3, <2>4, <2>5 DEF Next, Work, Session
<1>. QED  BY <1>1, <1>2, TypeCorrect, DescriptorInvariant, PTL DEF Spec

\* Whoever is served is in the list, once, under its own descriptor, although
\* removeClient goes by numbers that accept hands out again.
THEOREM ListServesEveryone == Spec => []ServedIsListed
<1>1. TypeOK /\ OwnDescriptor /\ ListExact /\ NoTwice => ServedIsListed
  <2>. SUFFICES ASSUME TypeOK, OwnDescriptor, ListExact, NoTwice PROVE ServedIsListed
    OBVIOUS
  <2>1. \A c \in Conns : Listed(c) <=> \E i \in 1..Len(clients) : clients[i] = c
    BY DEF ListExact, InList
  <2>2. ASSUME NEW i \in 1..Len(clients) PROVE owner[fd[clients[i]]] = clients[i]
    <3>1. clients[i] \in Conns
      BY DEF TypeOK
    <3>2. Listed(clients[i])
      BY <2>1, <3>1
    <3>. QED  BY <3>1, <3>2 DEF OwnDescriptor, Holds
  <2>. QED  BY <2>1, <2>2 DEF ServedIsListed, NoTwice
<1>. QED  BY <1>1, TypeCorrect, DescriptorInvariant, ListInvariant, PTL

-----------------------------------------------------------------------------
(* Nicknames.                                                              *)

\* From the test of the nickname to the end of the session.
Entered(c) == pc[c] = "checked" \/ Listed(c)

\* Two of one nickname were both between test and list.
TwinsEntered ==
    lab # 3 => \A c, d \in Conns :
        Entered(c) /\ Entered(d) /\ c # d /\ Nick[c] = Nick[d] => c \in raced

LEMMA TwinsInvariant == Spec => []TwinsEntered
<1>1. Init => TwinsEntered
  BY DEF Init, TwinsEntered, Entered, Listed, InSession
<1>2. TypeOK /\ ListExact /\ TwinsEntered /\ [Next]_vars => TwinsEntered'
  <2>. SUFFICES ASSUME TypeOK, ListExact, TwinsEntered, [Next]_vars PROVE TwinsEntered'
    OBVIOUS
  <2>. USE DEF Enter, StartJob, kernelVars, lockVars, loopVars, wireVars
  <2>0. pc \in [Conns -> Phases] /\ job \in [Conns -> Jobs]
    BY DEF TypeOK
  <2>1. ASSUME lab' = lab, raced \subseteq raced', \A d \in Conns : Entered(d)' => Entered(d)
        PROVE  TwinsEntered'
    BY <2>1 DEF TwinsEntered
  <2>2. ASSUME NEW c \in Conns, Session(c) PROVE TwinsEntered'
    <3>1. /\ lab' = lab /\ raced' = raced
          /\ \A d \in Conns : d # c => pc'[d] = pc[d] /\ job'[d] = job[d]
          /\ Listed(c)' <=> Listed(c)
          /\ pc'[c] = "checked" => pc[c] = "checked"
      BY <2>2, SessionStep
    <3>2. \A d \in Conns : Entered(d)' => Entered(d)
      BY <3>1, OthersStay DEF Entered
    <3>. QED  BY <2>1, <3>1, <3>2
  <2>3. ASSUME NEW c \in Conns, CheckNickname(c) PROVE TwinsEntered'
    <3>. DEFINE twins == {d \in Conns : pc[d] = "checked" /\ Nick[d] = Nick[c]}
    <3>1. /\ lab' = lab /\ job' = job /\ pc' = [pc EXCEPT ![c] = "checked"] /\ pc[c] = "accepted"
          /\ clients' = clients /\ NicknameFree(c)
      BY <2>3 DEF CheckNickname
    <3>2. raced' = IF twins = {} THEN raced ELSE raced \cup twins \cup {c}
      BY <2>3 DEF CheckNickname
    <3>3. \A d \in Conns : d # c => (Entered(d)' <=> Entered(d))
      <4>1. \A d \in Conns : d # c => pc'[d] = pc[d] /\ job'[d] = job[d]
        BY <2>0, <3>1
      <4>. QED  BY <3>1, <4>1, OthersStay DEF Entered
    <3>4. \A d \in Conns : Listed(d) => Nick[d] # Nick[c]
      BY <3>1 DEF NicknameFree, ListExact, InList
    <3>5. \A d \in Conns : d # c /\ Entered(d) /\ Nick[d] = Nick[c] => d \in twins
      BY <3>4 DEF Entered
    <3>6. ASSUME lab # 3, NEW a \in Conns, NEW b \in Conns, Entered(a)', Entered(b)', a # b,
                 Nick[a] = Nick[b]
          PROVE  a \in raced'
      <4>1. CASE a = c
        <5>1. b \in twins
          BY <3>3, <3>5, <3>6, <4>1
        <5>. HIDE DEF twins
        <5>. QED  BY <3>2, <4>1, <5>1
      <4>2. CASE b = c
        <5>1. a \in twins
          BY <3>3, <3>5, <3>6, <4>2
        <5>. HIDE DEF twins
        <5>. QED  BY <3>2, <5>1
      <4>3. CASE a # c /\ b # c
        <5>1. a \in raced
          BY <3>3, <3>6, <4>3 DEF TwinsEntered
        <5>. HIDE DEF twins
        <5>. QED  BY <3>2, <5>1
      <4>. QED  BY <4>1, <4>2, <4>3
    <3>. QED  BY <3>1, <3>6 DEF TwinsEntered
  <2>4. ASSUME NEW c \in Conns, GreetAnyone(c) PROVE TwinsEntered'
    BY <2>4 DEF GreetAnyone, TwinsEntered
  <2>5. ASSUME NEW c \in Conns,
               Accept(c) \/ Refuse(c) \/ AddClient(c) \/ RemoveClient(c)
               \/ CloseSocket(c) \/ CloseLast(c)
        PROVE  TwinsEntered'
    <3>1. lab' = lab /\ raced' = raced
      BY <2>5 DEF Accept, Refuse, AddClient, RemoveClient, CloseSocket, CloseLast
    <3>2. \/ job' = job /\ pc[c] = "checked" /\ \E q \in Phases : pc' = [pc EXCEPT ![c] = q]
          \/ /\ job' = job
             /\ \E q \in {"accepted", "gone", "removed", "closing"} : pc' = [pc EXCEPT ![c] = q]
          \/ pc' = [pc EXCEPT ![c] = "waiting"] /\ job' = [job EXCEPT ![c] = "LEFT"]
      BY <2>5 DEF Accept, Refuse, AddClient, RemoveClient, CloseSocket, CloseLast, Phases, InSession
    <3>3. Entered(c)' => Entered(c)
      BY <2>0, <3>2 DEF Entered, Listed, InSession
    <3>4. \A d \in Conns : d # c => pc'[d] = pc[d] /\ job'[d] = job[d]
      BY <2>0, <3>2
    <3>5. \A d \in Conns : Entered(d)' => Entered(d)
      BY <3>1, <3>3, <3>4, OthersStay DEF Entered
    <3>. QED  BY <2>1, <3>1, <3>5
  <2>6. CASE UNCHANGED vars
    BY <2>6 DEF vars, TwinsEntered, Entered, Listed
  <2>. QED  BY <2>2, <2>3, <2>4, <2>5, <2>6 DEF Next, Work, Session
<1>. QED  BY <1>1, <1>2, TypeCorrect, ListInvariant, PTL DEF Spec

\* Only the race between test and list lets two clients have one nickname.
THEOREM OnlyRacersShareNames == Spec => []TwinsRaced
<1>1. TypeOK /\ ListExact /\ NoTwice /\ TwinsEntered => TwinsRaced
  <2>. SUFFICES ASSUME TypeOK, ListExact, NoTwice, TwinsEntered, lab # 3,
                       NEW i \in 1..Len(clients), NEW j \in 1..Len(clients), i # j,
                       Nick[clients[i]] = Nick[clients[j]]
                PROVE  clients[i] \in raced
    BY DEF TwinsRaced
  <2>1. clients[i] \in Conns /\ clients[j] \in Conns
    BY SMTT(60) DEF TypeOK
  <2>3. clients[i] # clients[j]
    BY DEF NoTwice
  <2>2. Entered(clients[i]) /\ Entered(clients[j])
    BY <2>1 DEF ListExact, InList, Entered
  <2>. QED  BY <2>1, <2>2, <2>3 DEF TwinsEntered
<1>. QED  BY <1>1, TypeCorrect, ListInvariant, TwinsInvariant, PTL

-----------------------------------------------------------------------------
(* Broadcasts.                                                             *)

\* Who iterates over the list has it locked, and what is left to iterate over is
\* the end of the list as it is now.
IterationLocks == \A h \in Conns : pc[h] = "iterating" => clientsMutex = h

RestOfList ==
    \A h \in Conns : pc[h] = "iterating" =>
        /\ Len(todo[h]) <= Len(clients)
        /\ \A i \in 1..Len(todo[h]) : todo[h][i] = clients[i + (Len(clients) - Len(todo[h]))]

\* The broadcast under way is the last one begun.
Airs(h) == pc[h] = "iterating" /\ job[h] # "LIST"
AirsLast == \A h \in Conns : Airs(h) => airing[h] = aired

IterationInv == IterationLocks /\ RestOfList /\ AirsLast

\* Steps that neither change the list nor iterate over it.
Aside(c) ==
    \/ Accept(c) \/ Refuse(c) \/ TakeText(c) \/ TakeList(c) \/ LookUp(c) \/ LookUpInVain(c)
    \/ TakeOther(c) \/ LeaveLoop(c) \/ PeerReads(c) \/ PeerLeaves(c) \/ BlockInSend(c)
    \/ CheckNickname(c) \/ GreetAnyone(c) \/ ConfirmAuth(c) \/ ConfirmAuthOrGiveUp(c)
    \/ AnnounceList(c) \/ SendPrivate(c) \/ Tell(c) \/ CloseSocket(c) \/ CloseLast(c)

LEMMA AsideStep ==
    ASSUME TypeOK, NEW c \in Conns, Aside(c)
    PROVE  /\ UNCHANGED <<lab, clients, clientsMutex, todo, aired, airing>>
           /\ \A h \in Conns : /\ pc'[h] = "iterating" <=> pc[h] = "iterating"
                               /\ pc[h] = "iterating" => job'[h] = job[h]
<1>. USE DEF Enter, StartJob, kernelVars, lockVars, loopVars, wireVars
<1>0. pc \in [Conns -> Phases] /\ job \in [Conns -> Jobs]
  BY DEF TypeOK
<1>1. UNCHANGED <<lab, clients, clientsMutex, todo, aired, airing>>
  BY DEF Aside, AnnounceList, Accept, Refuse, TakeText, TakeList, LookUp, LookUpInVain, TakeOther, LeaveLoop,
         PeerReads, PeerLeaves, BlockInSend, CheckNickname, GreetAnyone, ConfirmAuth,
         ConfirmAuthOrGiveUp, SendPrivate, Tell, CloseSocket, CloseLast
<1>2. \/ pc' = pc /\ job' = job
      \/ /\ pc[c] # "iterating"
         /\ \E q \in Phases \ {"iterating"}, j \in Jobs :
               pc' = [pc EXCEPT ![c] = q] /\ (job' = job \/ job' = [job EXCEPT ![c] = j])
  <2>1. CASE Accept(c) \/ Refuse(c) \/ CheckNickname(c) \/ GreetAnyone(c) \/ CloseSocket(c)
             \/ CloseLast(c)
    BY <2>1 DEF Accept, Refuse, CheckNickname, GreetAnyone, CloseSocket, CloseLast, Phases,
                InSession, Jobs
  <2>2. CASE TakeText(c) \/ TakeList(c) \/ LookUp(c) \/ LookUpInVain(c) \/ TakeOther(c)
             \/ LeaveLoop(c)
    BY <2>2 DEF TakeText, TakeList, LookUp, LookUpInVain, TakeOther, LeaveLoop, Command, Phases,
                InSession, Jobs
  <2>3. CASE PeerReads(c) \/ PeerLeaves(c) \/ BlockInSend(c)
    BY <2>3 DEF PeerReads, PeerLeaves, BlockInSend
  <2>4. CASE AnnounceList(c) \/ ConfirmAuth(c) \/ ConfirmAuthOrGiveUp(c) \/ SendPrivate(c)
             \/ Tell(c)
    BY <2>4 DEF AnnounceList, ConfirmAuth, ConfirmAuthOrGiveUp, SendPrivate, Tell, Phases, InSession, Jobs
  <2>. QED  BY <2>1, <2>2, <2>3, <2>4 DEF Aside
<1>3. \A h \in Conns : /\ pc'[h] = "iterating" <=> pc[h] = "iterating"
                       /\ pc[h] = "iterating" => job'[h] = job[h]
  BY <1>0, <1>2
<1>. QED  BY <1>1, <1>3

\* With the mutex free nobody iterates.
LEMMA FreeMutexMeansNoIteration ==
    ASSUME IterationLocks, clientsMutex = None, NEW h \in Conns
    PROVE  pc[h] # "iterating"
BY SessionRegistryAssumption DEF IterationLocks

\* A place counted from the end of the list.
LEMMA PlaceFromEnd ==
    ASSUME NEW len \in Nat, NEW n \in Nat, n <= len, NEW i \in 1..n
    PROVE  i + (len - n) \in 1..len
OBVIOUS

LEMMA IterationInvariant == Spec => []IterationInv
<1>1. Init => IterationInv
  BY DEF Init, IterationInv, IterationLocks, RestOfList, AirsLast, Airs
<1>2. TypeOK /\ IterationInv /\ [Next]_vars => IterationInv'
  <2>. SUFFICES ASSUME TypeOK, IterationInv, [Next]_vars PROVE IterationInv'
    OBVIOUS
  <2>. USE DEF IterationInv, Enter, StartJob, kernelVars, lockVars, loopVars, wireVars
  <2>0. /\ pc \in [Conns -> Phases] /\ job \in [Conns -> Jobs] /\ clients \in Seq(Conns)
        /\ todo \in [Conns -> Seq(Conns)] /\ airing \in [Conns -> Nat]
    BY DEF TypeOK
  <2>1. ASSUME NEW c \in Conns, Aside(c) PROVE IterationInv'
    <3>1. /\ UNCHANGED <<clients, clientsMutex, todo, aired, airing>>
          /\ \A h \in Conns : /\ pc'[h] = "iterating" <=> pc[h] = "iterating"
                              /\ pc[h] = "iterating" => job'[h] = job[h]
      BY <2>1, AsideStep
    <3>. QED  BY <3>1 DEF IterationLocks, RestOfList, AirsLast, Airs
  <2>2. ASSUME NEW c \in Conns, AddClient(c) \/ RemoveClient(c) PROVE IterationInv'
    <3>1. clientsMutex = None /\ \E q \in Phases \ {"iterating"} : pc' = [pc EXCEPT ![c] = q]
      BY <2>2 DEF AddClient, RemoveClient, Phases, InSession
    <3>2. \A h \in Conns : pc'[h] # "iterating"
      BY <2>0, <3>1, FreeMutexMeansNoIteration
    <3>. QED  BY <3>2 DEF IterationLocks, RestOfList, AirsLast, Airs
  <2>3. ASSUME NEW c \in Conns, LockList(c) PROVE IterationInv'
    <3>1. /\ clientsMutex = None /\ clientsMutex' = c /\ pc' = [pc EXCEPT ![c] = "iterating"]
          /\ todo' = [todo EXCEPT ![c] = clients] /\ clients' = clients /\ job' = job
      BY <2>3 DEF LockList
    <3>2. \A h \in Conns : pc'[h] = "iterating" => h = c
      BY <2>0, <3>1, FreeMutexMeansNoIteration
    <3>3. todo'[c] = clients /\ Len(clients) \in Nat
      BY <2>0, <3>1
    <3>4. RestOfList'
      <4>1. Len(todo'[c]) <= Len(clients')
        BY <3>1, <3>3
      <4>2. ASSUME NEW i \in 1..Len(todo'[c])
            PROVE  todo'[c][i] = clients'[i + (Len(clients') - Len(todo'[c]))]
        <5>1. i + (Len(clients) - Len(clients)) = i
          BY <3>3
        <5>. QED  BY <3>1, <3>3, <5>1
      <4>. QED  BY <3>2, <4>1, <4>2 DEF RestOfList
    <3>5. AirsLast'
      <4>1. job[c] # "LIST" => aired' = aired + 1 /\ airing' = [airing EXCEPT ![c] = aired + 1]
        BY <2>3 DEF LockList, Number
      <4>2. job[c] # "LIST" => airing'[c] = aired'
        BY <2>0, <4>1
      <4>. QED  BY <3>1, <3>2, <4>2 DEF AirsLast, Airs
    <3>. QED  BY <3>1, <3>2, <3>4, <3>5 DEF IterationLocks
  <2>4. ASSUME NEW c \in Conns, BroadcastToNext(c) \/ ListNext(c) PROVE IterationInv'
    <3>1. /\ UNCHANGED <<pc, clients, clientsMutex, job, aired, airing>>
          /\ todo[c] # <<>> /\ todo' = [todo EXCEPT ![c] = Tail(@)] /\ pc[c] = "iterating"
      BY <2>4 DEF BroadcastToNext, ListNext
    <3>2. todo[c] \in Seq(Conns) /\ todo'[c] = Tail(todo[c])
      BY <2>0, <3>1
    <3>3. /\ Len(todo'[c]) = Len(todo[c]) - 1 /\ Len(todo[c]) \in Nat
          /\ \A i \in 1..Len(todo'[c]) : todo'[c][i] = todo[c][i + 1]
      <4>. DEFINE s == todo[c]
      <4>1. s \in Seq(Conns) /\ s # <<>> /\ todo'[c] = Tail(s)
        BY <3>1, <3>2
      <4>. HIDE DEF s
      <4>2. Len(Tail(s)) = Len(s) - 1 /\ \A i \in 1..Len(Tail(s)) : Tail(s)[i] = s[i + 1]
        BY <4>1, HeadTailProperties
      <4>3. Len(s) \in Nat
        BY <4>1
      <4>. QED  BY <4>1, <4>2, <4>3 DEF s
    <3>4. /\ Len(todo'[c]) <= Len(clients)
          /\ \A i \in 1..Len(todo'[c]) :
                todo'[c][i] = clients[i + (Len(clients) - Len(todo'[c]))]
      <4>1. Len(clients) \in Nat /\ Len(todo[c]) <= Len(clients)
        BY <2>0, <3>1 DEF RestOfList
      <4>2. ASSUME NEW i \in 1..Len(todo'[c])
            PROVE  todo'[c][i] = clients[i + (Len(clients) - Len(todo'[c]))]
        <5>1. i + 1 \in 1..Len(todo[c])
          BY <3>3
        <5>2. todo[c][i + 1] = clients[(i + 1) + (Len(clients) - Len(todo[c]))]
          BY <3>1, <5>1 DEF RestOfList
        <5>3. (i + 1) + (Len(clients) - Len(todo[c])) = i + (Len(clients) - Len(todo'[c]))
          BY <3>3, <4>1
        <5>. QED  BY <3>3, <5>2, <5>3
      <4>3. Len(todo'[c]) <= Len(clients)
        BY <3>3, <4>1
      <4>. QED  BY <4>2, <4>3
    <3>5. \A h \in Conns : h # c => todo'[h] = todo[h]
      BY <2>0, <3>1
    <3>6. RestOfList'
      <4>. SUFFICES ASSUME NEW h \in Conns, pc'[h] = "iterating"
                    PROVE  /\ Len(todo'[h]) <= Len(clients')
                           /\ \A i \in 1..Len(todo'[h]) :
                                 todo'[h][i] = clients'[i + (Len(clients') - Len(todo'[h]))]
        BY DEF RestOfList
      <4>1. CASE h = c
        BY <3>1, <3>4, <4>1
      <4>2. CASE h # c
        <5>1. todo'[h] = todo[h] /\ clients' = clients /\ pc[h] = "iterating"
          BY <3>1, <3>5, <4>2
        <5>. QED  BY <5>1 DEF RestOfList
      <4>. QED  BY <4>1, <4>2
    <3>7. IterationLocks' /\ AirsLast'
      BY <3>1 DEF IterationLocks, AirsLast, Airs
    <3>. QED  BY <3>6, <3>7
  <2>5. ASSUME NEW c \in Conns, UnlockList(c) PROVE IterationInv'
    <3>1. /\ pc[c] = "iterating"
          /\ \E q \in {"toTell", "gone", "closing", "serving"} : pc' = [pc EXCEPT ![c] = q]
      BY <2>5 DEF UnlockList
    <3>2. \A h \in Conns : h # c => pc[h] # "iterating"
      BY <3>1 DEF IterationLocks
    <3>3. \A h \in Conns : pc'[h] # "iterating"
      BY <2>0, <3>1, <3>2
    <3>. QED  BY <3>3 DEF IterationLocks, RestOfList, AirsLast, Airs
  <2>6. CASE UNCHANGED vars
    BY <2>6 DEF vars, IterationLocks, RestOfList, AirsLast, Airs
  <2>. QED  BY <2>1, <2>2, <2>3, <2>4, <2>5, <2>6 DEF Next, Work, Aside
<1>. QED  BY <1>1, <1>2, TypeCorrect, PTL DEF Spec

\* A client in the list for which the broadcast under way is still to come.
Awaits(c) == \E h \in Conns : Airs(h) /\ \E i \in 1..Len(todo[h]) : todo[h][i] = c

\* Nothing is heard before login and after the end, and everybody in the list has
\* heard the same last broadcast, but for those the one under way has not reached.
GoneHearNothing == \A c \in Conns : c \notin peerUp => heard[c] = 0
NewHeardNothing == \A c \in Conns : pc[c] \in {"away", "accepted", "checked"} => heard[c] = 0
AllHeard ==
    \A c \in Conns : Listed(c) /\ heard[c] # 0 =>
        IF Awaits(c) THEN heard[c] + 1 = aired ELSE heard[c] = aired

HeardInv == GoneHearNothing /\ NewHeardNothing /\ AllHeard

ListInv == OwnDescriptor /\ ListExact /\ NoTwice /\ IterationInv

\* One pass of the loop reaches a listed client that awaited the broadcast, on its
\* own socket, and nobody else's wait ends.
LEMMA BroadcastStep ==
    ASSUME TypeOK, ListInv, NEW h \in Conns, BroadcastToNext(h)
    PROVE  \E x \in Conns :
              /\ Listed(x) /\ Awaits(x)
              /\ heard' = IF x \in peerUp THEN [heard EXCEPT ![x] = aired] ELSE heard
              /\ \A d \in Conns : Awaits(d)' <=> Awaits(d) /\ d # x
<1>. USE DEF ListInv, IterationInv, kernelVars, lockVars
<1>0. /\ clients \in Seq(Conns) /\ todo \in [Conns -> Seq(Conns)] /\ Len(clients) \in Nat
  BY DEF TypeOK
<1>1. /\ UNCHANGED <<pc, job>> /\ pc[h] = "iterating" /\ job[h] # "LIST"
      /\ todo[h] # <<>> /\ todo' = [todo EXCEPT ![h] = Tail(@)]
  BY DEF BroadcastToNext
<1>2. \A g \in Conns : Airs(g) <=> g = h
  BY <1>1 DEF IterationLocks, Airs
<1>3. \A g \in Conns : Airs(g)' <=> g = h
  BY <1>1, <1>2 DEF Airs
<1>. DEFINE x == Head(todo[h])
            s == todo[h]
            n == Len(s)
<1>4. s \in Seq(Conns) /\ s # <<>>
  BY <1>0, <1>1
<1>5. x \in Conns /\ n \in Nat \ {0} /\ x = s[1] /\ todo'[h] = Tail(s)
  BY <1>0, <1>1, <1>4
<1>6. Len(Tail(s)) = n - 1 /\ \A i \in 1..(n - 1) : Tail(s)[i] = s[i + 1]
  BY <1>4, HeadTailProperties
<1>7. n <= Len(clients) /\ \A i \in 1..n : s[i] = clients[i + (Len(clients) - n)]
  BY <1>1 DEF RestOfList
<1>. HIDE DEF s, x, n
<1>8. \A i, j \in 1..n : s[i] = s[j] => i = j
  <2>. SUFFICES ASSUME NEW i \in 1..n, NEW j \in 1..n, s[i] = s[j] PROVE i = j
    OBVIOUS
  <2>. DEFINE a == i + (Len(clients) - n)
              b == j + (Len(clients) - n)
  <2>1. a \in 1..Len(clients) /\ b \in 1..Len(clients)
    <3>1. n \in Nat /\ n <= Len(clients)
      BY <1>5, <1>7
    <3>. QED  BY <1>0, <3>1, PlaceFromEnd
  <2>2. clients[a] = clients[b]
    BY <1>7
  <2>3. a = b
    BY <2>1, <2>2 DEF NoTwice
  <2>. QED  BY <1>0, <1>5, <2>3
<1>9. InList(x)
  <2>1. 1 + (Len(clients) - n) \in 1..Len(clients)
    BY <1>0, <1>5, <1>7
  <2>2. x = clients[1 + (Len(clients) - n)]
    BY <1>5, <1>7
  <2>. QED  BY <2>1, <2>2 DEF InList
<1>10. Listed(x) /\ owner[fd[x]] = x
  BY <1>5, <1>9 DEF ListExact, OwnDescriptor, Holds
<1>11. \A d : Awaits(d) <=> \E i \in 1..n : s[i] = d
  BY <1>2 DEF Awaits, s, n
<1>12. \A d : Awaits(d)' <=> \E i \in 1..(n - 1) : s[i + 1] = d
  <2>1. \A d : Awaits(d)' <=> \E i \in 1..Len(todo'[h]) : todo'[h][i] = d
    BY <1>3 DEF Awaits
  <2>. QED  BY <1>5, <1>6, <2>1
<1>13. heard' = IF x \in peerUp THEN [heard EXCEPT ![x] = aired] ELSE heard
  <2>1. airing[h] = aired
    BY <1>2 DEF AirsLast
  <2>2. heard' = IF owner[fd[x]] \in peerUp THEN [heard EXCEPT ![owner[fd[x]]] = airing[h]]
                 ELSE heard
    BY DEF BroadcastToNext, x
  <2>. QED  BY <1>10, <2>1, <2>2
<1>14. Awaits(x)
  BY <1>5, <1>11
<1>15. ASSUME NEW d \in Conns PROVE Awaits(d)' <=> Awaits(d) /\ d # x
  <2>1. ASSUME NEW i \in 1..(n - 1) PROVE i + 1 \in 1..n /\ s[i + 1] # x
    <3>1. i + 1 \in 1..n /\ 1 \in 1..n /\ i + 1 # 1
      BY <1>5
    <3>. QED  BY <1>5, <1>8, <3>1
  <2>2. ASSUME NEW i \in 1..n, s[i] # x PROVE \E j \in 1..(n - 1) : s[j + 1] = s[i]
    <3>1. i # 1
      BY <1>5, <2>2
    <3>2. i - 1 \in 1..(n - 1) /\ (i - 1) + 1 = i
      BY <1>5, <3>1
    <3>. QED  BY <3>2
  <2>. QED  BY <1>11, <1>12, <2>1, <2>2
<1>. QED  BY <1>5, <1>10, <1>13, <1>14, <1>15

\* A step that puts nothing of a broadcast on a socket keeps what was heard.
LEMMA HeardKept ==
    ASSUME HeardInv, aired' = aired,
           \A d \in Conns :
              /\ Awaits(d)' <=> Awaits(d)
              /\ heard'[d] \in {0, heard[d]}
              /\ Listed(d)' => Listed(d) \/ heard[d] = 0
              /\ d \notin peerUp' => d \notin peerUp \/ heard'[d] = 0
              /\ pc'[d] \in {"away", "accepted", "checked"} =>
                    pc[d] \in {"away", "accepted", "checked"}
    PROVE  HeardInv'
<1>1. GoneHearNothing'
  BY DEF HeardInv, GoneHearNothing
<1>2. NewHeardNothing'
  BY DEF HeardInv, NewHeardNothing
<1>3. AllHeard'
  BY DEF HeardInv, AllHeard
<1>. QED  BY <1>1, <1>2, <1>3 DEF HeardInv

LEMMA HeardInvariant == Spec => []HeardInv
<1>1. Init => HeardInv
  BY DEF Init, HeardInv, GoneHearNothing, NewHeardNothing, AllHeard
<1>2. TypeOK /\ ListInv /\ HeardInv /\ [Next]_vars => HeardInv'
  <2>. SUFFICES ASSUME TypeOK, ListInv, HeardInv, [Next]_vars PROVE HeardInv'
    OBVIOUS
  <2>. USE DEF Enter, StartJob, kernelVars, lockVars, loopVars, wireVars
  <2>0. /\ pc \in [Conns -> Phases] /\ job \in [Conns -> Jobs] /\ heard \in [Conns -> Nat]
        /\ aired \in Nat /\ clients \in Seq(Conns) /\ todo \in [Conns -> Seq(Conns)]
    BY DEF TypeOK
  <2>. DEFINE Early == {"away", "accepted", "checked"}
  <2>1. ASSUME NEW c \in Conns, Aside(c) PROVE HeardInv'
    <3>1. /\ UNCHANGED <<lab, todo, aired>>
          /\ \A h \in Conns : /\ pc'[h] = "iterating" <=> pc[h] = "iterating"
                              /\ pc[h] = "iterating" => job'[h] = job[h]
      BY <2>1, AsideStep
    <3>2. \A d : Awaits(d)' <=> Awaits(d)
      BY <3>1 DEF Awaits, Airs
    <3>3. ASSUME NEW d \in Conns PROVE Listed(d)' => Listed(d)
      <4>1. CASE Session(c)
        BY <2>1, <3>3, <4>1, SessionStep, OthersStay
      <4>2. CASE Accept(c) \/ Refuse(c) \/ CheckNickname(c) \/ GreetAnyone(c) \/ CloseSocket(c)
                 \/ CloseLast(c)
        <5>1. \/ job' = job /\ \E q \in {"accepted", "gone", "checked"} : pc' = [pc EXCEPT ![c] = q]
              \/ pc' = [pc EXCEPT ![c] = "waiting"] /\ job' = [job EXCEPT ![c] = "LEFT"]
          BY <4>2 DEF Accept, Refuse, CheckNickname, GreetAnyone, CloseSocket, CloseLast
        <5>2. ~Listed(c)'
          BY <2>0, <5>1 DEF Listed, InSession
        <5>3. d # c => pc'[d] = pc[d] /\ job'[d] = job[d]
          BY <2>0, <5>1
        <5>. QED  BY <3>1, <5>2, <5>3, OthersStay
      <4>. QED  BY <2>1, <4>1, <4>2 DEF Aside, Session
    <3>4. ASSUME NEW d \in Conns, pc'[d] \in Early PROVE pc[d] \in Early
      <4>1. CASE Session(c)
        BY <2>1, <3>4, <4>1, SessionStep
      <4>2. CASE Accept(c) \/ Refuse(c) \/ CheckNickname(c) \/ GreetAnyone(c) \/ CloseSocket(c)
                 \/ CloseLast(c)
        <5>1. \/ pc[c] \in Early /\ \E q \in Early : pc' = [pc EXCEPT ![c] = q]
              \/ \E q \in {"gone", "waiting"} : pc' = [pc EXCEPT ![c] = q]
          BY <4>2 DEF Accept, Refuse, CheckNickname, GreetAnyone, CloseSocket, CloseLast
        <5>. QED  BY <2>0, <3>4, <5>1
      <4>. QED  BY <2>1, <4>1, <4>2 DEF Aside, Session
    <3>5. \/ heard' = heard /\ peerUp \subseteq peerUp'
          \/ \E d \in Conns : heard' = [heard EXCEPT ![d] = 0] /\ peerUp' = peerUp \ {d}
      <4>1. CASE Refuse(c) \/ CloseSocket(c) \/ CloseLast(c)
        <5>1. Holds(c)
          BY <4>1 DEF Refuse, CloseSocket, CloseLast, Holds
        <5>2. owner[fd[c]] = c
          BY <5>1 DEF ListInv, OwnDescriptor
        <5>3. heard' = [heard EXCEPT ![c] = 0] /\ peerUp' = peerUp \ {c}
          BY <4>1, <5>2 DEF Refuse, CloseSocket, CloseLast, Close
        <5>. QED  BY <5>3
      <4>2. CASE PeerLeaves(c)
        BY <4>2 DEF PeerLeaves
      <4>3. CASE Accept(c)
        BY <4>3 DEF Accept
      <4>4. CASE TakeText(c) \/ TakeList(c) \/ LookUp(c) \/ LookUpInVain(c) \/ TakeOther(c) \/ LeaveLoop(c)
                 \/ PeerReads(c) \/ BlockInSend(c) \/ CheckNickname(c) \/ GreetAnyone(c)
        <5>1. heard' = heard /\ peerUp' = peerUp
          BY <4>4 DEF TakeText, TakeList, LookUp, LookUpInVain, TakeOther, LeaveLoop, PeerReads,
                 BlockInSend, CheckNickname, GreetAnyone
        <5>. QED  BY <5>1
      <4>5. CASE AnnounceList(c) \/ ConfirmAuth(c) \/ ConfirmAuthOrGiveUp(c) \/ SendPrivate(c) \/ Tell(c)
        <5>1. heard' = heard /\ peerUp' = peerUp
          BY <4>5 DEF AnnounceList, ConfirmAuth, ConfirmAuthOrGiveUp, SendPrivate, Tell, Answer
        <5>. QED  BY <5>1
      <4>. QED  BY <2>1, <4>1, <4>2, <4>3, <4>4, <4>5 DEF Aside
    <3>6. \A d \in Conns : /\ heard'[d] \in {0, heard[d]}
                           /\ d \notin peerUp' => d \notin peerUp \/ heard'[d] = 0
      BY <2>0, <3>5
    <3>. QED  BY <3>1, <3>2, <3>3, <3>4, <3>6, HeardKept
  <2>2. ASSUME NEW c \in Conns, AddClient(c) \/ RemoveClient(c) PROVE HeardInv'
    <3>1. /\ UNCHANGED <<lab, aired, heard, peerUp, todo>> /\ clientsMutex = None
          /\ \/ /\ pc[c] = "checked" /\ job' = job
                /\ \E q \in {"serving", "added"} : pc' = [pc EXCEPT ![c] = q]
             \/ /\ pc[c] \in {"leaving", "authFailed"} /\ (job' = job \/ job' = [job EXCEPT ![c] = "LEFT"])
                /\ \E q \in {"waiting", "removed", "closing"} : pc' = [pc EXCEPT ![c] = q]
      BY <2>2 DEF AddClient, RemoveClient
    <3>2. \A h \in Conns : pc[h] # "iterating"
      BY <3>1, FreeMutexMeansNoIteration DEF ListInv, IterationInv
    <3>3. \A h \in Conns : pc'[h] # "iterating"
      BY <2>0, <3>1, <3>2
    <3>4. \A d : Awaits(d)' <=> Awaits(d)
      BY <3>2, <3>3 DEF Awaits, Airs
    <3>5. \A d \in Conns : d # c => pc'[d] = pc[d] /\ job'[d] = job[d]
      BY <2>0, <3>1
    <3>6. ASSUME NEW d \in Conns PROVE Listed(d)' => Listed(d) \/ heard[d] = 0
      <4>1. CASE d # c
        BY <3>1, <3>5, <4>1, OthersStay
      <4>2. CASE d = c
        <5>1. pc[c] = "checked" => heard[c] = 0
          BY DEF HeardInv, NewHeardNothing
        <5>2. pc[c] \in {"leaving", "authFailed"} => Listed(c)
          BY DEF Listed, InSession
        <5>. QED  BY <3>1, <4>2, <5>1, <5>2
      <4>. QED  BY <4>1, <4>2
    <3>7. \A d \in Conns : pc'[d] \in Early => pc[d] \in Early
      BY <2>0, <3>1
    <3>. QED  BY <3>1, <3>4, <3>6, <3>7, HeardKept
  <2>3. ASSUME NEW c \in Conns, LockList(c) PROVE HeardInv'
    <3>1. /\ clientsMutex = None /\ pc[c] = "waiting" /\ pc' = [pc EXCEPT ![c] = "iterating"]
          /\ todo' = [todo EXCEPT ![c] = clients]
          /\ UNCHANGED <<lab, clients, job, heard, peerUp>>
      BY <2>3 DEF LockList
    <3>2. \A h \in Conns : pc[h] # "iterating"
      BY <3>1, FreeMutexMeansNoIteration DEF ListInv, IterationInv
    <3>3. \A h \in Conns : pc'[h] = "iterating" <=> h = c
      BY <2>0, <3>1, <3>2
    <3>4. \A d : ~Awaits(d)
      BY <3>2 DEF Awaits, Airs
    <3>5. \A d \in Conns : Listed(d)' <=> Listed(d)
      <4>1. Session(c)
        BY <2>3 DEF Session
      <4>. QED  BY <4>1, SessionStep, OthersStay
    <3>6. \A d \in Conns : pc'[d] \in Early => pc[d] \in Early
      BY <2>0, <3>1
    <3>7. CASE job[c] = "LIST"
      <4>1. aired' = aired
        BY <2>3, <3>7 DEF LockList, Number
      <4>2. \A d : ~Awaits(d)'
        BY <3>1, <3>3, <3>7 DEF Awaits, Airs
      <4>. QED  BY <3>1, <3>4, <3>5, <3>6, <4>1, <4>2, HeardKept
    <3>8. CASE job[c] # "LIST"
      <4>1. aired' = aired + 1
        BY <2>3, <3>8 DEF LockList, Number
      <4>2. \A d \in Conns : Awaits(d)' <=> InList(d)
        <5>1. todo'[c] = clients
          BY <2>0, <3>1
        <5>. QED  BY <3>1, <3>3, <3>8, <5>1 DEF Awaits, Airs, InList
      <4>3. \A d \in Conns : Listed(d)' => Awaits(d)'
        BY <3>5, <4>2 DEF ListInv, ListExact
      <4>4. \A d \in Conns : Listed(d) /\ heard[d] # 0 => heard[d] = aired
        BY <3>4 DEF HeardInv, AllHeard
      <4>5. AllHeard'
        BY <3>1, <3>5, <4>1, <4>3, <4>4 DEF AllHeard
      <4>6. GoneHearNothing' /\ NewHeardNothing'
        BY <3>1, <3>6 DEF HeardInv, GoneHearNothing, NewHeardNothing
      <4>. QED  BY <4>5, <4>6 DEF HeardInv
    <3>. QED  BY <3>7, <3>8
  <2>4. ASSUME NEW c \in Conns, BroadcastToNext(c) PROVE HeardInv'
    <3>1. PICK x \in Conns :
              /\ Listed(x) /\ Awaits(x)
              /\ heard' = IF x \in peerUp THEN [heard EXCEPT ![x] = aired] ELSE heard
              /\ \A d \in Conns : Awaits(d)' <=> Awaits(d) /\ d # x
      BY <2>4, BroadcastStep
    <3>2. UNCHANGED <<lab, pc, job, aired, peerUp>>
      BY <2>4 DEF BroadcastToNext
    <3>3. \A d \in Conns : Listed(d)' <=> Listed(d)
      BY <3>2 DEF Listed
    <3>4. x \notin peerUp => heard[x] = 0
      BY DEF HeardInv, GoneHearNothing
    <3>5. \A d \in Conns : d # x => heard'[d] = heard[d]
      BY <2>0, <3>1
    <3>6. heard'[x] = IF x \in peerUp THEN aired ELSE 0
      BY <2>0, <3>1, <3>4
    <3>7. AllHeard'
      <4>. SUFFICES ASSUME NEW d \in Conns, Listed(d)', heard'[d] # 0
                    PROVE  IF Awaits(d)' THEN heard'[d] + 1 = aired' ELSE heard'[d] = aired'
        BY DEF AllHeard
      <4>1. CASE d = x
        BY <3>1, <3>2, <3>6, <4>1
      <4>2. CASE d # x
        <5>1. Listed(d) /\ heard[d] # 0 /\ heard'[d] = heard[d] /\ (Awaits(d)' <=> Awaits(d))
          BY <3>1, <3>3, <3>5, <4>2
        <5>. QED  BY <3>2, <5>1 DEF HeardInv, AllHeard
      <4>. QED  BY <4>1, <4>2
    <3>8. GoneHearNothing'
      BY <3>2, <3>5, <3>6 DEF HeardInv, GoneHearNothing
    <3>9. NewHeardNothing'
      <4>1. pc[x] \notin Early
        BY <3>1 DEF Listed, InSession
      <4>. QED  BY <3>2, <3>5, <4>1 DEF HeardInv, NewHeardNothing
    <3>. QED  BY <3>7, <3>8, <3>9 DEF HeardInv
  <2>5. ASSUME NEW c \in Conns, ListNext(c) PROVE HeardInv'
    <3>1. /\ UNCHANGED <<lab, pc, job, aired, peerUp, heard>>
          /\ todo' = [todo EXCEPT ![c] = Tail(@)] /\ job[c] = "LIST"
      BY <2>5 DEF ListNext, Answer
    <3>2. \A h \in Conns : /\ Airs(h)' <=> Airs(h)
                           /\ Airs(h) => todo'[h] = todo[h]
      BY <2>0, <3>1 DEF Airs
    <3>3. \A d : Awaits(d)' <=> Awaits(d)
      BY <3>2 DEF Awaits
    <3>4. \A d \in Conns : Listed(d)' <=> Listed(d)
      BY <3>1 DEF Listed
    <3>. QED  BY <3>1, <3>3, <3>4, HeardKept
  <2>6. ASSUME NEW c \in Conns, UnlockList(c) PROVE HeardInv'
    <3>1. /\ UNCHANGED <<lab, job, aired, peerUp, heard, todo>>
          /\ todo[c] = <<>> /\ pc[c] = "iterating"
          /\ \E q \in {"toTell", "gone", "closing", "serving"} : pc' = [pc EXCEPT ![c] = q]
      BY <2>6 DEF UnlockList
    <3>2. \A h \in Conns : h # c => (Airs(h)' <=> Airs(h))
      BY <2>0, <3>1 DEF Airs
    <3>3. Len(todo[c]) = 0
      BY <3>1
    <3>4. \A d : Awaits(d)' <=> Awaits(d)
      BY <3>1, <3>2, <3>3 DEF Awaits
    <3>5. \A d \in Conns : Listed(d)' <=> Listed(d)
      <4>1. Session(c)
        BY <2>6 DEF Session
      <4>. QED  BY <4>1, SessionStep, OthersStay
    <3>6. \A d \in Conns : pc'[d] \in Early => pc[d] \in Early
      BY <2>0, <3>1
    <3>. QED  BY <3>1, <3>4, <3>5, <3>6, HeardKept
  <2>7. CASE UNCHANGED vars
    BY <2>7 DEF vars, HeardInv, GoneHearNothing, NewHeardNothing, AllHeard, Listed, Awaits, Airs
  <2>. QED  BY <2>1, <2>2, <2>3, <2>4, <2>5, <2>6, <2>7 DEF Next, Work, Aside
<1>. QED  BY <1>1, <1>2, TypeCorrect, DescriptorInvariant, ListInvariant, IterationInvariant, PTL
          DEF Spec, ListInv

\* Every client in the list hears every broadcast from its login on, once and in
\* one order, and nobody else hears one.
THEOREM BroadcastsInOrder == Spec => HeardInOneOrder
<1>. DEFINE Hears == \A c \in Conns : heard'[c] \notin {0, heard[c]} =>
                        /\ heard[c] = 0 \/ heard'[c] = heard[c] + 1
                        /\ Listed(c)
<1>1. TypeOK /\ ListInv /\ HeardInv /\ [Next]_vars => [Hears]_vars
  <2>. SUFFICES ASSUME TypeOK, ListInv, HeardInv, Next,
                       NEW c \in Conns, heard'[c] \notin {0, heard[c]}
                PROVE  /\ heard[c] = 0 \/ heard'[c] = heard[c] + 1
                       /\ Listed(c)
    OBVIOUS
  <2>. USE DEF Enter, StartJob, kernelVars, lockVars, loopVars, wireVars
  <2>0. heard \in [Conns -> Nat]
    BY DEF TypeOK
  <2>1. ASSUME NEW h \in Conns, BroadcastToNext(h)
        PROVE  /\ heard[c] = 0 \/ heard'[c] = heard[c] + 1
               /\ Listed(c)
    <3>1. PICK x \in Conns :
              /\ Listed(x) /\ Awaits(x)
              /\ heard' = IF x \in peerUp THEN [heard EXCEPT ![x] = aired] ELSE heard
      BY <2>1, BroadcastStep
    <3>2. c = x /\ heard'[c] = aired
      BY <2>0, <3>1
    <3>. QED  BY <3>1, <3>2 DEF HeardInv, AllHeard
  <2>2. ASSUME NEW h \in Conns, Refuse(h) \/ CloseSocket(h) \/ CloseLast(h) \/ PeerLeaves(h)
        PROVE  FALSE
    <3>1. heard' = [heard EXCEPT ![h] = 0]
      BY <2>2 DEF Refuse, CloseSocket, CloseLast, PeerLeaves, Close
    <3>. QED  BY <2>0, <3>1
  <2>3. ASSUME NEW h \in Conns,
               \/ Accept(h) \/ TakeText(h) \/ TakeList(h) \/ LookUp(h) \/ LookUpInVain(h)
               \/ AnnounceList(h) \/ TakeOther(h) \/ LeaveLoop(h) \/ PeerReads(h) \/ BlockInSend(h)
               \/ CheckNickname(h) \/ GreetAnyone(h) \/ ConfirmAuth(h)
               \/ ConfirmAuthOrGiveUp(h) \/ SendPrivate(h) \/ Tell(h) \/ AddClient(h)
               \/ RemoveClient(h) \/ LockList(h) \/ ListNext(h) \/ UnlockList(h)
        PROVE  FALSE
    <3>1. heard' = heard
      BY <2>3 DEF AnnounceList, Accept, TakeText, TakeList, LookUp, LookUpInVain, TakeOther, LeaveLoop,
             PeerReads, BlockInSend, CheckNickname, GreetAnyone, ConfirmAuth,
             ConfirmAuthOrGiveUp, SendPrivate, Tell, AddClient, RemoveClient, LockList,
             ListNext, UnlockList, Answer
    <3>. QED  BY <3>1
  <2>. QED  BY <2>1, <2>2, <2>3 DEF Next, Work
<1>. QED  BY <1>1, TypeCorrect, DescriptorInvariant, ListInvariant, IterationInvariant,
             HeardInvariant, PTL DEF Spec, ListInv, HeardInOneOrder
=============================================================================
