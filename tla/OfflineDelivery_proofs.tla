----------------------- MODULE OfflineDelivery_proofs -----------------------
(***************************************************************************)
(* Proofs about OfflineDelivery, for both servers and any number of        *)
(* messages, senders, receivers, handlers, logins and crashes.             *)
(***************************************************************************)
EXTENDS OfflineDelivery, Subsequences_proofs

(***************************************************************************)
(* What the operators of HistoryFile do to a history.                      *)
(***************************************************************************)
\* Only what a client sent is recorded as offline.
OfflineNamed(recs) == \A i \in 1..Len(recs) : recs[i].offline => recs[i].msg \in Msgs

\* markHistoryDelivered touches nothing but the flag `delivered', and sets it at
\* most.
LEMMA MarkingFlags ==
    ASSUME NEW recs \in Seq(Records), NEW id
    PROVE  LET new == markHistoryDelivered(recs, id)
           IN  /\ new \in Seq(Records)
               /\ Len(new) = Len(recs)
               /\ \A i \in 1..Len(recs) :
                     /\ new[i].msg = recs[i].msg
                     /\ new[i].id = recs[i].id
                     /\ new[i].offline = recs[i].offline
                     /\ recs[i].delivered => new[i].delivered
                     /\ IsFirst(recs, i, id) => new[i].delivered
                     /\ ~IsFirst(recs, i, id) => new[i] = recs[i]
<1>. DEFINE new == markHistoryDelivered(recs, id)
<1>1. ASSUME NEW i \in 1..Len(recs)
      PROVE  /\ new[i] \in Records
             /\ new[i].msg = recs[i].msg
             /\ new[i].id = recs[i].id
             /\ new[i].offline = recs[i].offline
             /\ recs[i].delivered => new[i].delivered
             /\ IsFirst(recs, i, id) => new[i].delivered
             /\ ~IsFirst(recs, i, id) => new[i] = recs[i]
  <2>1. recs[i] \in Records
    OBVIOUS
  <2>2. new[i] = IF IsFirst(recs, i, id) THEN [recs[i] EXCEPT !.delivered = TRUE] ELSE recs[i]
    BY DEF markHistoryDelivered
  <2>3. CASE IsFirst(recs, i, id)
    <3>1. new[i] = [recs[i] EXCEPT !.delivered = TRUE]
      BY <2>2, <2>3
    <3>. HIDE DEF new
    <3>. QED  BY <2>1, <2>3, <3>1 DEF Records
  <2>4. CASE ~IsFirst(recs, i, id)
    <3>1. new[i] = recs[i]
      BY <2>2, <2>4
    <3>. HIDE DEF new
    <3>. QED  BY <2>1, <2>4, <3>1
  <2>. QED  BY <2>3, <2>4
<1>2. Len(recs) \in Nat /\ new = [i \in 1..Len(recs) |-> new[i]]
  BY DEF markHistoryDelivered
<1>. HIDE DEF new
<1>3. new \in [1..Len(recs) -> Records]
  BY <1>1, <1>2
<1>4. new \in Seq(Records) /\ Len(new) = Len(recs)
  BY <1>2, <1>3
<1>. QED  BY <1>1, <1>4 DEF new

\* What is read back are the messages of undelivered records, in their order.
LEMMA ReloadedWithin ==
    ASSUME NEW recs \in Seq(Records), OfflineNamed(recs)
    PROVE  /\ Reloaded(recs) \in Seq(Msgs)
           /\ \E f \in [1..Len(Reloaded(recs)) -> 1..Len(recs)] :
                 /\ \A k \in 1..Len(Reloaded(recs)) :
                       IsUndelivered(recs[f[k]]) /\ Reloaded(recs)[k] = recs[f[k]].msg
                 /\ \A j, k \in 1..Len(Reloaded(recs)) : j < k => f[j] < f[k]
<1>. DEFINE I == {i \in 1..Len(recs) : IsUndelivered(recs[i])}
            kept == Pick(recs, I)
<1>1. I \in SUBSET (1..Len(recs))
  OBVIOUS
<1>2. kept \in Seq(Records) /\ Len(kept) = Cardinality(I)
  BY <1>1, PickEmbeds
<1>3. PICK f : Embeds(f, recs, I)
  BY <1>1, PickEmbeds
<1>4. /\ f \in [1..Len(kept) -> I]
      /\ \A k \in 1..Len(kept) : kept[k] = recs[f[k]]
      /\ \A j, k \in 1..Len(kept) : j < k => f[j] < f[k]
  BY <1>2, <1>3 DEF Embeds
<1>5. Reloaded(recs) = [k \in 1..Len(kept) |-> kept[k].msg]
  BY DEF Reloaded
<1>6. ASSUME NEW k \in 1..Len(kept)
      PROVE  /\ f[k] \in 1..Len(recs) /\ IsUndelivered(recs[f[k]])
             /\ kept[k].msg = recs[f[k]].msg /\ kept[k].msg \in Msgs
  <2>1. f[k] \in I /\ kept[k] = recs[f[k]]
    BY <1>4
  <2>2. f[k] \in 1..Len(recs) /\ IsUndelivered(recs[f[k]])
    BY <2>1
  <2>. QED  BY <2>1, <2>2 DEF OfflineNamed, IsUndelivered
<1>. HIDE DEF kept
<1>7. Len(kept) \in Nat
  BY <1>2
<1>8. Reloaded(recs) \in Seq(Msgs) /\ Len(Reloaded(recs)) = Len(kept)
  BY <1>5, <1>6, <1>7
<1>9. f \in [1..Len(kept) -> 1..Len(recs)]
  BY <1>4, <1>6
<1>. QED  BY <1>4, <1>5, <1>6, <1>8, <1>9

(***************************************************************************)
(* Types.                                                                  *)
(***************************************************************************)
\* A handler that has just sent a message still has it in hand.
MarkingHasMessage == \A s \in Sessions : phase[s] = "marking" => forDelivery[s] # <<>>

TypeInv == TypeOK /\ MarkingHasMessage /\ OfflineNamed(historyRecords)

\* The histories somebody may just be saving are histories.
LEMMA SavedType ==
    ASSUME TypeInv, NEW recs \in BeingSaved \cup {historyRecords}
    PROVE  recs \in Seq(Records) /\ OfflineNamed(recs)
<1>. USE OfflineDeliveryAssumption
<1>0. historyRecords \in Seq(Records) /\ OfflineNamed(historyRecords) /\ lab \in Labs
  BY DEF TypeInv, TypeOK
<1>1. ASSUME NEW r \in Records, r.offline => r.msg \in Msgs
      PROVE  /\ Append(historyRecords, r) \in Seq(Records)
             /\ OfflineNamed(Append(historyRecords, r))
  <2>1. Append(historyRecords, r) \in Seq(Records)
    BY <1>0
  <2>2. \A i \in 1..(Len(historyRecords) + 1) :
           Append(historyRecords, r)[i] = IF i <= Len(historyRecords)
                                          THEN historyRecords[i] ELSE r
    BY <1>0
  <2>3. Len(Append(historyRecords, r)) = Len(historyRecords) + 1 /\ Len(historyRecords) \in Nat
    BY <1>0
  <2>. QED  BY <1>0, <1>1, <2>1, <2>2, <2>3 DEF OfflineNamed
<1>2. ASSUME NEW m \in Msgs
      PROVE  /\ DirectRecord(m) \in Records /\ DirectRecord(m).msg = m /\ ~DirectRecord(m).offline
             /\ OfflineRecord(m) \in Records /\ OfflineRecord(m).msg = m
  BY <1>0 DEF DirectRecord, OfflineRecord, MsgId, Rec, Records
<1>3. ASSUME NEW id \in ServerIds[lab]
      PROVE  ServerRecord(id) \in Records /\ ~ServerRecord(id).offline
  BY <1>0 DEF ServerRecord, Rec, Records
<1>4. ASSUME NEW s \in Sessions
      PROVE  MarkedBy(s) \in Seq(Records) /\ OfflineNamed(MarkedBy(s))
  <2>1. /\ MarkedBy(s) \in Seq(Records) /\ Len(MarkedBy(s)) = Len(historyRecords)
        /\ \A i \in 1..Len(historyRecords) :
              /\ MarkedBy(s)[i].msg = historyRecords[i].msg
              /\ MarkedBy(s)[i].offline = historyRecords[i].offline
    BY <1>0, MarkingFlags DEF MarkedBy
  <2>. QED  BY <1>0, <2>1 DEF OfflineNamed
<1>5. CASE \E m \in Msgs : recs = Append(historyRecords, DirectRecord(m))
  BY <1>1, <1>2, <1>5
<1>6. CASE \E m \in Msgs : recs = Append(historyRecords, OfflineRecord(m))
  BY <1>1, <1>2, <1>6
<1>7. CASE \E s \in Sessions : recs = MarkedBy(s)
  BY <1>4, <1>7
<1>8. CASE \E id \in ServerIds[lab] : recs = Append(historyRecords, ServerRecord(id))
  BY <1>1, <1>3, <1>8
<1>. QED  BY <1>0, <1>5, <1>6, <1>7, <1>8 DEF BeingSaved

\* A torn history is the beginning of a history.
LEMMA PrefixType ==
    ASSUME NEW recs \in Seq(Records), NEW n \in 0..Len(recs)
    PROVE  /\ SubSeq(recs, 1, n) \in Seq(Records)
           /\ Len(SubSeq(recs, 1, n)) = n
           /\ \A i \in 1..n : SubSeq(recs, 1, n)[i] = recs[i] /\ i \in 1..Len(recs)
           /\ SubSeq(recs, 1, Len(recs)) = recs
           /\ OfflineNamed(recs) => OfflineNamed(SubSeq(recs, 1, n))
<1>1. n \in Nat /\ Len(recs) \in Nat /\ n <= Len(recs) /\ \A i \in 1..n : i \in 1..Len(recs)
  OBVIOUS
<1>2. /\ SubSeq(recs, 1, n) \in Seq(Records)
      /\ Len(SubSeq(recs, 1, n)) = n
      /\ \A i \in 1..n : SubSeq(recs, 1, n)[i] = recs[i]
  BY <1>1
<1>3. SubSeq(recs, 1, Len(recs)) = recs
  OBVIOUS
<1>. QED  BY <1>1, <1>2, <1>3 DEF OfflineNamed

\* Whatever a step does to the history, it leaves the first records of one that
\* was there or was being saved.
LEMMA HistoryStep ==
    ASSUME TypeInv, [Next]_vars
    PROVE  \E recs \in BeingSaved \cup {historyRecords} :
              \E n \in 0..Len(recs) : historyRecords' = SubSeq(recs, 1, n)
<1>. DEFINE Goal == \E recs \in BeingSaved \cup {historyRecords} :
                       \E n \in 0..Len(recs) : historyRecords' = SubSeq(recs, 1, n)
<1>1. ASSUME NEW recs \in BeingSaved \cup {historyRecords}, NEW n \in 0..Len(recs),
             historyRecords' = SubSeq(recs, 1, n) \/ historyRecords' = recs \/ historyRecords' = <<>>
      PROVE  Goal
  <2>1. recs \in Seq(Records)
    BY SavedType
  <2>2. /\ Len(recs) \in 0..Len(recs) /\ SubSeq(recs, 1, Len(recs)) = recs
        /\ 0 \in 0..Len(recs) /\ SubSeq(recs, 1, 0) = <<>>
    BY <2>1
  <2>. QED  BY <1>1, <2>2
<1>2. ASSUME NEW recs \in BeingSaved \cup {historyRecords},
             historyRecords' = recs \/ historyRecords' = <<>>
      PROVE  Goal
  <2>1. recs \in Seq(Records)
    BY SavedType
  <2>2. 0 \in 0..Len(recs)
    BY <2>1
  <2>. QED  BY <1>1, <1>2, <2>2
<1>. SUFFICES Goal
  OBVIOUS
<1>. HIDE DEF Goal
<1>3. ASSUME NEW m \in Msgs, RecordDirect(m) PROVE Goal
  BY <1>2, <1>3 DEF RecordDirect, BeingSaved
<1>4. ASSUME NEW m \in Msgs, RecordOffline(m) PROVE Goal
  BY <1>2, <1>4 DEF RecordOffline, BeingSaved
<1>5. ASSUME NEW s \in Sessions, RecordConnect(s) \/ RecordDisconnect(s) PROVE Goal
  BY <1>2, <1>5 DEF RecordConnect, RecordDisconnect, RecordOwn, BeingSaved
<1>6. ASSUME NEW s \in Sessions, MarkDelivered(s) PROVE Goal
  BY <1>2, <1>6 DEF MarkDelivered, BeingSaved
<1>7. CASE Crash
  BY <1>2, <1>7 DEF Crash, Restart, Kept
<1>8. CASE CrashWhileSaving
  <2>1. PICK recs \in BeingSaved : \E kept \in Torn(recs) : Restart(kept)
    BY <1>8 DEF CrashWhileSaving
  <2>2. PICK n \in 0..Len(recs) : Restart(SubSeq(recs, 1, n))
    BY <2>1 DEF Torn
  <2>3. historyRecords' = SubSeq(recs, 1, n) \/ historyRecords' = <<>>
    BY <2>2 DEF Restart, Kept
  <2>. QED  BY <1>1, <2>3
<1>9. ASSUME historyRecords' = historyRecords PROVE Goal
  BY <1>2, <1>9
<1>10. ASSUME NEW m \in Msgs, RouteToClient(m) \/ RouteToQueue(m) \/ PushOffline(m) PROVE Goal
  BY <1>9, <1>10 DEF RouteToClient, RouteToQueue, PushOffline
<1>11. ASSUME NEW s \in Sessions,
              \/ CheckNickname(s) \/ AddClient(s) \/ SnapshotQueue(s) \/ NothingToDeliver(s)
              \/ SendOffline(s) \/ SendFails(s) \/ WriteBack(s) \/ PeerLeaves(s)
              \/ RemoveClient(s)
       PROVE  Goal
  BY <1>9, <1>11 DEF CheckNickname, AddClient, SnapshotQueue, NothingToDeliver, SendOffline,
       SendFails, WriteBack, PeerLeaves, RemoveClient
<1>12. CASE UNCHANGED vars
  BY <1>9, <1>12 DEF vars
<1>. QED
  BY <1>3, <1>4, <1>5, <1>6, <1>7, <1>8, <1>10, <1>11, <1>12 DEF Next, SenderStep, ReceiverStep
\* What is left of every queue after a step is made of messages.
LEMMA QueuesTyped ==
    ASSUME TypeInv, [Next]_vars
    PROVE  /\ offlineQueue' \in Seq(Msgs)
           /\ forDelivery' \in [Sessions -> Seq(Msgs)]
           /\ keepQueue' \in [Sessions -> Seq(Msgs)]
           /\ failedDelivery' \in [Sessions -> Seq(Msgs)]
           /\ historyRecords' \in Seq(Records)
           /\ OfflineNamed(historyRecords')
<1>. DEFINE Goal == /\ offlineQueue' \in Seq(Msgs)
                    /\ forDelivery' \in [Sessions -> Seq(Msgs)]
                    /\ keepQueue' \in [Sessions -> Seq(Msgs)]
                    /\ failedDelivery' \in [Sessions -> Seq(Msgs)]
<1>0. /\ offlineQueue \in Seq(Msgs)
      /\ forDelivery \in [Sessions -> Seq(Msgs)]
      /\ keepQueue \in [Sessions -> Seq(Msgs)]
      /\ failedDelivery \in [Sessions -> Seq(Msgs)]
      /\ historyRecords \in Seq(Records) /\ OfflineNamed(historyRecords)
  BY DEF TypeInv, TypeOK
<1>1. historyRecords' \in Seq(Records) /\ OfflineNamed(historyRecords')
  <2>1. PICK recs \in BeingSaved \cup {historyRecords} :
           \E n \in 0..Len(recs) : historyRecords' = SubSeq(recs, 1, n)
    BY HistoryStep
  <2>. QED  BY <2>1, SavedType, PrefixType
<1>2. ASSUME UNCHANGED <<offlineQueue, forDelivery, keepQueue, failedDelivery>> PROVE Goal
  BY <1>0, <1>2
<1>3. ASSUME NEW s \in Sessions, forDelivery[s] # <<>>
      PROVE  Current(s) \in Msgs /\ Tail(forDelivery[s]) \in Seq(Msgs)
  <2>1. forDelivery[s] \in Seq(Msgs)
    BY <1>0
  <2>. QED  BY <1>3, <2>1 DEF Current
<1>4. ASSUME NEW m \in Msgs, PushOffline(m) PROVE Goal
  BY <1>0, <1>4 DEF PushOffline, handlerVars
<1>5. ASSUME NEW s \in Sessions, SnapshotQueue(s) PROVE Goal
  <2>1. /\ PlacesFor(s) \in SUBSET (1..Len(offlineQueue))
        /\ 1..Len(offlineQueue) \ PlacesFor(s) \in SUBSET (1..Len(offlineQueue))
    BY DEF PlacesFor
  <2>2. /\ Pick(offlineQueue, PlacesFor(s)) \in Seq(Msgs)
        /\ Pick(offlineQueue, 1..Len(offlineQueue) \ PlacesFor(s)) \in Seq(Msgs)
    BY <1>0, <2>1, PickWithin
  <2>. QED  BY <1>0, <1>5, <2>2 DEF SnapshotQueue
<1>6. ASSUME NEW s \in Sessions, SendFails(s) PROVE Goal
  <2>1. /\ failedDelivery[s] \in Seq(Msgs)
        /\ Current(s) \in Msgs /\ Tail(forDelivery[s]) \in Seq(Msgs)
    BY <1>0, <1>3, <1>6 DEF SendFails, Delivering
  <2>2. Append(failedDelivery[s], Current(s)) \in Seq(Msgs)
    BY <2>1
  <2>. QED  BY <1>0, <1>6, <2>1, <2>2 DEF SendFails
<1>7. ASSUME NEW s \in Sessions, MarkDelivered(s) PROVE Goal
  <2>1. Tail(forDelivery[s]) \in Seq(Msgs)
    BY <1>3, <1>7 DEF MarkDelivered, TypeInv, MarkingHasMessage
  <2>. QED  BY <1>0, <1>7, <2>1 DEF MarkDelivered
<1>8. ASSUME NEW s \in Sessions, WriteBack(s) PROVE Goal
  <2>1. <<>> \in Seq(Msgs) /\ keepQueue[s] \o failedDelivery[s] \in Seq(Msgs)
    BY <1>0
  <2>. QED  BY <1>0, <1>8, <2>1 DEF WriteBack
<1>9. ASSUME NEW recs, Restart(recs) PROVE Goal
  <2>1. Reloaded(historyRecords') \in Seq(Msgs)
    BY <1>1, ReloadedWithin
  <2>2. <<>> \in Seq(Msgs)
    OBVIOUS
  <2>. QED  BY <1>9, <2>1, <2>2 DEF Restart
<1>10. ASSUME NEW m \in Msgs,
              RouteToClient(m) \/ RecordDirect(m) \/ RouteToQueue(m) \/ RecordOffline(m)
       PROVE  Goal
  BY <1>2, <1>10 DEF RouteToClient, RecordDirect, RouteToQueue, RecordOffline, handlerVars
<1>11. ASSUME NEW s \in Sessions,
              \/ CheckNickname(s) \/ AddClient(s) \/ RecordConnect(s) \/ NothingToDeliver(s)
              \/ SendOffline(s) \/ PeerLeaves(s) \/ RemoveClient(s) \/ RecordDisconnect(s)
       PROVE  Goal
  BY <1>2, <1>11 DEF CheckNickname, AddClient, RecordConnect, RecordDisconnect, RecordOwn,
       NothingToDeliver, SendOffline, PeerLeaves, RemoveClient
<1>12. ASSUME UNCHANGED vars PROVE Goal
  BY <1>2, <1>12 DEF vars
<1>. HIDE DEF Goal
<1>13. ASSUME Crash \/ CrashWhileSaving PROVE Goal
  BY <1>9, <1>13 DEF Crash, CrashWhileSaving
<1>14. Goal
  BY <1>4, <1>5, <1>6, <1>7, <1>8, <1>10, <1>11, <1>12, <1>13 DEF Next, SenderStep, ReceiverStep
<1>. QED  BY <1>1, <1>14 DEF Goal

\* Types are kept together with what the handlers have in hand.
LEMMA TypeInvariant == Spec => []TypeInv
<1>. USE OfflineDeliveryAssumption
<1>1. Init => TypeInv
  BY DEF Init, TypeInv, MarkingHasMessage, OfflineNamed, TypeOK, Stages, Phases
<1>2. TypeInv /\ [Next]_vars => TypeInv'
  <2>. SUFFICES ASSUME TypeInv, [Next]_vars PROVE TypeInv'
    OBVIOUS
  <2>. DEFINE Small == /\ lab' \in Labs
                       /\ stage' \in [Msgs -> Stages]
                       /\ phase' \in [Sessions -> Phases]
                       /\ peerUp' \in SUBSET Sessions
                       /\ logins' \in 0..MaxLogins
                       /\ crashes' \in 0..MaxCrashes
              Observed == /\ promised' \in SUBSET Msgs
                          /\ handed' \in SUBSET Msgs
                          /\ early' \in SUBSET Msgs
                          /\ astray' \in SUBSET Msgs
                          /\ struck' \in SUBSET Msgs
                          /\ cutOff' \in SUBSET Msgs
                          /\ toldNone' \in SUBSET Msgs
              Busy == MarkingHasMessage'
  <2>0. /\ lab \in Labs
        /\ stage \in [Msgs -> Stages]
        /\ phase \in [Sessions -> Phases]
        /\ peerUp \in SUBSET Sessions
        /\ logins \in 0..MaxLogins
        /\ crashes \in 0..MaxCrashes
        /\ promised \in SUBSET Msgs
        /\ handed \in SUBSET Msgs
        /\ early \in SUBSET Msgs
        /\ astray \in SUBSET Msgs
        /\ struck \in SUBSET Msgs
        /\ cutOff \in SUBSET Msgs
        /\ toldNone \in SUBSET Msgs
        /\ forDelivery \in [Sessions -> Seq(Msgs)]
    BY DEF TypeInv, TypeOK
  <2>1. MarkingHasMessage
    BY DEF TypeInv
  <2>2. \A s \in Sessions : forDelivery[s] # <<>> => Current(s) \in Msgs
    <3>1. \A s \in Sessions : forDelivery[s] \in Seq(Msgs)
      BY <2>0
    <3>. QED  BY <3>1 DEF Current
  <2>3. Undelivered(historyRecords) \subseteq Msgs
    <3>1. OfflineNamed(historyRecords)
      BY DEF TypeInv
    <3>. QED  BY <3>1 DEF OfflineNamed, Undelivered, IsUndelivered
  <2>4. ASSUME NEW m \in Msgs, NEW next \in Stages, stage' = [stage EXCEPT ![m] = next],
               promised' \in {promised, promised \cup {m}},
               UNCHANGED <<lab, phase, peerUp, forDelivery, logins, crashes, handed, early,
                           astray, struck, cutOff, toldNone>>
        PROVE  Small /\ Observed /\ Busy
    BY <2>0, <2>1, <2>4 DEF MarkingHasMessage
  <2>5. ASSUME NEW m \in Msgs, SenderStep(m) PROVE Small /\ Observed /\ Busy
    <3>1. \E next \in Stages : stage' = [stage EXCEPT ![m] = next]
      BY <2>5 DEF SenderStep, RouteToClient, RecordDirect, RouteToQueue, PushOffline,
           RecordOffline, Advance, Stages
    <3>2. promised' \in {promised, promised \cup {m}}
      BY <2>5 DEF SenderStep, RouteToClient, RecordDirect, RouteToQueue, PushOffline,
           RecordOffline, observedVars
    <3>3. UNCHANGED <<lab, phase, peerUp, forDelivery, logins, crashes, handed, early,
                      astray, struck, cutOff, toldNone>>
      BY <2>5 DEF SenderStep, RouteToClient, RecordDirect, RouteToQueue, PushOffline,
           RecordOffline, observedVars, boundVars, handlerVars
    <3>. QED  BY <2>4, <3>1, <3>2, <3>3
  <2>6. ASSUME NEW s \in Sessions, NEW next \in Phases \ {"marking"},
               phase' = [phase EXCEPT ![s] = next], peerUp' \in {peerUp, peerUp \cup {s}},
               logins' \in 0..MaxLogins,
               \A t \in Sessions \ {s} : forDelivery'[t] = forDelivery[t]
        PROVE  phase' \in [Sessions -> Phases] /\ peerUp' \in SUBSET Sessions /\ Busy
    BY <2>0, <2>1, <2>6 DEF MarkingHasMessage
  <2>7. ASSUME NEW s \in Sessions,
               \/ AddClient(s) \/ RecordConnect(s) \/ WriteBack(s) \/ RemoveClient(s)
               \/ RecordDisconnect(s) \/ SnapshotQueue(s)
        PROVE  Small /\ Observed /\ Busy
    <3>1. \E next \in Phases \ {"marking"} : phase' = [phase EXCEPT ![s] = next]
      BY <2>7 DEF AddClient, RecordConnect, RecordOwn, WriteBack, RemoveClient, SnapshotQueue,
           RecordDisconnect, Enter, Phases
    <3>2. UNCHANGED <<lab, stage, peerUp, logins, crashes, promised, handed, early,
                      astray, struck, cutOff, toldNone>>
      BY <2>7 DEF AddClient, RecordConnect, RecordOwn, WriteBack, RemoveClient, SnapshotQueue,
           RecordDisconnect, observedVars, boundVars
    <3>3. \A t \in Sessions \ {s} : forDelivery'[t] = forDelivery[t]
      BY <2>0, <2>7 DEF AddClient, RecordConnect, RecordOwn, WriteBack, RemoveClient,
           SnapshotQueue, RecordDisconnect
    <3>. QED  BY <2>0, <2>6, <3>1, <3>2, <3>3
  <2>8. ASSUME NEW s \in Sessions, CheckNickname(s) PROVE Small /\ Observed /\ Busy
    <3>1. logins + 1 \in 0..MaxLogins
      BY <2>0, <2>8 DEF CheckNickname
    <3>. QED  BY <2>0, <2>6, <2>8, <3>1 DEF CheckNickname, Enter, Phases, observedVars
  <2>9. ASSUME NEW s \in Sessions, NothingToDeliver(s) PROVE Small /\ Observed /\ Busy
    BY <2>0, <2>6, <2>9 DEF NothingToDeliver, Enter, Phases, boundVars
  <2>10. ASSUME NEW s \in Sessions, SendOffline(s) PROVE Small /\ Observed /\ Busy
    <3>1. Current(s) \in Msgs
      BY <2>2, <2>10 DEF SendOffline, Delivering
    <3>2. phase' = [phase EXCEPT ![s] = "marking"] /\ forDelivery' = forDelivery
          /\ forDelivery[s] # <<>>
      BY <2>10 DEF SendOffline, Delivering, Enter
    <3>3. Busy
      BY <2>0, <2>1, <3>2 DEF MarkingHasMessage
    <3>4. phase' \in [Sessions -> Phases]
      BY <2>0, <3>2 DEF Phases
    <3>. QED  BY <2>0, <2>10, <3>1, <3>3, <3>4 DEF SendOffline, boundVars
  <2>11. ASSUME NEW s \in Sessions, SendFails(s) PROVE Small /\ Observed /\ Busy
    <3>1. Busy
      <4>1. phase' = phase /\ phase[s] = "delivering"
            /\ \A t \in Sessions \ {s} : forDelivery'[t] = forDelivery[t]
        BY <2>0, <2>11 DEF SendFails, Delivering
      <4>. QED  BY <2>1, <4>1 DEF MarkingHasMessage
    <3>. QED  BY <2>0, <2>11, <3>1 DEF SendFails, boundVars, observedVars
  <2>12. ASSUME NEW s \in Sessions, MarkDelivered(s) PROVE Small /\ Observed /\ Busy
    <3>1. Current(s) \in Msgs
      BY <2>1, <2>2, <2>12 DEF MarkDelivered, MarkingHasMessage
    <3>2. early' \in SUBSET Msgs /\ astray' \in SUBSET Msgs
      BY <2>0, <2>12, <3>1 DEF MarkDelivered
    <3>5. struck' \in SUBSET Msgs
      <4>1. \A i \in 1..Len(historyRecords) : historyRecords[i] \in Records
        BY DEF TypeInv, TypeOK
      <4>2. Hit(Current(s)) \subseteq Msgs \cup {None}
        BY <4>1 DEF Hit, Records
      <4>. QED  BY <2>0, <2>12, <4>2 DEF MarkDelivered
    <3>3. /\ phase' = [phase EXCEPT ![s] = "delivering"]
          /\ \A t \in Sessions \ {s} : forDelivery'[t] = forDelivery[t]
      BY <2>0, <2>12 DEF MarkDelivered, Enter
    <3>4. Busy /\ phase' \in [Sessions -> Phases]
      BY <2>0, <2>1, <3>3 DEF MarkingHasMessage, Phases
    <3>. QED  BY <2>0, <2>12, <3>2, <3>4, <3>5 DEF MarkDelivered, boundVars
  <2>13. ASSUME NEW s \in Sessions, PeerLeaves(s) PROVE Small /\ Observed /\ Busy
    BY <2>0, <2>1, <2>13 DEF PeerLeaves, boundVars, observedVars, MarkingHasMessage
  <2>14. ASSUME NEW recs, Restart(recs) PROVE Small /\ Observed /\ Busy
    <3>1. crashes' \in 0..MaxCrashes
      <4>1. crashes' = crashes + 1 /\ crashes < MaxCrashes
        BY <2>14 DEF Restart
      <4>. QED  BY <2>0, <4>1
    <3>2. early' \in SUBSET Msgs
      <4>1. {Current(s) : s \in {t \in Sessions : phase[t] = "marking"}} \in SUBSET Msgs
        BY <2>1, <2>2 DEF MarkingHasMessage
      <4>. QED  BY <2>0, <2>14, <4>1 DEF Restart
    <3>3. cutOff' \in SUBSET Msgs
      BY <2>0, <2>3, <2>14 DEF Restart, Recoverable
    <3>4. stage' \in [Msgs -> Stages]
      BY <2>0, <2>14 DEF Restart, Stages
    <3>5. phase' \in [Sessions -> Phases] /\ Busy
      BY <2>14 DEF Restart, Phases, MarkingHasMessage
    <3>. QED  BY <2>0, <2>14, <3>1, <3>2, <3>3, <3>4, <3>5 DEF Restart
  <2>15. ASSUME UNCHANGED vars PROVE Small /\ Observed /\ Busy
    BY <2>0, <2>1, <2>15 DEF vars, boundVars, observedVars, MarkingHasMessage
  <2>16. ASSUME Crash \/ CrashWhileSaving PROVE Small /\ Observed /\ Busy
    BY <2>14, <2>16 DEF Crash, CrashWhileSaving
  <2>. HIDE DEF Small, Observed, Busy
  <2>17. Small /\ Observed /\ Busy
    BY <2>5, <2>7, <2>8, <2>9, <2>10, <2>11, <2>12, <2>13, <2>15, <2>16 DEF Next, ReceiverStep
  <2>. QED  BY <2>17, QueuesTyped DEF Small, Observed, Busy, TypeInv, TypeOK
<1>. QED  BY <1>1, <1>2, PTL DEF Spec

\* Every reachable state is well typed.
THEOREM TypeCorrect == Spec => []TypeOK
<1>1. TypeInv => TypeOK
  BY DEF TypeInv
<1>. QED  BY <1>1, TypeInvariant, PTL
(***************************************************************************)
(* Order.  PerSenderOrder by itself is not inductive: copies of the queue  *)
(* are written back and histories are read back, and both must have the    *)
(* order already.                                                          *)
(***************************************************************************)
Ended == {"done", "lost"}
Queued == {"toRecord", "done", "lost"}

\* A sender's handler is at work on one message, and the next ones are new.
OneAtATime ==
    \A m, k \in Msgs :
        Sender[k] = Sender[m] /\ k < m /\ stage[m] # "new" => stage[k] \in Ended

\* One sender's messages to one receiver follow each other in q.
Ordered(q) ==
    \A i, j \in 1..Len(q) :
        i < j /\ Sender[q[i]] = Sender[q[j]] /\ Receiver[q[i]] = Receiver[q[j]] => q[i] < q[j]

AllQueued(q) == \A i \in 1..Len(q) : stage[q[i]] \in Queued

QueueOrder == Ordered(offlineQueue) /\ AllQueued(offlineQueue)

\* What a handler may still put back: the rejected messages and, before it has
\* sent them, the rest; and the messages for others.
Pending(s) == failedDelivery[s] \o forDelivery[s]

CopyOrder(s) ==
    /\ Ordered(Pending(s)) /\ AllQueued(Pending(s))
    /\ Ordered(keepQueue[s]) /\ AllQueued(keepQueue[s])
    /\ \A i \in 1..Len(Pending(s)) : IsFor(s, Pending(s)[i])
    /\ \A i \in 1..Len(keepQueue[s]) : ~IsFor(s, keepQueue[s][i])
    /\ phase[s] \notin {"delivering", "marking"} => Pending(s) = <<>>

CopiesOrder == \A s \in Sessions : CopyOrder(s)

\* Each message is recorded once, after those its sender sent before.
RecordsFollow(recs) ==
    \A i, j \in 1..Len(recs) :
        /\ i < j /\ recs[i].msg # None /\ recs[j].msg # None
        /\ Sender[recs[i].msg] = Sender[recs[j].msg]
        => recs[i].msg < recs[j].msg

RecordsEnded == \A i \in 1..Len(historyRecords) :
                   historyRecords[i].msg # None => stage[historyRecords[i].msg] \in Ended

OrderInv ==
    OneAtATime /\ QueueOrder /\ CopiesOrder /\ RecordsFollow(historyRecords) /\ RecordsEnded

\* A subsequence of an ordered queue is ordered.
LEMMA WithinOrdered ==
    ASSUME NEW p \in Seq(Msgs), NEW q \in Seq(Msgs), Within(p, q)
    PROVE  /\ Ordered(q) => Ordered(p)
           /\ AllQueued(q) => AllQueued(p)
           /\ \A s \in Sessions : (\A i \in 1..Len(q) : IsFor(s, q[i]))
                                  => \A i \in 1..Len(p) : IsFor(s, p[i])
<1>1. PICK f \in [1..Len(p) -> 1..Len(q)] :
           /\ \A k \in 1..Len(p) : p[k] = q[f[k]]
           /\ \A j, k \in 1..Len(p) : j < k => f[j] < f[k]
  BY DEF Within
<1>2. \A k \in 1..Len(p) : f[k] \in 1..Len(q)
  BY <1>1
<1>. QED  BY <1>1, <1>2, SMTT(60) DEF Ordered, AllQueued

\* Messages that are queued stay queued, and ended ones ended: a step takes a
\* message forward, and a restart loses those in hand.
LEMMA StagesAdvance ==
    ASSUME TypeInv, OneAtATime, [Next]_vars
    PROVE  /\ OneAtATime'
           /\ \A m \in Msgs : stage[m] \in Queued => stage'[m] \in Queued
           /\ \A m \in Msgs : stage[m] \in Ended => stage'[m] \in Ended
           /\ \A m \in Msgs : stage[m] = "new" => stage'[m] \in {"new", "toDirect", "toStore"}
<1>. USE DEF Ended, Queued
<1>. DEFINE Goal == /\ OneAtATime'
                    /\ \A m \in Msgs : stage[m] \in Queued => stage'[m] \in Queued
                    /\ \A m \in Msgs : stage[m] \in Ended => stage'[m] \in Ended
                    /\ \A m \in Msgs : stage[m] = "new" => stage'[m] \in {"new", "toDirect", "toStore"}
<1>0. stage \in [Msgs -> Stages] /\ Msgs \subseteq Nat
  BY OfflineDeliveryAssumption DEF TypeInv, TypeOK
<1>1. ASSUME stage' = stage PROVE Goal
  BY <1>1 DEF OneAtATime
<1>2. ASSUME NEW m \in Msgs, MyTurn(m), NEW next \in {"toDirect", "toStore"}, Advance(m, next)
      PROVE  Goal
  <2>1. stage' = [stage EXCEPT ![m] = next] /\ stage[m] = "new"
    BY <1>2 DEF Advance, MyTurn
  <2>2. \A k \in Msgs : k # m => stage'[k] = stage[k]
    BY <1>0, <2>1
  <2>3. stage'[m] = next
    BY <1>0, <2>1
  <2>4. ASSUME NEW n \in Msgs, NEW k \in Msgs, Sender[k] = Sender[n], k < n, stage'[n] # "new"
        PROVE  stage'[k] \in Ended
    <3>1. CASE n = m
      BY <1>0, <1>2, <2>2, <2>4, <3>1 DEF MyTurn
    <3>2. CASE n # m
      <4>1. stage[n] # "new"
        BY <2>2, <2>4, <3>2
      <4>2. stage[k] \in Ended
        BY <2>4, <4>1 DEF OneAtATime
      <4>. QED  BY <2>1, <2>2, <4>2
    <3>. QED  BY <3>1, <3>2
  <2>5. OneAtATime'
    BY <2>4 DEF OneAtATime
  <2>. QED  BY <1>2, <2>1, <2>2, <2>3, <2>5
<1>3. ASSUME NEW m \in Msgs, stage[m] \in {"toDirect", "toStore", "toRecord"},
             NEW next \in {"toRecord", "done"}, Advance(m, next)
      PROVE  Goal
  <2>1. stage' = [stage EXCEPT ![m] = next]
    BY <1>3 DEF Advance
  <2>2. \A k \in Msgs : k # m => stage'[k] = stage[k]
    BY <1>0, <2>1
  <2>3. stage'[m] = next
    BY <1>0, <2>1
  <2>4. \A k \in Msgs : stage'[k] # "new" => stage[k] # "new"
    BY <1>3, <2>2
  <2>5. \A k \in Msgs : stage[k] \in Ended => stage'[k] \in Ended
    BY <1>3, <2>2
  <2>6. OneAtATime'
    BY <2>4, <2>5 DEF OneAtATime
  <2>. QED  BY <1>3, <2>2, <2>3, <2>5, <2>6
<1>4. ASSUME NEW recs, Restart(recs) PROVE Goal
  <2>1. \A k \in Msgs : stage'[k] = IF k \in InHand THEN "lost" ELSE stage[k]
    BY <1>4 DEF Restart
  <2>2. \A k \in Msgs : stage'[k] # "new" => stage[k] # "new"
    BY <2>1 DEF InHand
  <2>3. \A k \in Msgs : stage[k] \in Ended => stage'[k] \in Ended
    BY <2>1
  <2>4. OneAtATime'
    BY <2>2, <2>3 DEF OneAtATime
  <2>. QED  BY <2>1, <2>3, <2>4 DEF InHand
<1>. HIDE DEF Goal
<1>5. ASSUME NEW m \in Msgs, SenderStep(m) PROVE Goal
  <2>1. CASE RouteToClient(m) \/ RouteToQueue(m)
    BY <1>2, <2>1 DEF RouteToClient, RouteToQueue
  <2>2. CASE RecordDirect(m) \/ PushOffline(m) \/ RecordOffline(m)
    BY <1>3, <2>2 DEF RecordDirect, PushOffline, RecordOffline
  <2>. QED  BY <1>5, <2>1, <2>2 DEF SenderStep
<1>6. ASSUME NEW s \in Sessions, ReceiverStep(s) PROVE Goal
  BY <1>1, <1>6 DEF ReceiverStep, CheckNickname, AddClient, RecordConnect, SnapshotQueue,
       NothingToDeliver, SendOffline, SendFails, MarkDelivered, WriteBack, PeerLeaves,
       RemoveClient, RecordDisconnect, RecordOwn
<1>7. ASSUME Crash \/ CrashWhileSaving PROVE Goal
  BY <1>4, <1>7 DEF Crash, CrashWhileSaving
<1>8. ASSUME UNCHANGED vars PROVE Goal
  BY <1>1, <1>8 DEF vars
<1>9. Goal
  BY <1>5, <1>6, <1>7, <1>8 DEF Next
<1>. QED  BY <1>9 DEF Goal

\* A message in hand is newer than what its sender has sent before.
LEMMA InHandIsNewest ==
    ASSUME TypeInv, OneAtATime, NEW m \in InHand, NEW k \in Msgs,
           stage[k] # "new", Sender[k] = Sender[m], k # m
    PROVE  k < m
<1>1. m \in Nat /\ k \in Nat /\ m \in Msgs /\ stage[m] \notin Ended
  BY OfflineDeliveryAssumption DEF InHand, Ended
<1>2. CASE m < k
  BY <1>1, <1>2 DEF OneAtATime
<1>. QED  BY <1>1, <1>2

\* Every history that is there or may just be saved has its records in order.
LEMMA SavedFollow ==
    ASSUME TypeInv, OneAtATime, RecordsFollow(historyRecords), RecordsEnded,
           NEW recs \in BeingSaved \cup {historyRecords}, NEW n \in 0..Len(recs)
    PROVE  RecordsFollow(SubSeq(recs, 1, n))
<1>. USE OfflineDeliveryAssumption
<1>0. historyRecords \in Seq(Records) /\ recs \in Seq(Records)
  BY SavedType DEF TypeInv, TypeOK
<1>1. ASSUME NEW r, r.msg # None => r.msg \in InHand
      PROVE  RecordsFollow(Append(historyRecords, r))
  <2>. DEFINE new == Append(historyRecords, r)
              l == Len(historyRecords)
  <2>1. /\ l \in Nat /\ Len(new) = l + 1
        /\ \A i \in 1..l : new[i] = historyRecords[i] /\ historyRecords[i] \in Records
        /\ new[l + 1] = r
    BY <1>0
  <2>. HIDE DEF new, l
  <2>2. ASSUME NEW i \in 1..l, historyRecords[i].msg # None, r.msg # None,
               Sender[historyRecords[i].msg] = Sender[r.msg]
        PROVE  historyRecords[i].msg < r.msg
    <3>1. historyRecords[i].msg \in Msgs
      BY <2>1, <2>2 DEF Records
    <3>2. stage[historyRecords[i].msg] \in Ended
      BY <2>2 DEF RecordsEnded, l
    <3>3. r.msg \in InHand /\ stage[r.msg] \notin Ended
      BY <1>1, <2>2 DEF InHand, Ended
    <3>. QED  BY <2>2, <3>1, <3>2, <3>3, InHandIsNewest DEF Ended
  <2>3. ASSUME NEW i \in 1..(l + 1), NEW j \in 1..(l + 1), i < j,
               new[i].msg # None, new[j].msg # None, Sender[new[i].msg] = Sender[new[j].msg]
        PROVE  new[i].msg < new[j].msg
    <3>1. i \in 1..l /\ (j \in 1..l \/ j = l + 1)
      BY <2>1, <2>3
    <3>2. CASE j = l + 1
      BY <2>1, <2>2, <2>3, <3>1, <3>2
    <3>3. CASE j \in 1..l
      BY <2>1, <2>3, <3>1, <3>3 DEF RecordsFollow, l
    <3>. QED  BY <3>1, <3>2, <3>3
  <2>4. RecordsFollow(new)
    BY <2>1, <2>3 DEF RecordsFollow
  <2>. QED  BY <2>4 DEF new
<1>2. RecordsFollow(recs)
  <2>1. CASE \E m \in Msgs : stage[m] = "toDirect" /\ recs = Append(historyRecords, DirectRecord(m))
    <3>1. PICK m \in Msgs : stage[m] = "toDirect" /\ recs = Append(historyRecords, DirectRecord(m))
      BY <2>1
    <3>2. DirectRecord(m).msg \in InHand
      BY <3>1 DEF DirectRecord, Rec, InHand
    <3>. QED  BY <1>1, <3>1, <3>2
  <2>2. CASE \E m \in Msgs : stage[m] = "toRecord" /\ recs = Append(historyRecords, OfflineRecord(m))
    <3>1. PICK m \in Msgs : stage[m] = "toRecord" /\ recs = Append(historyRecords, OfflineRecord(m))
      BY <2>2
    <3>2. OfflineRecord(m).msg \in InHand
      BY <3>1 DEF OfflineRecord, Rec, InHand
    <3>. QED  BY <1>1, <3>1, <3>2
  <2>3. CASE \E s \in Sessions : recs = MarkedBy(s)
    <3>1. PICK s \in Sessions : recs = MarkedBy(s)
      BY <2>3
    <3>2. /\ Len(recs) = Len(historyRecords)
          /\ \A i \in 1..Len(recs) : recs[i].msg = historyRecords[i].msg
      BY <1>0, <3>1, MarkingFlags DEF MarkedBy
    <3>. QED  BY <3>2 DEF RecordsFollow
  <2>4. CASE \E id \in ServerIds[lab] : recs = Append(historyRecords, ServerRecord(id))
    <3>1. \A id \in ServerIds[lab] : ServerRecord(id).msg = None
      BY DEF ServerRecord, Rec
    <3>. QED  BY <1>1, <2>4, <3>1
  <2>. QED  BY <2>1, <2>2, <2>3, <2>4 DEF BeingSaved
<1>3. /\ n \in Nat /\ Len(SubSeq(recs, 1, n)) = n
      /\ \A i \in 1..n : SubSeq(recs, 1, n)[i] = recs[i] /\ i \in 1..Len(recs)
  BY <1>0, PrefixType
<1>. QED  BY <1>2, <1>3 DEF RecordsFollow
\* After a step no record is about a message still in hand.
LEMMA RecordsEndedStep ==
    ASSUME TypeInv, OneAtATime, RecordsEnded, [Next]_vars
    PROVE  RecordsEnded'
<1>. USE OfflineDeliveryAssumption DEF Ended
<1>0. historyRecords \in Seq(Records) /\ stage \in [Msgs -> Stages]
  BY DEF TypeInv, TypeOK
<1>1. \A m \in Msgs : stage[m] \in Ended => stage'[m] \in Ended
  BY StagesAdvance
<1>2. \A i \in 1..Len(historyRecords) : historyRecords[i].msg \in Msgs \cup {None}
  <2>1. \A i \in 1..Len(historyRecords) : historyRecords[i] \in Records
    BY <1>0
  <2>. QED  BY <2>1 DEF Records
<1>3. ASSUME /\ Len(historyRecords') = Len(historyRecords)
             /\ \A i \in 1..Len(historyRecords) : historyRecords'[i].msg = historyRecords[i].msg
      PROVE  RecordsEnded'
  BY <1>1, <1>2, <1>3 DEF RecordsEnded
<1>4. ASSUME NEW r, historyRecords' = Append(historyRecords, r), r.msg # None => stage'[r.msg] \in Ended
      PROVE  RecordsEnded'
  <2>1. /\ Len(historyRecords) \in Nat /\ Len(historyRecords') = Len(historyRecords) + 1
        /\ \A i \in 1..Len(historyRecords) : historyRecords'[i] = historyRecords[i]
        /\ historyRecords'[Len(historyRecords) + 1] = r
    BY <1>0, <1>4
  <2>2. \A i \in 1..Len(historyRecords') : i \in 1..Len(historyRecords) \/ i = Len(historyRecords) + 1
    BY <2>1
  <2>3. \A i \in 1..Len(historyRecords) :
           historyRecords[i].msg # None => stage'[historyRecords[i].msg] \in Ended
    BY <1>1, <1>2 DEF RecordsEnded
  <2>4. ASSUME NEW i \in 1..Len(historyRecords'), historyRecords'[i].msg # None
        PROVE  stage'[historyRecords'[i].msg] \in Ended
    <3>1. CASE i \in 1..Len(historyRecords)
      BY <2>1, <2>3, <2>4, <3>1
    <3>2. CASE i = Len(historyRecords) + 1
      BY <1>4, <2>1, <2>4, <3>2
    <3>. QED  BY <2>2, <3>1, <3>2
  <2>. QED  BY <2>4 DEF RecordsEnded
<1>5. ASSUME NEW m \in Msgs, RecordDirect(m) PROVE RecordsEnded'
  BY <1>0, <1>4, <1>5 DEF RecordDirect, DirectRecord, Rec, Advance
<1>6. ASSUME NEW m \in Msgs, RecordOffline(m) PROVE RecordsEnded'
  BY <1>0, <1>4, <1>6 DEF RecordOffline, OfflineRecord, Rec, Advance
<1>7. ASSUME NEW s \in Sessions, RecordConnect(s) \/ RecordDisconnect(s) PROVE RecordsEnded'
  <2>1. \A id \in ServerIds[lab] : ServerRecord(id).msg = None
    BY DEF ServerRecord, Rec
  <2>. QED  BY <1>4, <1>7, <2>1 DEF RecordConnect, RecordDisconnect, RecordOwn
<1>8. ASSUME NEW s \in Sessions, MarkDelivered(s) PROVE RecordsEnded'
  <2>1. historyRecords' = markHistoryDelivered(historyRecords, MsgId(Current(s)))
    BY <1>8 DEF MarkDelivered, MarkedBy
  <2>. QED  BY <1>0, <1>3, <2>1, MarkingFlags
<1>9. ASSUME NEW recs \in BeingSaved \cup {historyRecords}, NEW n \in 0..Len(recs),
             Restart(SubSeq(recs, 1, n))
      PROVE  RecordsEnded'
  <2>1. recs \in Seq(Records)
    BY SavedType
  <2>2. \A m \in Msgs : stage'[m] = IF m \in InHand THEN "lost" ELSE stage[m]
    BY <1>9 DEF Restart
  <2>3. \A i \in 1..Len(historyRecords) :
           historyRecords[i].msg # None => stage'[historyRecords[i].msg] \in Ended
    BY <1>1, <1>2 DEF RecordsEnded
  <2>4. ASSUME NEW r, r.msg # None => r.msg \in InHand, recs = Append(historyRecords, r)
        PROVE  \A i \in 1..Len(recs) : recs[i].msg # None => stage'[recs[i].msg] \in Ended
    <3>1. /\ Len(historyRecords) \in Nat /\ Len(recs) = Len(historyRecords) + 1
          /\ \A i \in 1..Len(historyRecords) : recs[i] = historyRecords[i]
          /\ recs[Len(historyRecords) + 1] = r
      BY <1>0, <2>4
    <3>2. r.msg # None => stage'[r.msg] \in Ended
      BY <2>2, <2>4 DEF InHand
    <3>3. \A i \in 1..Len(recs) : i \in 1..Len(historyRecords) \/ i = Len(historyRecords) + 1
      BY <3>1
    <3>. QED  BY <2>3, <3>1, <3>2, <3>3
  <2>5. \A i \in 1..Len(recs) : recs[i].msg # None => stage'[recs[i].msg] \in Ended
    <3>1. CASE recs = historyRecords
      BY <2>3, <3>1
    <3>2. CASE \E m \in Msgs : stage[m] = "toDirect" /\ recs = Append(historyRecords, DirectRecord(m))
      BY <2>4, <3>2 DEF DirectRecord, Rec, InHand
    <3>3. CASE \E m \in Msgs : stage[m] = "toRecord" /\ recs = Append(historyRecords, OfflineRecord(m))
      BY <2>4, <3>3 DEF OfflineRecord, Rec, InHand
    <3>4. CASE \E s \in Sessions : recs = MarkedBy(s)
      BY <1>0, <2>3, <3>4, MarkingFlags DEF MarkedBy
    <3>5. CASE \E id \in ServerIds[lab] : recs = Append(historyRecords, ServerRecord(id))
      BY <2>4, <3>5 DEF ServerRecord, Rec
    <3>. QED  BY <3>1, <3>2, <3>3, <3>4, <3>5 DEF BeingSaved
  <2>6. historyRecords' = SubSeq(recs, 1, n) \/ historyRecords' = <<>>
    BY <1>9 DEF Restart, Kept
  <2>7. /\ Len(SubSeq(recs, 1, n)) = n
        /\ \A i \in 1..n : SubSeq(recs, 1, n)[i] = recs[i] /\ i \in 1..Len(recs)
    BY <2>1, PrefixType
  <2>. QED  BY <2>5, <2>6, <2>7 DEF RecordsEnded
<1>10. ASSUME Crash PROVE RecordsEnded'
  <2>1. Len(historyRecords) \in 0..Len(historyRecords)
        /\ SubSeq(historyRecords, 1, Len(historyRecords)) = historyRecords
    BY <1>0
  <2>. QED  BY <1>9, <1>10, <2>1 DEF Crash
<1>11. ASSUME CrashWhileSaving PROVE RecordsEnded'
  BY <1>9, <1>11 DEF CrashWhileSaving, Torn
<1>12. ASSUME historyRecords' = historyRecords PROVE RecordsEnded'
  BY <1>3, <1>12
<1>13. ASSUME NEW m \in Msgs, RouteToClient(m) \/ RouteToQueue(m) \/ PushOffline(m)
       PROVE  RecordsEnded'
  BY <1>12, <1>13 DEF RouteToClient, RouteToQueue, PushOffline
<1>14. ASSUME NEW s \in Sessions,
              \/ CheckNickname(s) \/ AddClient(s) \/ SnapshotQueue(s) \/ NothingToDeliver(s)
              \/ SendOffline(s) \/ SendFails(s) \/ WriteBack(s) \/ PeerLeaves(s)
              \/ RemoveClient(s)
       PROVE  RecordsEnded'
  BY <1>12, <1>14 DEF CheckNickname, AddClient, SnapshotQueue, NothingToDeliver, SendOffline,
       SendFails, WriteBack, PeerLeaves, RemoveClient
<1>15. ASSUME UNCHANGED vars PROVE RecordsEnded'
  BY <1>12, <1>15 DEF vars
<1>. QED
  BY <1>5, <1>6, <1>7, <1>8, <1>10, <1>11, <1>13, <1>14, <1>15 DEF Next, SenderStep, ReceiverStep

\* What RecordsFollow says of a history holds of the queue read back from it.
LEMMA ReloadedOrdered ==
    ASSUME NEW recs \in Seq(Records), OfflineNamed(recs), RecordsFollow(recs)
    PROVE  Ordered(Reloaded(recs))
<1>1. PICK f \in [1..Len(Reloaded(recs)) -> 1..Len(recs)] :
         /\ \A k \in 1..Len(Reloaded(recs)) :
               IsUndelivered(recs[f[k]]) /\ Reloaded(recs)[k] = recs[f[k]].msg
         /\ \A j, k \in 1..Len(Reloaded(recs)) : j < k => f[j] < f[k]
  BY ReloadedWithin
<1>2. \A k \in 1..Len(Reloaded(recs)) : f[k] \in 1..Len(recs) /\ recs[f[k]].msg \in Msgs
  BY <1>1 DEF OfflineNamed, IsUndelivered
<1>3. None \notin Msgs
  BY OfflineDeliveryAssumption
<1>. QED  BY <1>1, <1>2, <1>3 DEF Ordered, RecordsFollow

\* A message in hand may be appended to a queue of messages that are queued.
LEMMA PushOrdered ==
    ASSUME TypeInv, OneAtATime, NEW m \in Msgs, stage[m] = "toStore",
           NEW q \in Seq(Msgs), Ordered(q), AllQueued(q)
    PROVE  Ordered(Append(q, m))
<1>1. /\ Len(q) \in Nat /\ Len(Append(q, m)) = Len(q) + 1
      /\ \A i \in 1..Len(q) : Append(q, m)[i] = q[i] /\ q[i] \in Msgs
      /\ Append(q, m)[Len(q) + 1] = m
  OBVIOUS
<1>2. ASSUME NEW i \in 1..Len(q), Sender[q[i]] = Sender[m] PROVE q[i] < m
  <2>1. m \in InHand /\ stage[q[i]] \in Queued /\ q[i] \in Msgs
    BY <1>1 DEF InHand, AllQueued
  <2>. QED  BY <1>2, <2>1, InHandIsNewest DEF Queued
<1>3. ASSUME NEW i \in 1..(Len(q) + 1), NEW j \in 1..(Len(q) + 1), i < j,
             Sender[Append(q, m)[i]] = Sender[Append(q, m)[j]],
             Receiver[Append(q, m)[i]] = Receiver[Append(q, m)[j]]
      PROVE  Append(q, m)[i] < Append(q, m)[j]
  <2>1. i \in 1..Len(q) /\ (j \in 1..Len(q) \/ j = Len(q) + 1)
    BY <1>1, <1>3
  <2>2. CASE j \in 1..Len(q)
    BY <1>1, <1>3, <2>1, <2>2 DEF Ordered
  <2>3. CASE j = Len(q) + 1
    BY <1>1, <1>2, <1>3, <2>1, <2>3
  <2>. QED  BY <2>1, <2>2, <2>3
<1>. QED  BY <1>1, <1>3 DEF Ordered

\* Two ordered queues for different receivers make an ordered one.
LEMMA JoinOrdered ==
    ASSUME NEW p \in Seq(Msgs), NEW q \in Seq(Msgs), NEW s \in Sessions,
           Ordered(p), Ordered(q), AllQueued(p), AllQueued(q),
           \A i \in 1..Len(p) : ~IsFor(s, p[i]), \A i \in 1..Len(q) : IsFor(s, q[i])
    PROVE  Ordered(p \o q) /\ AllQueued(p \o q)
<1>. DEFINE a == Len(p)
            b == Len(q)
            r == p \o q
<1>1. /\ a \in Nat /\ b \in Nat /\ Len(r) = a + b
      /\ \A i \in 1..(a + b) : r[i] = IF i <= a THEN p[i] ELSE q[i - a]
  OBVIOUS
<1>. HIDE DEF r
<1>2. \A i \in 1..(a + b) : (i <= a => i \in 1..a) /\ (~(i <= a) => i - a \in 1..b)
  BY <1>1
<1>3. AllQueued(r)
  BY <1>1, <1>2 DEF AllQueued
<1>4. ASSUME NEW i \in 1..(a + b), NEW j \in 1..(a + b), i < j,
             Sender[r[i]] = Sender[r[j]], Receiver[r[i]] = Receiver[r[j]]
      PROVE  r[i] < r[j]
  <2>1. CASE i <= a /\ j <= a
    BY <1>1, <1>2, <1>4, <2>1 DEF Ordered
  <2>2. CASE ~(i <= a) /\ ~(j <= a)
    <3>1. i - a < j - a
      BY <1>1, <1>4, <2>2
    <3>. QED  BY <1>1, <1>2, <1>4, <2>2, <3>1 DEF Ordered
  <2>3. CASE i <= a /\ ~(j <= a)
    BY <1>1, <1>2, <1>4, <2>3 DEF IsFor
  <2>4. CASE ~(i <= a) /\ j <= a
    BY <1>1, <1>4, <2>4
  <2>. QED  BY <2>1, <2>2, <2>3, <2>4
<1>5. Ordered(r)
  BY <1>1, <1>4 DEF Ordered
<1>. QED  BY <1>3, <1>5 DEF r
\* What is queued in q stays queued in a step.
LEMMA StillQueued ==
    ASSUME TypeInv, OneAtATime, [Next]_vars, NEW q \in Seq(Msgs), AllQueued(q)
    PROVE  \A i \in 1..Len(q) : stage'[q[i]] \in Queued
<1>1. \A i \in 1..Len(q) : q[i] \in Msgs
  OBVIOUS
<1>. QED  BY <1>1, StagesAdvance DEF AllQueued

LEMMA QueueOrderStep ==
    ASSUME TypeInv, TypeInv', OrderInv, RecordsFollow(historyRecords'), RecordsEnded', [Next]_vars
    PROVE  QueueOrder'
<1>. USE DEF Ended, Queued
<1>0. /\ offlineQueue \in Seq(Msgs) /\ Ordered(offlineQueue) /\ AllQueued(offlineQueue)
      /\ OneAtATime /\ stage \in [Msgs -> Stages]
  BY DEF TypeInv, TypeOK, OrderInv, QueueOrder
<1>1. ASSUME NEW q \in Seq(Msgs), Ordered(q), AllQueued(q), offlineQueue' = q
      PROVE  QueueOrder'
  <2>1. \A i \in 1..Len(q) : stage'[q[i]] \in Queued
    BY <1>0, <1>1, StillQueued
  <2>. QED  BY <1>1, <2>1 DEF QueueOrder, Ordered, AllQueued
<1>2. ASSUME offlineQueue' = offlineQueue PROVE QueueOrder'
  BY <1>0, <1>1, <1>2
<1>3. ASSUME NEW m \in Msgs, PushOffline(m) PROVE QueueOrder'
  <2>1. stage[m] = "toStore" /\ offlineQueue' = Append(offlineQueue, m) /\ stage'[m] \in Queued
    BY <1>0, <1>3 DEF PushOffline, Advance
  <2>2. Ordered(Append(offlineQueue, m))
    BY <1>0, <2>1, PushOrdered
  <2>3. \A i \in 1..Len(offlineQueue) : stage'[offlineQueue[i]] \in Queued
    BY <1>0, StillQueued
  <2>4. \A i \in 1..(Len(offlineQueue) + 1) :
           stage'[Append(offlineQueue, m)[i]] \in Queued
    BY <1>0, <2>1, <2>3
  <2>5. Len(Append(offlineQueue, m)) = Len(offlineQueue) + 1
    BY <1>0
  <2>. QED  BY <2>1, <2>2, <2>4, <2>5 DEF QueueOrder, Ordered, AllQueued
<1>4. ASSUME NEW s \in Sessions, WriteBack(s) PROVE QueueOrder'
  <2>1. keepQueue[s] \in Seq(Msgs) /\ failedDelivery[s] \in Seq(Msgs)
    BY DEF TypeInv, TypeOK
  <2>2. Pending(s) = failedDelivery[s]
    BY <1>4, <2>1 DEF WriteBack, Pending
  <2>3. CopyOrder(s)
    BY DEF OrderInv, CopiesOrder
  <2>4. Ordered(keepQueue[s] \o failedDelivery[s]) /\ AllQueued(keepQueue[s] \o failedDelivery[s])
    BY <2>1, <2>2, <2>3, JoinOrdered DEF CopyOrder
  <2>5. keepQueue[s] \o failedDelivery[s] \in Seq(Msgs)
    BY <2>1
  <2>. QED  BY <1>1, <1>4, <2>4, <2>5 DEF WriteBack
<1>5. ASSUME NEW recs, Restart(recs) PROVE QueueOrder'
  <2>1. historyRecords' \in Seq(Records) /\ OfflineNamed(historyRecords')
    BY DEF TypeInv, TypeOK
  <2>2. offlineQueue' = Reloaded(historyRecords')
    BY <1>5 DEF Restart
  <2>3. Ordered(offlineQueue')
    BY <2>1, <2>2, ReloadedOrdered
  <2>4. PICK f \in [1..Len(offlineQueue') -> 1..Len(historyRecords')] :
           \A k \in 1..Len(offlineQueue') :
              IsUndelivered(historyRecords'[f[k]]) /\ offlineQueue'[k] = historyRecords'[f[k]].msg
    BY <2>1, <2>2, ReloadedWithin
  <2>5. ASSUME NEW k \in 1..Len(offlineQueue') PROVE stage'[offlineQueue'[k]] \in Queued
    <3>1. f[k] \in 1..Len(historyRecords') /\ historyRecords'[f[k]].msg \in Msgs
      BY <2>1, <2>4, <2>5 DEF OfflineNamed, IsUndelivered
    <3>2. historyRecords'[f[k]].msg # None
      BY <3>1, OfflineDeliveryAssumption
    <3>. QED  BY <2>4, <2>5, <3>1, <3>2 DEF RecordsEnded
  <2>. QED  BY <2>3, <2>5 DEF QueueOrder, Ordered, AllQueued
<1>6. ASSUME NEW m \in Msgs,
             RouteToClient(m) \/ RecordDirect(m) \/ RouteToQueue(m) \/ RecordOffline(m)
      PROVE  QueueOrder'
  BY <1>2, <1>6 DEF RouteToClient, RecordDirect, RouteToQueue, RecordOffline
<1>7. ASSUME NEW s \in Sessions,
             \/ CheckNickname(s) \/ AddClient(s) \/ RecordConnect(s) \/ NothingToDeliver(s)
             \/ SendOffline(s) \/ PeerLeaves(s) \/ RemoveClient(s) \/ RecordDisconnect(s)
             \/ SnapshotQueue(s) \/ SendFails(s) \/ MarkDelivered(s)
      PROVE  QueueOrder'
  BY <1>2, <1>7 DEF CheckNickname, AddClient, RecordConnect, RecordDisconnect, RecordOwn,
       NothingToDeliver, SendOffline, PeerLeaves, RemoveClient, SnapshotQueue, SendFails,
       MarkDelivered
<1>8. ASSUME Crash \/ CrashWhileSaving PROVE QueueOrder'
  BY <1>5, <1>8 DEF Crash, CrashWhileSaving
<1>9. ASSUME UNCHANGED vars PROVE QueueOrder'
  BY <1>2, <1>9 DEF vars
<1>. QED  BY <1>3, <1>4, <1>6, <1>7, <1>8, <1>9 DEF Next, SenderStep, ReceiverStep

LEMMA CopiesOrderStep ==
    ASSUME TypeInv, OrderInv, [Next]_vars
    PROVE  CopiesOrder'
<1>0. /\ offlineQueue \in Seq(Msgs) /\ Ordered(offlineQueue) /\ AllQueued(offlineQueue)
      /\ OneAtATime /\ CopiesOrder
      /\ phase \in [Sessions -> Phases]
      /\ forDelivery \in [Sessions -> Seq(Msgs)]
      /\ keepQueue \in [Sessions -> Seq(Msgs)]
      /\ failedDelivery \in [Sessions -> Seq(Msgs)]
  BY DEF TypeInv, TypeOK, OrderInv, QueueOrder
<1>1. ASSUME NEW s \in Sessions
      PROVE  forDelivery[s] \in Seq(Msgs) /\ keepQueue[s] \in Seq(Msgs)
             /\ failedDelivery[s] \in Seq(Msgs) /\ Pending(s) \in Seq(Msgs)
  BY <1>0 DEF Pending
<1>2. ASSUME NEW s \in Sessions, NEW p \in Seq(Msgs), NEW k \in Seq(Msgs),
             Pending(s)' = p, keepQueue'[s] = k,
             Ordered(p), AllQueued(p), Ordered(k), AllQueued(k),
             \A i \in 1..Len(p) : IsFor(s, p[i]),
             \A i \in 1..Len(k) : ~IsFor(s, k[i]),
             phase'[s] \notin {"delivering", "marking"} => p = <<>>
      PROVE  CopyOrder(s)'
  <2>1. /\ \A i \in 1..Len(p) : stage'[p[i]] \in Queued
        /\ \A i \in 1..Len(k) : stage'[k[i]] \in Queued
    BY <1>0, <1>2, StillQueued
  <2>2. Ordered(Pending(s))' /\ AllQueued(Pending(s))'
    BY <1>2, <2>1 DEF Ordered, AllQueued
  <2>3. Ordered(keepQueue[s])' /\ AllQueued(keepQueue[s])'
    BY <1>2, <2>1 DEF Ordered, AllQueued
  <2>. QED  BY <1>2, <2>2, <2>3 DEF CopyOrder, IsFor
<1>3. ASSUME NEW s \in Sessions, forDelivery'[s] = forDelivery[s], keepQueue'[s] = keepQueue[s],
             failedDelivery'[s] = failedDelivery[s],
             \/ phase'[s] = phase[s]
             \/ phase[s] \notin {"delivering", "marking"}
             \/ phase'[s] \in {"delivering", "marking"}
      PROVE  CopyOrder(s)'
  <2>1. CopyOrder(s)
    BY <1>0 DEF CopiesOrder
  <2>2. Pending(s)' = Pending(s)
    BY <1>3 DEF Pending
  <2>. QED  BY <1>1, <1>2, <1>3, <2>1, <2>2 DEF CopyOrder
<1>4. ASSUME NEW t \in Sessions, NEW s \in Sessions \ {t}, ReceiverStep(t) PROVE CopyOrder(s)'
  <2>1. phase'[s] = phase[s]
    BY <1>0, <1>4 DEF ReceiverStep, CheckNickname, AddClient, RecordConnect, RecordDisconnect,
         RecordOwn, NothingToDeliver, SendOffline, PeerLeaves, RemoveClient, SnapshotQueue,
         SendFails, MarkDelivered, WriteBack, Enter
  <2>2. forDelivery'[s] = forDelivery[s] /\ keepQueue'[s] = keepQueue[s]
        /\ failedDelivery'[s] = failedDelivery[s]
    BY <1>0, <1>4 DEF ReceiverStep, CheckNickname, AddClient, RecordConnect, RecordDisconnect,
         RecordOwn, NothingToDeliver, SendOffline, PeerLeaves, RemoveClient, SnapshotQueue,
         SendFails, MarkDelivered, WriteBack
  <2>. QED  BY <1>3, <2>1, <2>2
<1>5. ASSUME NEW s \in Sessions, SnapshotQueue(s) PROVE CopyOrder(s)'
  <2>. DEFINE I == PlacesFor(s)
              J == 1..Len(offlineQueue) \ PlacesFor(s)
  <2>1. I \in SUBSET (1..Len(offlineQueue)) /\ J \in SUBSET (1..Len(offlineQueue))
    BY DEF PlacesFor
  <2>2. /\ \A i \in I : IsFor(s, offlineQueue[i])
        /\ \A i \in J : ~IsFor(s, offlineQueue[i])
    BY DEF PlacesFor
  <2>3. /\ forDelivery'[s] = Pick(offlineQueue, I) /\ keepQueue'[s] = Pick(offlineQueue, J)
        /\ failedDelivery'[s] = failedDelivery[s] /\ phase[s] = "ready"
        /\ phase'[s] = "delivering"
    BY <1>0, <1>5 DEF SnapshotQueue, Enter
  <2>. HIDE DEF I, J
  <2>4. Pending(s) = <<>>
    BY <1>0, <2>3 DEF CopiesOrder, CopyOrder
  <2>5. failedDelivery[s] = <<>>
    <3>1. Len(failedDelivery[s]) = 0
      <4>1. Len(Pending(s)) = Len(failedDelivery[s]) + Len(forDelivery[s])
        BY <1>1 DEF Pending
      <4>2. Len(Pending(s)) = 0 /\ Len(failedDelivery[s]) \in Nat /\ Len(forDelivery[s]) \in Nat
        BY <1>1, <2>4
      <4>3. \A a, b \in Nat : a + b = 0 => a = 0
        OBVIOUS
      <4>. QED  BY <4>1, <4>2, <4>3
    <3>. QED  BY <1>1, <3>1
  <2>6. /\ Pick(offlineQueue, I) \in Seq(Msgs) /\ Within(Pick(offlineQueue, I), offlineQueue)
        /\ \A k \in 1..Len(Pick(offlineQueue, I)) :
              \E i \in I : Pick(offlineQueue, I)[k] = offlineQueue[i]
    BY <1>0, <2>1, PickWithin
  <2>7. /\ Pick(offlineQueue, J) \in Seq(Msgs) /\ Within(Pick(offlineQueue, J), offlineQueue)
        /\ \A k \in 1..Len(Pick(offlineQueue, J)) :
              \E i \in J : Pick(offlineQueue, J)[k] = offlineQueue[i]
    BY <1>0, <2>1, PickWithin
  <2>8. Pending(s)' = Pick(offlineQueue, I)
    BY <2>3, <2>5, <2>6 DEF Pending
  <2>9. /\ Ordered(Pick(offlineQueue, I)) /\ AllQueued(Pick(offlineQueue, I))
        /\ Ordered(Pick(offlineQueue, J)) /\ AllQueued(Pick(offlineQueue, J))
    BY <1>0, <2>6, <2>7, WithinOrdered
  <2>10. /\ \A k \in 1..Len(Pick(offlineQueue, I)) : IsFor(s, Pick(offlineQueue, I)[k])
         /\ \A k \in 1..Len(Pick(offlineQueue, J)) : ~IsFor(s, Pick(offlineQueue, J)[k])
    BY <2>2, <2>6, <2>7
  <2>. QED  BY <1>2, <2>3, <2>6, <2>7, <2>8, <2>9, <2>10
<1>6. ASSUME NEW s \in Sessions, forDelivery[s] # <<>>, phase[s] \in {"delivering", "marking"}
      PROVE  /\ Append(failedDelivery[s], Current(s)) \o Tail(forDelivery[s]) = Pending(s)
             /\ failedDelivery[s] \o Tail(forDelivery[s]) \in Seq(Msgs)
             /\ Within(failedDelivery[s] \o Tail(forDelivery[s]), Pending(s))
  <2>1. /\ failedDelivery[s] \o Tail(forDelivery[s]) \in Seq(Msgs)
        /\ Within(failedDelivery[s] \o Tail(forDelivery[s]), Pending(s))
    BY <1>1, <1>6, SkipWithin DEF Pending
  <2>2. Append(failedDelivery[s], Current(s)) \o Tail(forDelivery[s]) = Pending(s)
    BY <1>1, <1>6, MoveOver DEF Pending, Current
  <2>. QED  BY <2>1, <2>2
<1>7. ASSUME NEW s \in Sessions, SendFails(s) PROVE CopyOrder(s)'
  <2>1. CopyOrder(s)
    BY <1>0 DEF CopiesOrder
  <2>2. /\ forDelivery'[s] = Tail(forDelivery[s]) /\ forDelivery[s] # <<>>
        /\ failedDelivery'[s] = Append(failedDelivery[s], Current(s))
        /\ phase[s] = "delivering" /\ phase'[s] = "delivering" /\ keepQueue'[s] = keepQueue[s]
    BY <1>0, <1>7 DEF SendFails, Delivering
  <2>3. Pending(s)' = Pending(s)
    BY <1>6, <2>2 DEF Pending
  <2>. QED  BY <1>1, <1>2, <2>1, <2>2, <2>3 DEF CopyOrder
<1>8. ASSUME NEW s \in Sessions, MarkDelivered(s) PROVE CopyOrder(s)'
  <2>1. CopyOrder(s)
    BY <1>0 DEF CopiesOrder
  <2>2. forDelivery[s] # <<>>
    BY <1>8 DEF MarkDelivered, TypeInv, MarkingHasMessage
  <2>3. /\ forDelivery'[s] = Tail(forDelivery[s])
        /\ failedDelivery'[s] = failedDelivery[s]
        /\ phase[s] = "marking" /\ phase'[s] = "delivering" /\ keepQueue'[s] = keepQueue[s]
    BY <1>0, <1>8 DEF MarkDelivered, Enter
  <2>. DEFINE p == failedDelivery[s] \o Tail(forDelivery[s])
  <2>4. Pending(s)' = p
    BY <2>3 DEF Pending
  <2>5. p \in Seq(Msgs) /\ Within(p, Pending(s))
    BY <1>6, <2>2, <2>3
  <2>. HIDE DEF p
  <2>6. Ordered(p) /\ AllQueued(p) /\ \A i \in 1..Len(p) : IsFor(s, p[i])
    BY <1>1, <2>1, <2>5, WithinOrdered DEF CopyOrder
  <2>. QED  BY <1>1, <1>2, <2>1, <2>3, <2>4, <2>5, <2>6 DEF CopyOrder
<1>9. ASSUME NEW s \in Sessions, forDelivery'[s] = <<>>, keepQueue'[s] = <<>>,
             failedDelivery'[s] = <<>>
      PROVE  CopyOrder(s)'
  <2>1. <<>> \in Seq(Msgs) /\ Pending(s)' = <<>> /\ Len(<<>>) = 0
    BY <1>9 DEF Pending
  <2>2. Ordered(<<>>) /\ AllQueued(<<>>)
    BY DEF Ordered, AllQueued
  <2>3. \A i \in 1..Len(<<>>) : FALSE
    BY <2>1
  <2>. DEFINE e == <<>>
  <2>4. e \in Seq(Msgs) /\ Ordered(e) /\ AllQueued(e) /\ Pending(s)' = e /\ keepQueue'[s] = e
        /\ \A i \in 1..Len(e) : FALSE
    BY <1>9, <2>1, <2>2, <2>3
  <2>. HIDE DEF e
  <2>5. phase'[s] \notin {"delivering", "marking"} => e = <<>>
    BY DEF e
  <2>. QED  BY <1>2, <2>4, <2>5
<1>10. ASSUME NEW s \in Sessions, WriteBack(s) PROVE CopyOrder(s)'
  <2>1. forDelivery'[s] = <<>> /\ keepQueue'[s] = <<>> /\ failedDelivery'[s] = <<>>
    BY <1>0, <1>10 DEF WriteBack
  <2>. QED  BY <1>9, <2>1
<1>11. ASSUME NEW s \in Sessions,
              \/ CheckNickname(s) \/ AddClient(s) \/ RecordConnect(s) \/ NothingToDeliver(s)
              \/ SendOffline(s) \/ PeerLeaves(s) \/ RemoveClient(s) \/ RecordDisconnect(s)
       PROVE  CopyOrder(s)'
  <2>1. UNCHANGED <<forDelivery, keepQueue, failedDelivery>>
    BY <1>11 DEF CheckNickname, AddClient, RecordConnect, RecordDisconnect, RecordOwn,
         NothingToDeliver, SendOffline, PeerLeaves, RemoveClient
  <2>2. \/ phase'[s] = phase[s]
        \/ phase[s] \notin {"delivering", "marking"}
        \/ phase'[s] \in {"delivering", "marking"}
    BY <1>0, <1>11 DEF CheckNickname, AddClient, RecordConnect, RecordDisconnect, RecordOwn,
         NothingToDeliver, SendOffline, PeerLeaves, RemoveClient, Enter, Delivering
  <2>. QED  BY <1>3, <2>1, <2>2
<1>12. ASSUME NEW m \in Msgs, SenderStep(m), NEW s \in Sessions PROVE CopyOrder(s)'
  BY <1>3, <1>12 DEF SenderStep, RouteToClient, RecordDirect, RouteToQueue, PushOffline,
       RecordOffline, handlerVars
<1>13. ASSUME Crash \/ CrashWhileSaving, NEW s \in Sessions PROVE CopyOrder(s)'
  BY <1>9, <1>13 DEF Crash, CrashWhileSaving, Restart
<1>14. ASSUME UNCHANGED vars, NEW s \in Sessions PROVE CopyOrder(s)'
  BY <1>3, <1>14 DEF vars
<1>15. ASSUME NEW t \in Sessions, ReceiverStep(t), NEW s \in Sessions PROVE CopyOrder(s)'
  <2>1. CASE s = t
    BY <1>5, <1>7, <1>8, <1>10, <1>11, <1>15, <2>1 DEF ReceiverStep
  <2>. QED  BY <1>4, <1>15, <2>1
<1>16. ASSUME NEW s \in Sessions PROVE CopyOrder(s)'
  BY <1>12, <1>13, <1>14, <1>15 DEF Next
<1>. QED  BY <1>16 DEF CopiesOrder

\* Queue, copies and history have the senders' order in every reachable state.
LEMMA OrderInvariant == Spec => []OrderInv
<1>1. Init => OrderInv
  BY DEF Init, OrderInv, OneAtATime, QueueOrder, CopiesOrder, CopyOrder, Pending, Ordered,
       AllQueued, RecordsFollow, RecordsEnded
<1>2. TypeInv /\ TypeInv' /\ OrderInv /\ [Next]_vars => OrderInv'
  <2>. SUFFICES ASSUME TypeInv, TypeInv', OrderInv, [Next]_vars PROVE OrderInv'
    OBVIOUS
  <2>1. PICK recs \in BeingSaved \cup {historyRecords} :
           \E n \in 0..Len(recs) : historyRecords' = SubSeq(recs, 1, n)
    BY HistoryStep
  <2>2. RecordsFollow(historyRecords')
    BY <2>1, SavedFollow DEF OrderInv
  <2>3. OneAtATime' /\ RecordsEnded'
    BY StagesAdvance, RecordsEndedStep DEF OrderInv
  <2>4. QueueOrder' /\ CopiesOrder'
    BY <2>2, <2>3, QueueOrderStep, CopiesOrderStep
  <2>. QED  BY <2>2, <2>3, <2>4 DEF OrderInv, RecordsFollow
<1>. QED  BY <1>1, <1>2, TypeInvariant, PTL DEF Spec

\* Messages of one sender to one receiver lie in the queue in the order they were
\* sent, whatever deliveries fail, copies are written back and restarts happen.
THEOREM QueueKeepsOrder == Spec => []PerSenderOrder
<1>1. OrderInv => PerSenderOrder
  BY DEF OrderInv, QueueOrder, Ordered, PerSenderOrder
<1>. QED  BY <1>1, OrderInvariant, PTL

\* No message is in the queue, or in one handler's copies of it, twice.
THEOREM NothingQueuedTwice == Spec => []NoDuplicateItems
<1>1. TypeInv /\ OrderInv => NoDuplicateItems
  <2>. SUFFICES ASSUME TypeInv, OrderInv PROVE NoDuplicateItems
    OBVIOUS
  <2>0. \A m \in Msgs : ~(m < m)
    BY OfflineDeliveryAssumption
  <2>1. ASSUME NEW q \in Seq(Msgs), Ordered(q), NEW i \in 1..Len(q), NEW j \in 1..Len(q),
               q[i] = q[j]
        PROVE  i = j
    <3>1. q[i] \in Msgs /\ i \in Nat /\ j \in Nat
      OBVIOUS
    <3>2. ~(i < j) /\ ~(j < i)
      BY <2>0, <2>1, <3>1 DEF Ordered
    <3>. QED  BY <3>1, <3>2
  <2>2. ASSUME NEW s \in Sessions
        PROVE  LET q == forDelivery[s] \o keepQueue[s] \o failedDelivery[s]
               IN  \A i, j \in 1..Len(q) : q[i] = q[j] => i = j
    <3>. DEFINE a == forDelivery[s]
                b == keepQueue[s]
                c == failedDelivery[s]
                q == a \o b \o c
                p == c \o a
                l == Len(a)
                n == Len(a) + Len(b)
    <3>1. a \in Seq(Msgs) /\ b \in Seq(Msgs) /\ c \in Seq(Msgs) /\ p \in Seq(Msgs)
      BY DEF TypeInv, TypeOK
    <3>2. /\ Ordered(p) /\ Ordered(b)
          /\ \A i \in 1..Len(p) : IsFor(s, p[i])
          /\ \A i \in 1..Len(b) : ~IsFor(s, b[i])
      BY DEF OrderInv, CopiesOrder, CopyOrder, Pending
    <3>. HIDE DEF a, b, c
    <3>3. /\ l \in Nat /\ Len(b) \in Nat /\ Len(c) \in Nat /\ Len(q) = n + Len(c)
          /\ Len(p) = Len(c) + l
      BY <3>1
    <3>4. ASSUME NEW i \in 1..Len(q)
          PROVE  /\ i <= l => Len(c) + i \in 1..Len(p) /\ q[i] = p[Len(c) + i]
                 /\ l < i /\ i <= n => i - l \in 1..Len(b) /\ q[i] = b[i - l]
                 /\ n < i => i - n \in 1..Len(p) /\ q[i] = p[i - n] /\ i - n <= Len(c)
      BY <3>1, <3>3, <3>4
    <3>. HIDE DEF p, q
    <3>5. ASSUME NEW i \in 1..Len(q), NEW j \in 1..Len(q), q[i] = q[j]
          PROVE  i = j
      <4>0. i \in Nat /\ j \in Nat /\ n \in Nat
        BY <3>3
      <4>1. CASE l < i /\ i <= n
        <5>1. l < j /\ j <= n
          <6>1. i - l \in 1..Len(b) /\ q[i] = b[i - l]
            BY <3>4, <4>1
          <6>2. ~IsFor(s, q[i])
            BY <3>2, <6>1
          <6>3. ~(l < j /\ j <= n) => j <= l \/ n < j
            BY <3>3, <4>0
          <6>4. j <= l \/ n < j => \E k \in 1..Len(p) : q[j] = p[k]
            BY <3>4
          <6>. QED  BY <3>2, <3>5, <6>2, <6>3, <6>4
        <5>2. i - l = j - l
          <6>1. /\ i - l \in 1..Len(b) /\ q[i] = b[i - l]
                /\ j - l \in 1..Len(b) /\ q[j] = b[j - l]
            BY <3>4, <4>1, <5>1
          <6>. DEFINE x == i - l
                      y == j - l
          <6>2. x \in 1..Len(b) /\ y \in 1..Len(b) /\ b[x] = b[y]
            BY <3>5, <6>1
          <6>. HIDE DEF x, y
          <6>3. x = y
            BY <2>1, <3>1, <3>2, <6>2
          <6>. QED  BY <6>3 DEF x, y
        <5>. QED  BY <3>3, <4>0, <5>2
      <4>2. CASE ~(l < i /\ i <= n)
        <5>. DEFINE at(k) == IF k <= l THEN Len(c) + k ELSE k - n
        <5>1. ~(l < j /\ j <= n)
          <6>. SUFFICES ASSUME l < j, j <= n PROVE FALSE
            OBVIOUS
          <6>1. j - l \in 1..Len(b) /\ q[j] = b[j - l]
            BY <3>4
          <6>2. ~IsFor(s, q[j])
            BY <3>2, <6>1
          <6>3. i <= l \/ n < i
            BY <3>3, <4>0, <4>2
          <6>4. \E k \in 1..Len(p) : q[i] = p[k]
            BY <3>4, <6>3
          <6>. QED  BY <3>2, <3>5, <6>2, <6>4
        <5>2. at(i) \in 1..Len(p) /\ at(j) \in 1..Len(p) /\ p[at(i)] = p[at(j)]
          BY <3>3, <3>4, <3>5, <4>0, <4>2, <5>1
        <5>. HIDE DEF at
        <5>3. at(i) = at(j)
          BY <2>1, <3>1, <3>2, <5>2
        <5>. QED  BY <3>3, <3>4, <3>5, <4>0, <4>2, <5>1, <5>3 DEF at
      <4>. QED  BY <4>1, <4>2
    <3>. QED  BY <3>5 DEF q, a, b, c
  <2>3. \A i, j \in 1..Len(offlineQueue) : offlineQueue[i] = offlineQueue[j] => i = j
    BY <2>1 DEF TypeInv, TypeOK, OrderInv, QueueOrder
  <2>. QED  BY <2>2, <2>3 DEF NoDuplicateItems
<1>. QED  BY <1>1, OrderInvariant, TypeInvariant, PTL
(***************************************************************************)
(* Flags.  markHistoryDelivered finds the record it is meant for if every  *)
(* record has an id of its own, as the counter of LAB5 gives them; if not, *)
(* `astray' and `struck' know whose flag is missing and whose is wrong.    *)
(***************************************************************************)
TrueIds(recs) ==
    \A i \in 1..Len(recs) :
        IF recs[i].msg = None THEN recs[i].id \in ServerIds[lab] ELSE recs[i].id = MsgId(recs[i].msg)

\* Sent to its receiver, and the flag not set yet.
BeingMarked == {Current(s) : s \in {t \in Sessions : phase[t] = "marking"}}

\* A message is handed over from the queue only, and while its record is still to
\* be written its flag has been missed already or is about to be.
HandedFromQueue ==
    /\ BeingMarked \subseteq handed
    /\ \A m \in handed : stage[m] \in Queued
    /\ \A m \in handed : stage[m] = "toRecord" => m \in early \cup BeingMarked

FlagInv ==
    TrueIds(historyRecords) /\ HandedFromQueue /\ RedeliveryExcused /\ DurableUntilHanded

\* What a record more, a torn save and a flag do to what a restart brings back.
LEMMA UndeliveredAfterAppend ==
    ASSUME NEW recs \in Seq(Records), NEW r
    PROVE  Undelivered(Append(recs, r)) =
             Undelivered(recs) \cup (IF IsUndelivered(r) THEN {r.msg} ELSE {})
<1>. DEFINE new == Append(recs, r)
<1>1. /\ Len(recs) \in Nat /\ Len(new) = Len(recs) + 1
      /\ \A i \in 1..Len(recs) : new[i] = recs[i]
      /\ new[Len(recs) + 1] = r
  OBVIOUS
<1>. HIDE DEF new
<1>2. \A i \in 1..Len(new) : i \in 1..Len(recs) \/ i = Len(recs) + 1
  BY <1>1
<1>3. (\A i \in 1..Len(recs) : i \in 1..Len(new)) /\ Len(recs) + 1 \in 1..Len(new)
  BY <1>1
<1>4. Undelivered(new) \subseteq Undelivered(recs) \cup (IF IsUndelivered(r) THEN {r.msg} ELSE {})
  BY <1>1, <1>2 DEF Undelivered
<1>5. Undelivered(recs) \subseteq Undelivered(new)
  BY <1>1, <1>3 DEF Undelivered
<1>6. IsUndelivered(r) => r.msg \in Undelivered(new)
  BY <1>1, <1>3 DEF Undelivered
<1>. QED  BY <1>4, <1>5, <1>6 DEF new

LEMMA UndeliveredOfPrefix ==
    ASSUME NEW recs \in Seq(Records), NEW n \in 0..Len(recs)
    PROVE  Undelivered(SubSeq(recs, 1, n)) \subseteq Undelivered(recs)
  BY PrefixType DEF Undelivered

\* What the record is about that the loop for an id stops at.
HitIn(recs, id) == {recs[i].msg : i \in {j \in 1..Len(recs) : IsFirst(recs, j, id)}}

LEMMA UndeliveredAfterMark ==
    ASSUME NEW recs \in Seq(Records), OfflineNamed(recs), RecordsFollow(recs), NEW id
    PROVE  Undelivered(markHistoryDelivered(recs, id)) = Undelivered(recs) \ HitIn(recs, id)
<1>. USE OfflineDeliveryAssumption
<1>. DEFINE new == markHistoryDelivered(recs, id)
<1>1. /\ Len(new) = Len(recs)
      /\ \A i \in 1..Len(recs) :
            /\ new[i].msg = recs[i].msg
            /\ IsFirst(recs, i, id) => new[i].delivered
            /\ ~IsFirst(recs, i, id) => new[i] = recs[i]
  BY MarkingFlags
<1>. HIDE DEF new
<1>2. \A i \in 1..Len(recs) : IsUndelivered(new[i]) <=> IsUndelivered(recs[i]) /\ ~IsFirst(recs, i, id)
  BY <1>1 DEF IsUndelivered
<1>3. ASSUME NEW i \in 1..Len(recs), IsUndelivered(recs[i]), NEW j \in 1..Len(recs),
             recs[j].msg = recs[i].msg
      PROVE  i = j
  <2>1. recs[i].msg \in Msgs /\ recs[i].msg \in Nat /\ recs[i].msg # None
    BY <1>3 DEF OfflineNamed, IsUndelivered
  <2>2. ~(recs[i].msg < recs[i].msg)
    BY <2>1
  <2>3. ~(i < j) /\ ~(j < i)
    BY <1>3, <2>1, <2>2 DEF RecordsFollow
  <2>. QED  BY <2>3
<1>4. Undelivered(new) \subseteq Undelivered(recs) \ HitIn(recs, id)
  BY <1>1, <1>2, <1>3 DEF Undelivered, HitIn
<1>5. Undelivered(recs) \ HitIn(recs, id) \subseteq Undelivered(new)
  BY <1>1, <1>2 DEF Undelivered, HitIn
<1>. QED  BY <1>4, <1>5 DEF new

\* With ids of their own the mark of a message hits its record and no other.
LEMMA OwnHit ==
    ASSUME TypeInv, OwnIds, TrueIds(historyRecords), RecordsFollow(historyRecords), NEW m \in Msgs
    PROVE  Hit(m) \subseteq {m} /\ (Recorded(m) => m \in Hit(m))
<1>. USE OfflineDeliveryAssumption
<1>1. \A i \in 1..Len(historyRecords) : historyRecords[i].msg \in Msgs \cup {None}
  <2>1. \A i \in 1..Len(historyRecords) : historyRecords[i] \in Records
    BY DEF TypeInv, TypeOK
  <2>. QED  BY <2>1 DEF Records
<1>2. ASSUME NEW i \in 1..Len(historyRecords), historyRecords[i].id = MsgId(m)
      PROVE  historyRecords[i].msg = m
  <2>1. historyRecords[i].msg # None
    BY <1>2 DEF OwnIds, TrueIds
  <2>2. historyRecords[i].msg \in Msgs /\ MsgId(historyRecords[i].msg) = MsgId(m)
    BY <1>1, <1>2, <2>1 DEF TrueIds
  <2>. QED  BY <2>2 DEF OwnIds
<1>3. ASSUME NEW i \in 1..Len(historyRecords), historyRecords[i].msg = m
      PROVE  IsFirst(historyRecords, i, MsgId(m))
  <2>1. historyRecords[i].id = MsgId(m)
    BY <1>3 DEF TrueIds
  <2>2. ASSUME NEW j \in 1..(i - 1), historyRecords[j].id = MsgId(m) PROVE FALSE
    <3>1. j \in 1..Len(historyRecords) /\ j < i
      BY <2>2
    <3>2. historyRecords[j].msg = m
      BY <1>2, <2>2, <3>1
    <3>3. m < m
      BY <1>3, <3>1, <3>2 DEF RecordsFollow
    <3>. QED  BY <3>3
  <2>. QED  BY <2>1, <2>2 DEF IsFirst
<1>. QED  BY <1>2, <1>3 DEF Hit, Recorded, IsFirst

\* The program stays the same.
LEMMA LabKept ==
    ASSUME [Next]_vars
    PROVE  lab' = lab /\ (OwnIds' <=> OwnIds)
<1>1. ASSUME NEW m \in Msgs, SenderStep(m) PROVE lab' = lab
  BY <1>1 DEF SenderStep, RouteToClient, RecordDirect, RouteToQueue, PushOffline, RecordOffline,
       boundVars
<1>2. ASSUME NEW s \in Sessions, ReceiverStep(s) PROVE lab' = lab
  BY <1>2 DEF ReceiverStep, CheckNickname, AddClient, RecordConnect, SnapshotQueue,
       NothingToDeliver, SendOffline, SendFails, MarkDelivered, WriteBack, PeerLeaves,
       RemoveClient, RecordDisconnect, RecordOwn, boundVars
<1>3. ASSUME Crash \/ CrashWhileSaving PROVE lab' = lab
  BY <1>3 DEF Crash, CrashWhileSaving, Restart
<1>4. lab' = lab
  BY <1>1, <1>2, <1>3 DEF Next, vars, boundVars
<1>. QED  BY <1>4 DEF OwnIds, MsgId

\* Records carry the ids of their messages, saved, torn or read back.
LEMMA TrueIdsStep ==
    ASSUME TypeInv, TrueIds(historyRecords), [Next]_vars
    PROVE  TrueIds(historyRecords')
<1>. USE OfflineDeliveryAssumption
<1>0. historyRecords \in Seq(Records)
  BY DEF TypeInv, TypeOK
<1>1. ASSUME NEW r, r.msg = None => r.id \in ServerIds[lab], r.msg # None => r.id = MsgId(r.msg)
      PROVE  TrueIds(Append(historyRecords, r))
  <2>1. /\ Len(historyRecords) \in Nat /\ Len(Append(historyRecords, r)) = Len(historyRecords) + 1
        /\ \A i \in 1..Len(historyRecords) : Append(historyRecords, r)[i] = historyRecords[i]
        /\ Append(historyRecords, r)[Len(historyRecords) + 1] = r
    BY <1>0
  <2>2. \A i \in 1..(Len(historyRecords) + 1) :
           i \in 1..Len(historyRecords) \/ i = Len(historyRecords) + 1
    BY <2>1
  <2>. QED  BY <1>1, <2>1, <2>2 DEF TrueIds
<1>2. ASSUME NEW recs \in BeingSaved \cup {historyRecords} PROVE TrueIds(recs)
  <2>1. \A m \in Msgs : m # None
    OBVIOUS
  <2>2. CASE \E m \in Msgs : recs = Append(historyRecords, DirectRecord(m))
    BY <1>1, <2>1, <2>2 DEF DirectRecord, Rec
  <2>3. CASE \E m \in Msgs : recs = Append(historyRecords, OfflineRecord(m))
    BY <1>1, <2>1, <2>3 DEF OfflineRecord, Rec
  <2>4. CASE \E s \in Sessions : recs = MarkedBy(s)
    <3>1. PICK s \in Sessions : recs = MarkedBy(s)
      BY <2>4
    <3>2. /\ Len(recs) = Len(historyRecords)
          /\ \A i \in 1..Len(recs) : recs[i].msg = historyRecords[i].msg
                                     /\ recs[i].id = historyRecords[i].id
      BY <1>0, <3>1, MarkingFlags DEF MarkedBy
    <3>. QED  BY <3>2 DEF TrueIds
  <2>5. CASE \E id \in ServerIds[lab] : recs = Append(historyRecords, ServerRecord(id))
    BY <1>1, <2>5 DEF ServerRecord, Rec
  <2>. QED  BY <1>2, <2>2, <2>3, <2>4, <2>5 DEF BeingSaved
<1>3. PICK recs \in BeingSaved \cup {historyRecords} :
         \E n \in 0..Len(recs) : historyRecords' = SubSeq(recs, 1, n)
  BY HistoryStep
<1>4. PICK n \in 0..Len(recs) : historyRecords' = SubSeq(recs, 1, n)
  BY <1>3
<1>5. /\ Len(SubSeq(recs, 1, n)) = n
      /\ \A i \in 1..n : SubSeq(recs, 1, n)[i] = recs[i] /\ i \in 1..Len(recs)
  BY SavedType, PrefixType
<1>. QED  BY <1>2, <1>4, <1>5 DEF TrueIds

\* The part of FlagInv that relates a message's flag to its way.
Accounted == HandedFromQueue /\ RedeliveryExcused /\ DurableUntilHanded

LEMMA AccountedStep ==
    ASSUME TypeInv, OrderInv, TrueIds(historyRecords), Accounted, [Next]_vars
    PROVE  Accounted'
<1>. USE DEF Ended, Queued
<1>0. /\ historyRecords \in Seq(Records) /\ stage \in [Msgs -> Stages]
      /\ phase \in [Sessions -> Phases] /\ handed \in SUBSET Msgs
      /\ forDelivery \in [Sessions -> Seq(Msgs)]
      /\ RecordsFollow(historyRecords) /\ OneAtATime /\ MarkingHasMessage
      /\ OfflineNamed(historyRecords) /\ promised \in SUBSET Msgs
      /\ lab' = lab /\ (OwnIds' <=> OwnIds)
  BY LabKept DEF TypeInv, TypeOK, OrderInv
<1>1. \A m \in Msgs : stage[m] \in Queued => stage'[m] \in Queued
  BY <1>0, StagesAdvance
<1>2. \A s \in Sessions : forDelivery[s] # <<>> => Current(s) \in Msgs
  <2>1. \A s \in Sessions : forDelivery[s] \in Seq(Msgs)
    BY <1>0
  <2>. QED  BY <2>1 DEF Current
\* A step that hands nothing over and sets no flag.
<1>3. ASSUME BeingMarked' = BeingMarked, UNCHANGED <<handed, early, astray, struck, cutOff>>,
             NEW new \in SUBSET Msgs, promised' \subseteq promised \cup new,
             Recoverable' = Recoverable \cup new,
             \A m \in new : stage[m] = "toRecord",
             \A m \in handed : stage'[m] = "toRecord" => stage[m] = "toRecord"
      PROVE  Accounted'
  <2>1. HandedFromQueue'
    BY <1>0, <1>1, <1>3 DEF Accounted, HandedFromQueue
  <2>2. RedeliveryExcused'
    BY <1>0, <1>3 DEF Accounted, HandedFromQueue, RedeliveryExcused, BeingMarked
  <2>3. DurableUntilHanded'
    BY <1>0, <1>3 DEF Accounted, DurableUntilHanded
  <2>. QED  BY <2>1, <2>2, <2>3 DEF Accounted
<1>4. ASSUME BeingMarked' = BeingMarked,
             UNCHANGED <<handed, early, astray, struck, cutOff, promised>>,
             Recoverable' = Recoverable,
              \A m \in handed : stage'[m] = "toRecord" => stage[m] = "toRecord"
       PROVE  Accounted'
  <2>. DEFINE none == {}
  <2>1. /\ none \in SUBSET Msgs /\ promised' \subseteq promised \cup none
        /\ Recoverable' = Recoverable \cup none /\ \A m \in none : stage[m] = "toRecord"
    BY <1>4
  <2>. HIDE DEF none
  <2>. QED  BY <1>3, <1>4, <2>1
<1>5. ASSUME \A s \in Sessions : /\ phase'[s] = "marking" <=> phase[s] = "marking"
                                 /\ phase[s] = "marking" => forDelivery'[s] = forDelivery[s]
      PROVE  BeingMarked' = BeingMarked
  BY <1>5 DEF BeingMarked, Current
<1>6. ASSUME historyRecords' = historyRecords PROVE Recoverable' = Recoverable
  BY <1>6 DEF Recoverable
<1>7. ASSUME NEW m \in Msgs, RecordDirect(m) PROVE Accounted'
  <2>1. historyRecords' = Append(historyRecords, DirectRecord(m)) /\ ~IsUndelivered(DirectRecord(m))
    BY <1>7 DEF RecordDirect, DirectRecord, Rec, IsUndelivered
  <2>2. Recoverable' = Recoverable
    BY <1>0, <2>1, UndeliveredAfterAppend DEF Recoverable
  <2>3. BeingMarked' = BeingMarked
    BY <1>5, <1>7 DEF RecordDirect, handlerVars
  <2>4. \A k \in handed : stage'[k] = "toRecord" => stage[k] = "toRecord"
    BY <1>0, <1>7 DEF RecordDirect, Advance
  <2>5. UNCHANGED <<handed, early, astray, struck, cutOff, promised>>
    BY <1>7 DEF RecordDirect, observedVars
  <2>. QED  BY <1>4, <2>2, <2>3, <2>4, <2>5
<1>8. ASSUME NEW m \in Msgs, RecordOffline(m) PROVE Accounted'
  <2>1. /\ historyRecords' = Append(historyRecords, OfflineRecord(m))
        /\ IsUndelivered(OfflineRecord(m)) /\ OfflineRecord(m).msg = m
    BY <1>8 DEF RecordOffline, OfflineRecord, Rec, IsUndelivered
  <2>2. Recoverable' = Recoverable \cup {m}
    BY <1>0, <2>1, UndeliveredAfterAppend DEF Recoverable
  <2>3. BeingMarked' = BeingMarked
    BY <1>5, <1>8 DEF RecordOffline, handlerVars
  <2>4. \A k \in handed : stage'[k] = "toRecord" => stage[k] = "toRecord"
    BY <1>0, <1>8 DEF RecordOffline, Advance
  <2>5. UNCHANGED <<handed, early, astray, struck, cutOff>> /\ promised' \subseteq promised \cup {m}
        /\ stage[m] = "toRecord"
    BY <1>8 DEF RecordOffline
  <2>. QED  BY <1>3, <2>2, <2>3, <2>4, <2>5
<1>9. ASSUME NEW m \in Msgs, RouteToClient(m) \/ RouteToQueue(m) \/ PushOffline(m) PROVE Accounted'
  <2>1. Recoverable' = Recoverable /\ BeingMarked' = BeingMarked
    BY <1>5, <1>6, <1>9 DEF RouteToClient, RouteToQueue, PushOffline, handlerVars
  <2>2. UNCHANGED <<handed, early, astray, struck, cutOff, promised>>
    BY <1>9 DEF RouteToClient, RouteToQueue, PushOffline, observedVars
  <2>3. \A k \in handed : k # m
    BY <1>0, <1>9 DEF RouteToClient, RouteToQueue, PushOffline, MyTurn, Accounted, HandedFromQueue
  <2>4. \A k \in Msgs \ {m} : stage'[k] = stage[k]
    BY <1>0, <1>9 DEF RouteToClient, RouteToQueue, PushOffline, Advance
  <2>. QED  BY <1>0, <1>4, <2>1, <2>2, <2>3, <2>4
<1>10. ASSUME NEW s \in Sessions, RecordConnect(s) \/ RecordDisconnect(s) PROVE Accounted'
  <2>1. \A id \in ServerIds[lab] : ~IsUndelivered(ServerRecord(id))
    BY DEF ServerRecord, Rec, IsUndelivered
  <2>2. \E id \in ServerIds[lab] : historyRecords' = Append(historyRecords, ServerRecord(id))
    BY <1>10 DEF RecordConnect, RecordDisconnect, RecordOwn
  <2>3. Recoverable' = Recoverable
    BY <1>0, <2>1, <2>2, UndeliveredAfterAppend DEF Recoverable
  <2>4. BeingMarked' = BeingMarked
    BY <1>0, <1>5, <1>10 DEF RecordConnect, RecordDisconnect, RecordOwn, Enter
  <2>5. UNCHANGED <<handed, early, astray, struck, cutOff, promised, stage>>
    BY <1>10 DEF RecordConnect, RecordDisconnect, RecordOwn, observedVars
  <2>. QED  BY <1>4, <2>3, <2>4, <2>5
<1>11. ASSUME NEW s \in Sessions,
              \/ CheckNickname(s) \/ AddClient(s) \/ SnapshotQueue(s) \/ NothingToDeliver(s)
              \/ SendFails(s) \/ WriteBack(s) \/ PeerLeaves(s) \/ RemoveClient(s)
       PROVE  Accounted'
  <2>1. UNCHANGED <<handed, early, astray, struck, cutOff, promised, stage, historyRecords>>
    BY <1>11 DEF CheckNickname, AddClient, SnapshotQueue, NothingToDeliver, SendFails, WriteBack,
         PeerLeaves, RemoveClient, observedVars
  <2>2. BeingMarked' = BeingMarked
    <3>1. \A t \in Sessions : phase'[t] = "marking" <=> phase[t] = "marking"
      BY <1>0, <1>11 DEF CheckNickname, AddClient, SnapshotQueue, NothingToDeliver, SendFails,
           WriteBack, PeerLeaves, RemoveClient, Enter
    <3>2. \A t \in Sessions : phase[t] = "marking" => forDelivery'[t] = forDelivery[t]
      BY <1>0, <1>11 DEF CheckNickname, AddClient, SnapshotQueue, NothingToDeliver, SendFails,
           WriteBack, PeerLeaves, RemoveClient, Delivering
    <3>. QED  BY <1>5, <3>1, <3>2
  <2>. QED  BY <1>6, <1>4, <2>1, <2>2
<1>12. ASSUME NEW s \in Sessions, SendOffline(s) PROVE Accounted'
  <2>1. /\ phase' = [phase EXCEPT ![s] = "marking"] /\ phase[s] = "delivering"
        /\ forDelivery[s] # <<>> /\ handed' = handed \cup {Current(s)}
        /\ UNCHANGED <<forDelivery, historyRecords, stage, promised, early, astray, struck, cutOff>>
    BY <1>12 DEF SendOffline, Delivering, Enter
  <2>2. BeingMarked' = BeingMarked \cup {Current(s)}
    BY <1>0, <2>1 DEF BeingMarked, Current
  <2>3. stage[Current(s)] \in Queued
    <3>1. CopyOrder(s)
      BY DEF OrderInv, CopiesOrder
    <3>2. forDelivery[s] \in Seq(Msgs) /\ failedDelivery[s] \in Seq(Msgs)
      BY DEF TypeInv, TypeOK
    <3>3. \E i \in 1..Len(Pending(s)) : Pending(s)[i] = Current(s)
      <4>. DEFINE i == Len(failedDelivery[s]) + 1
      <4>1. Len(forDelivery[s]) \in Nat /\ Len(forDelivery[s]) > 0 /\ Len(failedDelivery[s]) \in Nat
            /\ forDelivery[s][1] = Current(s)
        BY <2>1, <3>2 DEF Current
      <4>2. Len(Pending(s)) = Len(failedDelivery[s]) + Len(forDelivery[s])
        BY <3>2 DEF Pending
      <4>3. i \in 1..(Len(failedDelivery[s]) + Len(forDelivery[s])) /\ ~(i <= Len(failedDelivery[s]))
            /\ i - Len(failedDelivery[s]) = 1
        <5>1. \A a, b \in Nat : b > 0 => /\ a + 1 \in 1..(a + b) /\ ~(a + 1 <= a)
                                         /\ (a + 1) - a = 1
          OBVIOUS
        <5>. QED  BY <4>1, <5>1
      <4>4. Pending(s)[i] = forDelivery[s][1]
        BY <3>2, <4>3 DEF Pending
      <4>. QED  BY <4>1, <4>2, <4>3, <4>4
    <3>. QED  BY <3>1, <3>3 DEF CopyOrder, AllQueued
  <2>4. HandedFromQueue'
    BY <2>1, <2>2, <2>3 DEF Accounted, HandedFromQueue
  <2>5. Recoverable' = Recoverable
    BY <1>6, <2>1
  <2>6. RedeliveryExcused'
    BY <1>0, <2>1, <2>2, <2>5 DEF Accounted, RedeliveryExcused, BeingMarked
  <2>7. DurableUntilHanded'
    BY <1>0, <2>1, <2>5 DEF Accounted, DurableUntilHanded
  <2>. QED  BY <2>4, <2>6, <2>7 DEF Accounted
<1>13. ASSUME NEW s \in Sessions, MarkDelivered(s) PROVE Accounted'
  <2>. DEFINE m == Current(s)
  <2>1. /\ phase' = [phase EXCEPT ![s] = "delivering"] /\ phase[s] = "marking"
        /\ historyRecords' = markHistoryDelivered(historyRecords, MsgId(m))
        /\ \A t \in Sessions \ {s} : forDelivery'[t] = forDelivery[t]
        /\ UNCHANGED <<stage, promised, handed, cutOff>>
        /\ early' = IF Recorded(m) THEN early ELSE early \cup {m}
        /\ astray' = IF Recorded(m) /\ m \notin Hit(m) THEN astray \cup {m} ELSE astray
        /\ struck' = struck \cup (Hit(m) \ {m, None})
    BY <1>0, <1>13 DEF MarkDelivered, MarkedBy, Enter
  <2>2. m \in Msgs /\ m \in BeingMarked
    BY <1>0, <1>2, <2>1 DEF MarkingHasMessage, BeingMarked
  <2>. HIDE DEF m
  <2>3. Recoverable' = Recoverable \ Hit(m)
    BY <1>0, <2>1, UndeliveredAfterMark DEF Recoverable, Hit, HitIn
  <2>4. BeingMarked' \subseteq BeingMarked /\ BeingMarked \subseteq BeingMarked' \cup {m}
    <3>1. \A t \in Sessions \ {s} : Current(t)' = Current(t)
                                    /\ (phase'[t] = "marking" <=> phase[t] = "marking")
      BY <1>0, <2>1 DEF Current
    <3>2. phase'[s] # "marking"
      BY <1>0, <2>1
    <3>3. BeingMarked' = {Current(t) : t \in {u \in Sessions \ {s} : phase[u] = "marking"}}
      BY <3>1, <3>2 DEF BeingMarked
    <3>. QED  BY <3>3 DEF BeingMarked, m
  <2>5. stage[m] = "toRecord" => m \in early'
    <3>1. stage[m] = "toRecord" => ~Recorded(m)
      <4>1. m # None
        BY <2>2, OfflineDeliveryAssumption
      <4>. QED  BY <4>1 DEF Recorded, OrderInv, RecordsEnded
    <3>. QED  BY <2>1, <3>1
  <2>6. HandedFromQueue'
    BY <2>1, <2>4, <2>5 DEF Accounted, HandedFromQueue
  <2>7. OwnIds => Hit(m) \subseteq {m} /\ (Recorded(m) => m \in Hit(m))
    BY <1>0, <2>2, OwnHit
  <2>8. RedeliveryExcused'
    <3>1. ASSUME NEW k \in Recoverable', k \in handed
          PROVE  k \in early' \cup astray' \cup BeingMarked'
      <4>1. k \in early \cup astray \cup BeingMarked /\ k \notin Hit(m)
        BY <2>3, <3>1 DEF Accounted, RedeliveryExcused, BeingMarked
      <4>2. CASE k = m
        BY <2>1, <4>1, <4>2
      <4>3. CASE k # m
        BY <2>1, <2>4, <4>1, <4>3
      <4>. QED  BY <4>2, <4>3
    <3>2. OwnIds' => astray' = {}
      BY <1>0, <2>1, <2>7 DEF Accounted, RedeliveryExcused
    <3>. QED  BY <2>1, <3>1, <3>2 DEF RedeliveryExcused, BeingMarked
  <2>9. DurableUntilHanded'
    <3>1. m \in handed /\ None \notin promised
      BY <1>0, <2>2, OfflineDeliveryAssumption DEF Accounted, HandedFromQueue
    <3>2. promised \ handed \subseteq Recoverable' \cup struck' \cup cutOff
      BY <2>1, <2>3, <3>1 DEF Accounted, DurableUntilHanded
    <3>3. OwnIds' => struck' = {}
      BY <1>0, <2>1, <2>7 DEF Accounted, DurableUntilHanded
    <3>. QED  BY <2>1, <3>2, <3>3 DEF DurableUntilHanded
  <2>. QED  BY <2>6, <2>8, <2>9 DEF Accounted
<1>14. ASSUME NEW recs \in BeingSaved \cup {historyRecords}, NEW n \in 0..Len(recs),
              Restart(SubSeq(recs, 1, n))
       PROVE  Accounted'
  <2>1. recs \in Seq(Records)
    BY SavedType
  <2>2. /\ historyRecords' = SubSeq(recs, 1, n) \/ historyRecords' = <<>>
        /\ cutOff' = cutOff \cup (Recoverable \ Recoverable')
        /\ phase' = [t \in Sessions |-> "away"]
        /\ early' = early \cup BeingMarked
        /\ \A m \in Msgs : stage'[m] = IF m \in InHand THEN "lost" ELSE stage[m]
        /\ UNCHANGED <<promised, handed, astray, struck>>
    BY <1>14 DEF Restart, Kept, Recoverable, BeingMarked
  <2>3. BeingMarked' = {}
    BY <2>2 DEF BeingMarked
  <2>4. Undelivered(recs) \subseteq Recoverable \cup {m \in Msgs : stage[m] = "toRecord"}
    <3>1. CASE recs = historyRecords
      BY <3>1 DEF Recoverable
    <3>2. CASE \E m \in Msgs : recs = Append(historyRecords, DirectRecord(m))
      <4>1. PICK m \in Msgs : recs = Append(historyRecords, DirectRecord(m))
        BY <3>2
      <4>2. ~IsUndelivered(DirectRecord(m))
        BY DEF DirectRecord, Rec, IsUndelivered
      <4>. QED  BY <1>0, <4>1, <4>2, UndeliveredAfterAppend DEF Recoverable
    <3>3. CASE \E m \in Msgs : stage[m] = "toRecord" /\ recs = Append(historyRecords, OfflineRecord(m))
      <4>1. PICK m \in Msgs : stage[m] = "toRecord" /\ recs = Append(historyRecords, OfflineRecord(m))
        BY <3>3
      <4>2. OfflineRecord(m).msg = m
        BY DEF OfflineRecord, Rec
      <4>. QED  BY <1>0, <4>1, <4>2, UndeliveredAfterAppend DEF Recoverable
    <3>4. CASE \E s \in Sessions : phase[s] = "marking" /\ recs = MarkedBy(s)
      BY <1>0, <3>4, UndeliveredAfterMark DEF Recoverable, MarkedBy
    <3>5. CASE \E id \in ServerIds[lab] : recs = Append(historyRecords, ServerRecord(id))
      <4>1. PICK id \in ServerIds[lab] : recs = Append(historyRecords, ServerRecord(id))
        BY <3>5
      <4>2. ~IsUndelivered(ServerRecord(id))
        BY DEF ServerRecord, Rec, IsUndelivered
      <4>. QED  BY <1>0, <4>1, <4>2, UndeliveredAfterAppend DEF Recoverable
    <3>. QED  BY <3>1, <3>2, <3>3, <3>4, <3>5 DEF BeingSaved
  <2>5. Recoverable' \subseteq Recoverable \cup {m \in Msgs : stage[m] = "toRecord"}
    <3>1. CASE historyRecords' = SubSeq(recs, 1, n)
      BY <2>1, <2>4, <3>1, UndeliveredOfPrefix DEF Recoverable
    <3>2. CASE historyRecords' = <<>>
      BY <3>2 DEF Recoverable, Undelivered
    <3>. QED  BY <2>2, <3>1, <3>2
  <2>6. HandedFromQueue'
    <3>1. \A m \in Msgs : stage'[m] # "toRecord"
      BY <2>2 DEF InHand
    <3>. QED  BY <1>0, <1>1, <2>2, <2>3, <3>1 DEF Accounted, HandedFromQueue
  <2>7. RedeliveryExcused'
    BY <1>0, <2>2, <2>5 DEF Accounted, HandedFromQueue, RedeliveryExcused, BeingMarked
  <2>8. DurableUntilHanded'
    BY <1>0, <2>2 DEF Accounted, DurableUntilHanded
  <2>. QED  BY <2>6, <2>7, <2>8 DEF Accounted
<1>15. ASSUME Crash PROVE Accounted'
  <2>1. Len(historyRecords) \in 0..Len(historyRecords)
        /\ SubSeq(historyRecords, 1, Len(historyRecords)) = historyRecords
    BY <1>0
  <2>. QED  BY <1>14, <1>15, <2>1 DEF Crash
<1>16. ASSUME CrashWhileSaving PROVE Accounted'
  BY <1>14, <1>16 DEF CrashWhileSaving, Torn
<1>17. ASSUME UNCHANGED vars PROVE Accounted'
  <2>1. UNCHANGED <<handed, early, astray, struck, cutOff, promised, stage, historyRecords,
                    phase, forDelivery>>
    BY <1>17 DEF vars, observedVars
  <2>. QED  BY <1>5, <1>6, <1>4, <2>1
<1>. QED
  BY <1>7, <1>8, <1>9, <1>10, <1>11, <1>12, <1>13, <1>15, <1>16, <1>17
     DEF Next, SenderStep, ReceiverStep

\* Flags and ways agree in every reachable state.
LEMMA FlagInvariant == Spec => []FlagInv
<1>1. Init => FlagInv
  BY DEF Init, FlagInv, TrueIds, HandedFromQueue, BeingMarked, RedeliveryExcused,
     DurableUntilHanded, Recoverable, Undelivered
<1>2. TypeInv /\ OrderInv /\ FlagInv /\ [Next]_vars => FlagInv'
  <2>. SUFFICES ASSUME TypeInv, OrderInv, FlagInv, [Next]_vars PROVE FlagInv'
    OBVIOUS
  <2>1. TrueIds(historyRecords)'
    BY TrueIdsStep, LabKept DEF FlagInv, TrueIds, MsgId
  <2>2. Accounted'
    BY AccountedStep DEF FlagInv, Accounted
  <2>. QED  BY <2>1, <2>2 DEF FlagInv, Accounted
<1>. QED  BY <1>1, <1>2, TypeInvariant, OrderInvariant, PTL DEF Spec

\* A stored message stays in the history as not delivered until TCP has taken it for
\* its receiver; a restart loses it only by losing its record, and nothing else does
\* but the delivery of another message of its id.  With ids of their own, as in LAB5,
\* no message is flagged for another.
THEOREM StoredUntilHanded == Spec => []DurableUntilHanded
<1>1. FlagInv => DurableUntilHanded
  BY DEF FlagInv
<1>. QED  BY <1>1, FlagInvariant, PTL

\* A message that TCP has taken comes back after a restart only if its flag was cut
\* off, or set before its record was there, or set on another record of its id, which
\* takes records that share one.
THEOREM RedeliveredForAReason == Spec => []RedeliveryExcused
<1>1. FlagInv => RedeliveryExcused
  BY DEF FlagInv
<1>. QED  BY <1>1, FlagInvariant, PTL
=============================================================================
