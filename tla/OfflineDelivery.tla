--------------------------- MODULE OfflineDelivery ---------------------------
(***************************************************************************)
(* Private messages in the servers of LAB5 and LAB6: the list of clients,  *)
(* the routing of a private message to a client or to the offline queue,   *)
(* the delivery of the queue when its receiver logs in, and the history    *)
(* that in LAB6 brings the queue back after a restart; LAB5 starts with an *)
(* empty one.  `lab' says which of the two is running.                     *)
(*                                                                         *)
(* Handler threads of receivers are the Sessions; handler threads of       *)
(* senders are the messages they work on.  Each critical section of        *)
(* clientsMutex, offlineMutex and historyMutex is one step, and so is each *)
(* sendMessage whose outcome matters: the threads interleave between them. *)
(* A message is new to the server (in LAB6 DedupWindow has let it through).*)
(*                                                                         *)
(* TCP is seen from sendMessage: true means accepted by the transport.     *)
(***************************************************************************)
EXTENDS HistoryFile

CONSTANTS
    Msgs,           \* the private messages, numbered in the order of their senders
    Senders, Nicks, \* nicknames of senders and of receivers
    Sender,         \* Msgs -> Senders
    Receiver,       \* Msgs -> Nicks
    Labs,           \* the servers to look at, a subset of {5, 6}
    MsgIds,         \* of each program, Msgs -> Nat: msg_id, numbered by each client
                    \* from 1 on in LAB6, by the server in LAB5
    ServerIds,      \* of each program, the ids its own records may carry (nextMsgId)
    Sessions,       \* handler threads of receivers
    Nick,           \* Sessions -> Nicks
    MaxLogins,      \* bound: logins of all receivers together
    MaxCrashes,     \* bound: crashes of the server
    None            \* no message

ASSUME OfflineDeliveryAssumption ==
    /\ Msgs \subseteq Nat
    /\ Sender \in [Msgs -> Senders]
    /\ Receiver \in [Msgs -> Nicks]
    /\ \A l \in Labs : MsgIds[l] \in [Msgs -> Nat] /\ ServerIds[l] \subseteq Nat
    /\ Nick \in [Sessions -> Nicks]
    /\ Labs \subseteq {5, 6}
    /\ MaxLogins \in Nat
    /\ MaxCrashes \in Nat
    /\ None \notin Msgs

VARIABLES
    lab,
    stage,              \* of each message, in its sender's handler
    phase,              \* of each session's handler
    peerUp,             \* sessions whose client still has its end open
    forDelivery,        \* deliverOfflineMessages: what is left to deliver
    keepQueue,          \* deliverOfflineMessages: the rest of the snapshot
    failedDelivery,     \* deliverOfflineMessages: what could not be sent
    offlineQueue,
    historyRecords,     \* in memory, and in the file between two saves
    logins, crashes,    \* counters of the bounds
    promised,           \* observed: senders were told "message stored"
    handed,             \* observed: accepted by TCP for a receiver's socket
    early,              \* observed: handed when the flag could not be kept
    astray,             \* observed: whose delivery flagged another record of its id
    struck,             \* observed: flagged by the delivery of another message
    cutOff,             \* observed: gone from the history at a restart
    toldNone            \* observed: promised and not handed when their
                        \* receiver was told "no offline messages"

handlerVars == <<phase, peerUp, forDelivery, keepQueue, failedDelivery>>
observedVars == <<promised, handed, early, astray, struck, cutOff, toldNone>>
boundVars == <<lab, logins, crashes>>
vars == <<stage, phase, peerUp, forDelivery, keepQueue, failedDelivery,
          offlineQueue, historyRecords, boundVars, observedVars>>

Stages == {"new", "toDirect", "toStore", "toRecord", "done", "lost"}
Phases == {"away", "checked", "added", "ready", "delivering", "marking",
           "serving", "leaving"}

\* Messages whose handler is at work.
InHand == {m \in Msgs : stage[m] \in {"toDirect", "toStore", "toRecord"}}

\* The vector clients: every session between addClient and removeClient.
clients == {s \in Sessions : phase[s] \in {"added", "ready", "delivering",
                                           "marking", "serving"}}

Records == [msg : Msgs \cup {None}, id : Nat, offline : BOOLEAN, delivered : BOOLEAN]

TypeOK ==
    /\ lab \in Labs
    /\ stage \in [Msgs -> Stages]
    /\ phase \in [Sessions -> Phases]
    /\ peerUp \in SUBSET Sessions
    /\ forDelivery \in [Sessions -> Seq(Msgs)]
    /\ keepQueue \in [Sessions -> Seq(Msgs)]
    /\ failedDelivery \in [Sessions -> Seq(Msgs)]
    /\ offlineQueue \in Seq(Msgs)
    /\ historyRecords \in Seq(Records)
    /\ logins \in 0..MaxLogins
    /\ crashes \in 0..MaxCrashes
    /\ promised \in SUBSET Msgs
    /\ handed \in SUBSET Msgs
    /\ early \in SUBSET Msgs
    /\ astray \in SUBSET Msgs
    /\ struck \in SUBSET Msgs
    /\ cutOff \in SUBSET Msgs
    /\ toldNone \in SUBSET Msgs

Init ==
    /\ lab \in Labs
    /\ stage = [m \in Msgs |-> "new"]
    /\ phase = [s \in Sessions |-> "away"]
    /\ peerUp = {}
    /\ forDelivery = [s \in Sessions |-> <<>>]
    /\ keepQueue = [s \in Sessions |-> <<>>]
    /\ failedDelivery = [s \in Sessions |-> <<>>]
    /\ offlineQueue = <<>>
    /\ historyRecords = <<>>
    /\ logins = 0
    /\ crashes = 0
    /\ promised = {}
    /\ handed = {}
    /\ early = {}
    /\ astray = {}
    /\ struck = {}
    /\ cutOff = {}
    /\ toldNone = {}

-----------------------------------------------------------------------------
(* handlePrivateText, in the handler thread of the sender.                  *)

\* A sender's handler takes its messages one after the other.
MyTurn(m) ==
    /\ stage[m] = "new"
    /\ \A k \in Msgs : Sender[k] = Sender[m] /\ k < m => stage[k] \in {"done", "lost"}

Advance(m, next) == stage' = [stage EXCEPT ![m] = next]

MsgId(m) == MsgIds[lab][m]
DirectRecord(m) == Rec(m, MsgId(m), FALSE, TRUE)
OfflineRecord(m) == Rec(m, MsgId(m), TRUE, FALSE)

\* findClientByNickname finds somebody.
RouteToClient(m) ==
    /\ MyTurn(m)
    /\ \E s \in clients : Nick[s] = Receiver[m]
    /\ Advance(m, "toDirect")
    /\ UNCHANGED <<handlerVars, offlineQueue, historyRecords, boundVars, observedVars>>

\* The message is recorded as delivered, then sent to the client found: what
\* becomes of it there is no part of the offline store.
RecordDirect(m) ==
    /\ stage[m] = "toDirect"
    /\ historyRecords' = Append(historyRecords, DirectRecord(m))
    /\ Advance(m, "done")
    /\ UNCHANGED <<handlerVars, offlineQueue, boundVars, observedVars>>

\* findClientByNickname finds nobody; the receiver may log in before the next
\* step.
RouteToQueue(m) ==
    /\ MyTurn(m)
    /\ \A s \in clients : Nick[s] # Receiver[m]
    /\ Advance(m, "toStore")
    /\ UNCHANGED <<handlerVars, offlineQueue, historyRecords, boundVars, observedVars>>

\* storeOfflineMessage, under offlineMutex.
PushOffline(m) ==
    /\ stage[m] = "toStore"
    /\ offlineQueue' = Append(offlineQueue, m)
    /\ Advance(m, "toRecord")
    /\ UNCHANGED <<handlerVars, historyRecords, boundVars, observedVars>>

\* storeOfflineMessage, under historyMutex, and the answer to the sender.
RecordOffline(m) ==
    /\ stage[m] = "toRecord"
    /\ historyRecords' = Append(historyRecords, OfflineRecord(m))
    /\ promised' = promised \cup {m}
    /\ Advance(m, "done")
    /\ UNCHANGED <<handlerVars, offlineQueue, boundVars, handed, early,
                   astray, struck, cutOff, toldNone>>

-----------------------------------------------------------------------------
(* handleClient and deliverOfflineMessages, in the receiver's handler.      *)

Enter(s, next) == phase' = [phase EXCEPT ![s] = next]

\* A client has connected and sent its nickname; isNicknameUsed says no.  A
\* client that is refused changes nothing.
CheckNickname(s) ==
    /\ phase[s] = "away"
    /\ logins < MaxLogins
    /\ \A c \in clients : Nick[c] # Nick[s]
    /\ Enter(s, "checked")
    /\ peerUp' = peerUp \cup {s}
    /\ logins' = logins + 1
    /\ UNCHANGED <<stage, forDelivery, keepQueue, failedDelivery, offlineQueue,
                   historyRecords, lab, crashes, observedVars>>

\* addClient, under clientsMutex again.
AddClient(s) ==
    /\ phase[s] = "checked"
    /\ Enter(s, "added")
    /\ UNCHANGED <<stage, peerUp, forDelivery, keepQueue, failedDelivery,
                   offlineQueue, historyRecords, boundVars, observedVars>>

ServerRecord(id) == Rec(None, id, FALSE, TRUE)

\* appendHistory of "User [x] connected" and "User [x] disconnected".
RecordOwn(s, from, to) ==
    /\ phase[s] = from
    /\ \E id \in ServerIds[lab] : historyRecords' = Append(historyRecords, ServerRecord(id))
    /\ Enter(s, to)
    /\ UNCHANGED <<stage, peerUp, forDelivery, keepQueue, failedDelivery,
                   offlineQueue, boundVars, observedVars>>

RecordConnect(s) == RecordOwn(s, "added", "ready")

IsFor(s, m) == Receiver[m] = Nick[s]
PlacesFor(s) == {i \in 1..Len(offlineQueue) : IsFor(s, offlineQueue[i])}

\* The queue is split into two copies; offlineQueue itself stays as it is.
SnapshotQueue(s) ==
    /\ phase[s] = "ready"
    /\ PlacesFor(s) # {}
    /\ forDelivery' = [forDelivery EXCEPT ![s] = Pick(offlineQueue, PlacesFor(s))]
    /\ keepQueue' = [keepQueue EXCEPT ![s] =
                       Pick(offlineQueue, 1..Len(offlineQueue) \ PlacesFor(s))]
    /\ Enter(s, "delivering")
    /\ UNCHANGED <<stage, peerUp, failedDelivery, offlineQueue, historyRecords,
                   boundVars, observedVars>>

\* "no offline messages for x".
NothingToDeliver(s) ==
    /\ phase[s] = "ready"
    /\ PlacesFor(s) = {}
    /\ toldNone' = toldNone \cup {m \in promised \ handed : IsFor(s, m)}
    /\ Enter(s, "serving")
    /\ UNCHANGED <<stage, peerUp, forDelivery, keepQueue, failedDelivery,
                   offlineQueue, historyRecords, boundVars, promised, handed, early,
                   astray, struck, cutOff>>

Current(s) == Head(forDelivery[s])
Delivering(s) == phase[s] = "delivering" /\ forDelivery[s] # <<>>

\* sendMessage returns true: the client is there, or TCP does not know yet that
\* it has gone.
SendOffline(s) ==
    /\ Delivering(s)
    /\ handed' = handed \cup {Current(s)}
    /\ Enter(s, "marking")
    /\ UNCHANGED <<stage, peerUp, forDelivery, keepQueue, failedDelivery,
                   offlineQueue, historyRecords, boundVars, promised, early, astray,
                   struck, cutOff, toldNone>>

MarkedBy(s) == markHistoryDelivered(historyRecords, MsgId(Current(s)))

\* The rejected message goes to the front of the ones to keep.
SendFailsToFront(s) ==
    /\ Delivering(s)
    /\ s \notin peerUp
    /\ failedDelivery' = [failedDelivery EXCEPT ![s] = <<Current(s)>> \o @]
    /\ forDelivery' = [forDelivery EXCEPT ![s] = Tail(@)]
    /\ UNCHANGED <<stage, phase, peerUp, keepQueue, offlineQueue, historyRecords,
                   boundVars, observedVars>>

\* The result of sendMessage is ignored by the history.
SendFailsAndMarks(s) ==
    /\ Delivering(s)
    /\ s \notin peerUp
    /\ failedDelivery' = [failedDelivery EXCEPT ![s] = Append(@, Current(s))]
    /\ forDelivery' = [forDelivery EXCEPT ![s] = Tail(@)]
    /\ historyRecords' = MarkedBy(s)
    /\ UNCHANGED <<stage, phase, peerUp, keepQueue, offlineQueue, boundVars, observedVars>>

\* sendMessage returns false.
SendFails(s) ==
    /\ Delivering(s)
    /\ s \notin peerUp
    /\ failedDelivery' = [failedDelivery EXCEPT ![s] = Append(@, Current(s))]
    /\ forDelivery' = [forDelivery EXCEPT ![s] = Tail(@)]
    /\ UNCHANGED <<stage, phase, peerUp, keepQueue, offlineQueue, historyRecords,
                   boundVars, observedVars>>

Recorded(m) == \E i \in 1..Len(historyRecords) : historyRecords[i].msg = m

\* What the record is about that the loop of markHistoryDelivered stops at, if any.
Hit(m) == {historyRecords[i].msg : i \in {j \in 1..Len(historyRecords) :
                                             IsFirst(historyRecords, j, MsgId(m))}}

\* markHistoryDelivered, by id; the message's own record may not be there yet, or may
\* not be the first of that id.
MarkDelivered(s) ==
    /\ phase[s] = "marking"
    /\ historyRecords' = MarkedBy(s)
    /\ forDelivery' = [forDelivery EXCEPT ![s] = Tail(@)]
    /\ Enter(s, "delivering")
    /\ early' = IF Recorded(Current(s)) THEN early ELSE early \cup {Current(s)}
    /\ astray' = IF Recorded(Current(s)) /\ Current(s) \notin Hit(Current(s))
                 THEN astray \cup {Current(s)} ELSE astray
    /\ struck' = struck \cup (Hit(Current(s)) \ {Current(s), None})
    /\ UNCHANGED <<stage, peerUp, keepQueue, failedDelivery, offlineQueue,
                   boundVars, promised, handed, cutOff, toldNone>>

\* What was kept is put back in addition to what is there.
WriteBackInAddition(s) ==
    /\ phase[s] = "delivering"
    /\ forDelivery[s] = <<>>
    /\ offlineQueue' = offlineQueue \o keepQueue[s] \o failedDelivery[s]
    /\ keepQueue' = [keepQueue EXCEPT ![s] = <<>>]
    /\ failedDelivery' = [failedDelivery EXCEPT ![s] = <<>>]
    /\ Enter(s, "serving")
    /\ UNCHANGED <<stage, peerUp, forDelivery, historyRecords, boundVars, observedVars>>

\* offlineQueue becomes the copies, whatever others have done to it since they
\* were made.
WriteBack(s) ==
    /\ phase[s] = "delivering"
    /\ forDelivery[s] = <<>>
    /\ offlineQueue' = keepQueue[s] \o failedDelivery[s]
    /\ keepQueue' = [keepQueue EXCEPT ![s] = <<>>]
    /\ failedDelivery' = [failedDelivery EXCEPT ![s] = <<>>]
    /\ Enter(s, "serving")
    /\ UNCHANGED <<stage, peerUp, forDelivery, historyRecords, boundVars, observedVars>>

\* The client closes its end, at any time.
PeerLeaves(s) ==
    /\ s \in peerUp
    /\ peerUp' = peerUp \ {s}
    /\ UNCHANGED <<stage, phase, forDelivery, keepQueue, failedDelivery,
                   offlineQueue, historyRecords, boundVars, observedVars>>

\* recvMessage fails in the loop: removeClient and close.
RemoveClient(s) ==
    /\ phase[s] = "serving"
    /\ s \notin peerUp
    /\ Enter(s, "leaving")
    /\ UNCHANGED <<stage, peerUp, forDelivery, keepQueue, failedDelivery,
                   offlineQueue, historyRecords, boundVars, observedVars>>

RecordDisconnect(s) == RecordOwn(s, "leaving", "away")

-----------------------------------------------------------------------------
(* The process dies and is started again.                                   *)

\* What a restart of LAB6 would bring back.
Undelivered(recs) == {recs[i].msg : i \in {j \in 1..Len(recs) : IsUndelivered(recs[j])}}
Recoverable == Undelivered(historyRecords)

\* main: LAB6 calls loadHistoryFromFile, LAB5 empties the file.
Kept(recs) == IF lab = 6 THEN recs ELSE <<>>

Restart(recs) ==
    /\ crashes < MaxCrashes
    /\ crashes' = crashes + 1
    /\ historyRecords' = Kept(recs)
    /\ offlineQueue' = Reloaded(Kept(recs))
    /\ cutOff' = cutOff \cup (Recoverable \ Undelivered(Kept(recs)))
    /\ stage' = [m \in Msgs |-> IF m \in InHand THEN "lost" ELSE stage[m]]
    /\ phase' = [s \in Sessions |-> "away"]
    /\ peerUp' = {}
    /\ forDelivery' = [s \in Sessions |-> <<>>]
    /\ keepQueue' = [s \in Sessions |-> <<>>]
    /\ failedDelivery' = [s \in Sessions |-> <<>>]
    /\ early' = early \cup {Current(s) : s \in {t \in Sessions : phase[t] = "marking"}}
    /\ UNCHANGED <<lab, logins, promised, handed, astray, struck, toldNone>>

Crash == Restart(historyRecords)

\* The contents that some handler may just be saving.
BeingSaved ==
    {Append(historyRecords, DirectRecord(m)) : m \in {k \in Msgs : stage[k] = "toDirect"}}
    \cup {Append(historyRecords, OfflineRecord(m)) : m \in {k \in Msgs : stage[k] = "toRecord"}}
    \cup {MarkedBy(s) : s \in {t \in Sessions : phase[t] = "marking"}}
    \cup {Append(historyRecords, ServerRecord(id)) :
             id \in {i \in ServerIds[lab] : \E s \in Sessions : phase[s] \in {"added", "leaving"}}}

CrashWhileSaving ==
    /\ lab = 6
    /\ \E recs \in BeingSaved : \E kept \in Torn(recs) : Restart(kept)

-----------------------------------------------------------------------------
SenderStep(m) ==
    \/ RouteToClient(m)
    \/ RecordDirect(m)
    \/ RouteToQueue(m)
    \/ PushOffline(m)
    \/ RecordOffline(m)

ReceiverStep(s) ==
    \/ CheckNickname(s)
    \/ AddClient(s)
    \/ RecordConnect(s)
    \/ SnapshotQueue(s)
    \/ NothingToDeliver(s)
    \/ SendOffline(s)
    \/ SendFails(s)
    \/ MarkDelivered(s)
    \/ WriteBack(s)
    \/ PeerLeaves(s)
    \/ RemoveClient(s)
    \/ RecordDisconnect(s)

Next ==
    \/ \E m \in Msgs : SenderStep(m)
    \/ \E s \in Sessions : ReceiverStep(s)
    \/ Crash
    \/ CrashWhileSaving

Spec == Init /\ [][Next]_vars

-----------------------------------------------------------------------------
(* Properties.                                                              *)

\* Every record has an id of its own: so in LAB5, where all ids come from one counter
\* of the server, but not in LAB6.
OwnIds ==
    /\ \A m, k \in Msgs : MsgId(m) = MsgId(k) => m = k
    /\ \A m \in Msgs : MsgId(m) \notin ServerIds[lab]

\* A message whose sender was told that it is stored stays in the history as not
\* delivered until TCP has taken it for its receiver, through any number of
\* failed sends and overwritten queues, unless the delivery of another message of the
\* same id has flagged it, which is for LAB6 only.  In LAB6 a crash loses one only in the
\* middle of a save; in LAB5 every restart loses them all.
DurableUntilHanded ==
    /\ promised \ handed \subseteq Recoverable \cup struck \cup cutOff
    /\ OwnIds => struck = {}

\* The same without that exception, as the sender is told ("message stored").
StoredAsTold == promised \ handed \subseteq Recoverable \cup cutOff

\* No message is in the queue twice, or in one handler's two copies of it, in
\* spite of the copies being written back over each other: one login delivers a
\* message at most once.
NoDuplicateItems ==
    LET Distinct(q) == \A i, j \in 1..Len(q) : q[i] = q[j] => i = j
    IN  /\ Distinct(offlineQueue)
        /\ \A s \in Sessions :
              Distinct(forDelivery[s] \o keepQueue[s] \o failedDelivery[s])

\* Messages of one sender to one receiver lie in the queue in the order they were
\* sent, after failed deliveries, write-backs and restarts too.
PerSenderOrder ==
    \A i, j \in 1..Len(offlineQueue) :
        LET m == offlineQueue[i]
            k == offlineQueue[j]
        IN  i < j /\ Sender[m] = Sender[k] /\ Receiver[m] = Receiver[k] => m < k

\* A message that TCP has taken is brought back by a restart only if its delivery
\* was cut off before its flag was set, or its flag was set before its record was
\* written (storeOfflineMessage queues a message first and records it then), or, where
\* records share ids, on somebody else's record.
RedeliveryExcused ==
    /\ Recoverable \cap handed \subseteq
           early \cup astray \cup {Current(s) : s \in {t \in Sessions : phase[t] = "marking"}}
    /\ OwnIds => astray = {}

\* "no offline messages for x" is told only if there are none: every message for x
\* whose sender was told that it is stored has been handed to TCP.
ToldNoneOnlyIfNone == toldNone = {}
=============================================================================
