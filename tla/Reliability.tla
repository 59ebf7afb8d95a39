----------------------------- MODULE Reliability -----------------------------
(***************************************************************************)
(* The retry/ACK layer of LAB6 over one established session: the client    *)
(* process (LAB6/client.cpp) with its three threads, the server's handler  *)
(* thread of that session (LAB6/server.cpp), and the TCP connection, one   *)
(* lossless FIFO per direction.  Messages are lost only where the program  *)
(* itself loses them, in the server's network simulation (--drop), until   *)
(* the connection is gone: main learns it from a send that fails.          *)
(*                                                                         *)
(*   main thread     sends a message, then registers it in                 *)
(*                   pendingMessages: two steps                            *)
(*   retry thread    scans pendingMessages under its mutex, then resends   *)
(*                   and times out from the lists it took, one step each   *)
(*   receive thread  erases a message from pendingMessages on ACK or PONG  *)
(*   server handler  drops, recognises as duplicate, or processes          *)
(*                                                                         *)
(* Time is abstracted: a scan finds any nonempty set of pending messages   *)
(* older than ACK_TIMEOUT_MS, which covers every delay of --delay=N and    *)
(* every scheduling of the threads.                                        *)
(***************************************************************************)
EXTENDS DedupWindow, Integers

CONSTANTS
    MaxMsg,         \* bound: reliable messages submitted in the session
    MAX_RETRIES,    \* 3 in the program
    Pings,          \* the ids that carry MSG_PING; the others MSG_TEXT/PRIVATE
    DropEnabled     \* whether the server runs with --drop > 0

Ids == 1..MaxMsg

ASSUME ReliabilityAssumption ==
    /\ MaxMsg \in Nat
    /\ MAX_RETRIES \in Nat
    /\ Pings \subseteq Ids
    /\ DropEnabled \in BOOLEAN

VARIABLES
    nextLocalId,    \* client: id of the next message
    sending,        \* client main thread: sent but not yet registered
    pending,        \* client: keys of pendingMessages
    retries,        \* client: field retries of each pending message
    toResend,       \* client retry thread: resends left from the last scan
    toTimeout,      \* client retry thread: timeouts left from the last scan
    toServer,       \* TCP, client to server: ids
    toClient,       \* TCP, server to client: [type, id]
    last_ids,       \* server: duplicate filter of this session
    unsent,         \* ids whose first send failed; with one the connection is gone
    processed,      \* history: ids processed by the server, in order
    dropped,        \* history: ids of which the simulation dropped a copy
    acked,          \* history: ids printed as "ACK received"
    failed,         \* history: ids printed as "delivery failed"
    sends           \* history: copies of each id put on the wire

clientVars == <<nextLocalId, sending, pending, retries, toResend, toTimeout>>
historyVars == <<unsent, acked, failed, sends>>
serverVars == <<last_ids, processed, dropped>>
vars == <<nextLocalId, sending, pending, retries, toResend, toTimeout,
          toServer, toClient, last_ids, unsent, processed, dropped, acked, failed, sends>>

Replies == [type : {"ACK", "PONG"}, id : Ids]

TypeOK ==
    /\ nextLocalId \in 1..(MaxMsg + 1)
    /\ sending \in SUBSET Ids
    /\ pending \in SUBSET Ids
    /\ retries \in [Ids -> 0..MAX_RETRIES]
    /\ toResend \in SUBSET Ids
    /\ toTimeout \in SUBSET Ids
    /\ toServer \in Seq(Ids)
    /\ toClient \in Seq(Replies)
    /\ last_ids \in Seq(Ids)
    /\ unsent \in SUBSET Ids
    /\ processed \in Seq(Ids)
    /\ dropped \in SUBSET Ids
    /\ acked \in SUBSET Ids
    /\ failed \in SUBSET Ids
    /\ sends \in [Ids -> Nat]

Init ==
    /\ nextLocalId = 1
    /\ sending = {}
    /\ pending = {}
    /\ retries = [id \in Ids |-> 0]
    /\ toResend = {}
    /\ toTimeout = {}
    /\ toServer = <<>>
    /\ toClient = <<>>
    /\ last_ids = <<>>
    /\ unsent = {}
    /\ processed = <<>>
    /\ dropped = {}
    /\ acked = {}
    /\ failed = {}
    /\ sends = [id \in Ids |-> 0]

-----------------------------------------------------------------------------
(* The client's main thread.                                               *)

\* sendRawMessage: the whole frame goes out under sendMutex, so frames of the
\* main thread and of the retry thread never mix.
Transmit(id) ==
    /\ toServer' = Append(toServer, id)
    /\ sends' = [sends EXCEPT ![id] = @ + 1]

\* The first transmission is left to the retry thread.
SubmitMessageUnsent ==
    /\ sending = {}
    /\ nextLocalId <= MaxMsg
    /\ nextLocalId' = nextLocalId + 1
    /\ sending' = {nextLocalId}
    /\ UNCHANGED <<pending, retries, toResend, toTimeout, toServer, toClient,
                   serverVars, historyVars>>

\* makeMessage takes the next id; sendReliableMessage puts the frame on the
\* wire before pendingMessages knows of it.
SubmitMessage ==
    /\ sending = {}
    /\ unsent = {}
    /\ nextLocalId <= MaxMsg
    /\ nextLocalId' = nextLocalId + 1
    /\ sending' = {nextLocalId}
    /\ Transmit(nextLocalId)
    /\ UNCHANGED <<pending, retries, toResend, toTimeout, toClient,
                   serverVars, unsent, acked, failed>>

\* sendRawMessage fails and nothing is registered.  With a MSG_TEXT or
\* MSG_PRIVATE the session ends; a series of pings goes on, and so does its
\* counting (PingSeries).
SubmitFails ==
    /\ sending = {}
    /\ unsent \subseteq Pings
    /\ nextLocalId <= MaxMsg
    /\ nextLocalId' = nextLocalId + 1
    /\ unsent' = unsent \cup {nextLocalId}
    /\ UNCHANGED <<sending, pending, retries, toResend, toTimeout, toServer, toClient,
                   serverVars, acked, failed, sends>>

\* One slot for the last message in place of a map.
RegisterPendingInOneSlot ==
    /\ pending' = sending
    /\ sending # {}
    /\ retries' = [id \in Ids |-> IF id \in sending THEN 0 ELSE retries[id]]
    /\ sending' = {}
    /\ UNCHANGED <<nextLocalId, toResend, toTimeout, toServer, toClient,
                   serverVars, historyVars>>

\* The rest of sendReliableMessage: the map entry is created with no retries,
\* whether or not the answer has already come.
RegisterPending ==
    /\ \E id \in sending :
        /\ pending' = pending \cup {id}
        /\ retries' = [retries EXCEPT ![id] = 0]
    /\ sending' = {}
    /\ UNCHANGED <<nextLocalId, toResend, toTimeout, toServer, toClient,
                   serverVars, historyVars>>

-----------------------------------------------------------------------------
(* The client's retry thread.                                              *)

Lowest(S, id) == id \in S /\ \A other \in S : id <= other

\* With > in place of >= one transmission too many.
ExhaustedOffByOne(id) == retries[id] > MAX_RETRIES

Exhausted(id) == retries[id] >= MAX_RETRIES

\* A pass that skips exhausted entries in place of timing them out.
ScanPendingNoTimeout(expired) ==
    /\ toResend = {}
    /\ expired # {}
    /\ expired \subseteq pending
    /\ toResend' = {id \in expired : ~Exhausted(id)}
    /\ retries' = [id \in Ids |->
                     IF id \in toResend' THEN retries[id] + 1 ELSE retries[id]]
    /\ UNCHANGED <<nextLocalId, sending, pending, toTimeout, toServer, toClient,
                   serverVars, historyVars>>

\* One pass over pendingMessages, under pendingMutex, of a thread that has
\* worked off the lists of its last pass; `expired' is the set of entries that
\* are ACK_TIMEOUT_MS old.
ScanPending(expired) ==
    /\ toResend = {}
    /\ toTimeout = {}
    /\ expired # {}
    /\ expired \subseteq pending
    /\ toTimeout' = {id \in expired : Exhausted(id)}
    /\ toResend' = {id \in expired : ~Exhausted(id)}
    /\ retries' = [id \in Ids |->
                     IF id \in toResend' THEN retries[id] + 1 ELSE retries[id]]
    /\ UNCHANGED <<nextLocalId, sending, pending, toServer, toClient,
                   serverVars, historyVars>>

\* The copies taken by the scan are sent in id order, pending or not by now; the
\* result is not looked at, and without a connection nobody will take them.
Resend ==
    /\ \E id \in Ids :
        /\ Lowest(toResend, id)
        /\ toResend' = toResend \ {id}
        /\ Transmit(id)
    /\ UNCHANGED <<nextLocalId, sending, pending, retries, toTimeout, toClient,
                   serverVars, unsent, acked, failed>>

\* The failure is printed and the entry left in the map.
TimeOutKeepsPending ==
    /\ toResend = {}
    /\ \E id \in Ids :
        /\ Lowest(toTimeout, id)
        /\ toTimeout' = toTimeout \ {id}
        /\ failed' = failed \cup {id}
    /\ UNCHANGED <<nextLocalId, sending, pending, retries, toResend, toServer, toClient,
                   serverVars, unsent, acked, sends>>

\* After the resends: the entry is erased if it is still there, and the failure
\* is printed in either case.
TimeOut ==
    /\ toResend = {}
    /\ \E id \in Ids :
        /\ Lowest(toTimeout, id)
        /\ toTimeout' = toTimeout \ {id}
        /\ pending' = pending \ {id}
        /\ failed' = failed \cup {id}
    /\ UNCHANGED <<nextLocalId, sending, retries, toResend, toServer, toClient,
                   serverVars, unsent, acked, sends>>

-----------------------------------------------------------------------------
(* The server's handler thread.                                            *)

Reply(type, id) == [type |-> type, id |-> id]

\* The ACK goes out before the simulation decides.
DropIncomingAcked ==
    /\ DropEnabled
    /\ unsent = {}
    /\ toServer # <<>>
    /\ toServer' = Tail(toServer)
    /\ toClient' = Append(toClient, Reply("ACK", Head(toServer)))
    /\ UNCHANGED <<clientVars, serverVars, historyVars>>

\* applyNetworkSimulation returns false: the frame is forgotten, unanswered.
DropIncoming ==
    /\ DropEnabled
    /\ unsent = {}
    /\ toServer # <<>>
    /\ toServer' = Tail(toServer)
    /\ dropped' = dropped \cup {Head(toServer)}
    /\ UNCHANGED <<clientVars, toClient, last_ids, processed, historyVars>>

\* A known id is acknowledged again and goes no further; a PING gets no PONG.
AnswerDuplicate ==
    /\ unsent = {}
    /\ toServer # <<>>
    /\ hasSeenMessageId(last_ids, Head(toServer))
    /\ toServer' = Tail(toServer)
    /\ toClient' = Append(toClient, Reply("ACK", Head(toServer)))
    /\ UNCHANGED <<clientVars, serverVars, historyVars>>

Answer(id) ==
    IF id \in Pings THEN <<Reply("ACK", id), Reply("PONG", id)>>
                    ELSE <<Reply("ACK", id)>>

\* A new id is remembered, handed to its handler and answered.
ProcessNew ==
    /\ unsent = {}
    /\ toServer # <<>>
    /\ ~hasSeenMessageId(last_ids, Head(toServer))
    /\ toServer' = Tail(toServer)
    /\ last_ids' = rememberMessageId(last_ids, Head(toServer))
    /\ processed' = Append(processed, Head(toServer))
    /\ toClient' = toClient \o Answer(Head(toServer))
    /\ UNCHANGED <<clientVars, dropped, historyVars>>

-----------------------------------------------------------------------------
(* The client's receive thread.                                            *)

\* The verdict is printed and the entry left in the map.
ReceiveReplyKeepsPending ==
    /\ toClient # <<>>
    /\ toClient' = Tail(toClient)
    /\ acked' = IF Head(toClient).id \in pending
                THEN acked \cup {Head(toClient).id} ELSE acked
    /\ UNCHANGED <<nextLocalId, sending, pending, retries, toResend, toTimeout,
                   toServer, serverVars, unsent, failed, sends>>

\* handleAck, called for MSG_ACK and for MSG_PONG: "ACK received" is printed
\* only by the call that finds the message pending.
ReceiveReply ==
    /\ toClient # <<>>
    /\ toClient' = Tail(toClient)
    /\ pending' = pending \ {Head(toClient).id}
    /\ acked' = IF Head(toClient).id \in pending
                THEN acked \cup {Head(toClient).id} ELSE acked
    /\ UNCHANGED <<nextLocalId, sending, retries, toResend, toTimeout, toServer,
                   serverVars, unsent, failed, sends>>

-----------------------------------------------------------------------------
ServerStep == DropIncoming \/ AnswerDuplicate \/ ProcessNew

Next ==
    \/ SubmitMessage
    \/ SubmitFails
    \/ RegisterPending
    \/ \E expired \in SUBSET pending : ScanPending(expired)
    \/ Resend
    \/ TimeOut
    \/ DropIncoming
    \/ AnswerDuplicate
    \/ ProcessNew
    \/ ReceiveReply

Spec == Init /\ [][Next]_vars

-----------------------------------------------------------------------------
(* Properties.                                                             *)

Delivered == {processed[i] : i \in 1..Len(processed)}
Submitted == 1..(nextLocalId - 1)

\* Between two processings of the same id the server has processed at least
\* DEDUP_WINDOW other messages: a copy that comes back while its id is still in
\* last_ids is never processed, whatever was dropped, delayed or resent.
WindowedAtMostOnce ==
    \A i, j \in 1..Len(processed) :
        i < j /\ processed[i] = processed[j] => j - i > DEDUP_WINDOW

\* The client prints "ACK received" only of messages the server has processed,
\* and no ACK or PONG on its way speaks of any other.
AckedWasProcessed ==
    /\ acked \subseteq Delivered
    /\ \A i \in 1..Len(toClient) : toClient[i].id \in Delivered

\* No message leaves the client's books without a verdict: each one submitted is
\* being registered, pending, or was reported acknowledged, failed or not sent.
NothingForgotten ==
    Submitted \subseteq sending \cup pending \cup acked \cup failed \cup unsent

\* A message is put on the wire at most 1 + MAX_RETRIES times, and "delivery
\* failed after MAX_RETRIES retries" is printed only when all of them were.
TransmissionsBounded ==
    \A id \in Ids :
        /\ sends[id] <= 1 + MAX_RETRIES
        /\ id \in failed => sends[id] = 1 + MAX_RETRIES

\* Once the client has printed "ACK received" for a message, no scan picks it up
\* any more: what the retry thread may still do with it is what it had already
\* taken, although the main thread registers a message only after sending it
\* and an ACK can come before its entry exists.
AckedNotRescanned ==
    [][\A id \in acked : /\ id \in toResend' => id \in toResend
                         /\ id \in toTimeout' => id \in toTimeout]_vars

\* The report of a failure is the last word: no ACK that comes later, be it to a
\* copy sent long before, turns it into "ACK received".  The other order is
\* possible (VerdictsExclusive).
FailureIsFinal == [][\A id \in failed : id \in acked' => id \in acked]_vars

\* Retries never reorder: a message whose first processing comes after that of a
\* later message is one of which the network simulation dropped a copy.
InOrderUnlessDropped ==
    \A i, j \in 1..Len(processed) :
        /\ i < j
        /\ processed[i] > processed[j]
        /\ \A k \in 1..(j - 1) : processed[k] # processed[j]
        => processed[j] \in dropped

\* The verdicts exclude each other: what the client reported as acknowledged it
\* does not report as failed.
VerdictsExclusive == acked \cap failed = {}

\* The session implements the abstract promise: no message is processed again
\* within a window of DEDUP_WINDOW others, and ACKs are honest.  With no more
\* messages than the filter remembers this is processing at most once.
AtMostOnce == INSTANCE AtMostOnceDelivery
                WITH Window <- DEDUP_WINDOW, processed <- processed, acked <- acked
AtMostOnceSpec == AtMostOnce!Spec
=============================================================================
