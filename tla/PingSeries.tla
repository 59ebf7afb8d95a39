----------------------------- MODULE PingSeries -----------------------------
(***************************************************************************)
(* /ping N of the LAB6 client on top of the retry/ACK layer: the states of *)
(* the pings of a series (pingStates, under pingMutex) and the statistics  *)
(* (diagRequested, diagReceived, diagLost, under diagMutex).  Three        *)
(* threads work on them, each in several critical sections:                *)
(*                                                                         *)
(*   main            resets the statistics, clears the states, then for    *)
(*                   each ping stores a state, sends, registers, and       *)
(*                   stores the time of sending; or, if the send fails,    *)
(*                   onPingTimeout itself (state, then count)              *)
(*   receive thread  on PONG: handleAck, onPingSuccess (state, then count) *)
(*   retry thread    moves the time of sending at each retry; on timeout:  *)
(*                   erases the entry, onPingTimeout (state, then count)   *)
(*                                                                         *)
(* A time is the number of the copy whose sending it belongs to.  The pass *)
(* of the retry thread over its entries is one step: it holds pendingMutex *)
(* all along, and no other step sees more than one entry's time.  After a  *)
(* send that failed the series goes on to its end, over a connection that  *)
(* is gone; what ends the session then is in ClientSession.                *)
(***************************************************************************)
EXTENDS Reliability, FiniteSets

CONSTANT MaxSeries      \* bound: series started in the session

ASSUME PingAssumption == MaxSeries \in Nat

VARIABLES
    main,           \* main thread: what it does next
    left,           \* main thread: pings the series still has to send
    ponged,         \* receive thread: id in the hands of onPingSuccess
    pongAt,         \* receive thread: where in onPingSuccess
    timing,         \* retry thread: id in the hands of onPingTimeout
    timeoutAt,      \* retry thread: where in onPingTimeout
    pingStates,     \* state of each ping, "none" if the map has no entry
    lastSend,       \* last_send_ms: the copy sent at that time
    diagRequested, diagReceived, diagLost,
    series,         \* number of the current series
    seriesOf,       \* history: series of each ping
    cleared,        \* history: series whose start has cleared pingStates
    found,          \* history: value of `cleared' when a thread found the state
    counts,         \* history: what was counted, and in which series
    tally,          \* history: how often each ping was counted
    answered,       \* history: copy of each ping that the server answered
    measured,       \* history: copy from which the RTT was measured
    storedLate,     \* history: pings resent before main stored their time
    overtaken       \* history: the ping in hand, if its PONG overtook RegisterPing

mainVars == <<main, left>>
pongVars == <<ponged, pongAt>>
timeoutVars == <<timing, timeoutAt>>
diagVars == <<diagRequested, diagReceived, diagLost>>
seriesVars == <<series, seriesOf, cleared>>
rttVars == <<answered, measured, storedLate, overtaken>>
pingVars == <<mainVars, pongVars, timeoutVars, pingStates, lastSend, diagVars,
              seriesVars, found, counts, tally, rttVars>>
allVars == <<vars, pingVars>>

Counts == [id : Ids, kind : {"received", "lost"}, series : 1..MaxSeries]

PingTypeOK ==
    /\ TypeOK
    /\ main \in {"idle", "clear", "next", "send", "register", "store", "mark", "count"}
    /\ left \in 0..MaxMsg /\ (main = "idle" <=> left = 0)
    /\ ponged \in SUBSET Ids /\ Cardinality(ponged) <= 1
    /\ timing \in SUBSET Ids /\ Cardinality(timing) <= 1
    /\ pongAt \in {"idle", "mark", "count"} /\ (pongAt = "idle" <=> ponged = {})
    /\ timeoutAt \in {"idle", "mark", "count"} /\ (timeoutAt = "idle" <=> timing = {})
    /\ pingStates \in [Ids -> {"none", "open", "completed", "timed_out"}]
    /\ lastSend \in [Ids -> 0..(MAX_RETRIES + 1)]
    /\ diagRequested \in 0..MaxMsg /\ diagReceived \in 0..MaxMsg /\ diagLost \in 0..MaxMsg
    /\ series \in 0..MaxSeries
    /\ seriesOf \in [Ids -> 0..MaxSeries]
    /\ cleared \in 0..series
    /\ found \in [Ids -> 0..MaxSeries]
    /\ counts \in SUBSET Counts
    /\ tally \in [Ids -> Nat]
    /\ answered \in [Ids -> 0..(MAX_RETRIES + 1)]
    /\ measured \in [Ids -> 0..(MAX_RETRIES + 1)]
    /\ storedLate \in SUBSET Ids /\ overtaken \in SUBSET Ids

PingInit ==
    /\ Init
    /\ main = "idle" /\ left = 0
    /\ ponged = {} /\ pongAt = "idle"
    /\ timing = {} /\ timeoutAt = "idle"
    /\ pingStates = [id \in Ids |-> "none"]
    /\ lastSend = [id \in Ids |-> 0]
    /\ diagRequested = 0 /\ diagReceived = 0 /\ diagLost = 0
    /\ series = 0 /\ cleared = 0
    /\ seriesOf = [id \in Ids |-> 0]
    /\ found = [id \in Ids |-> 0]
    /\ counts = {}
    /\ tally = [id \in Ids |-> 0]
    /\ answered = [id \in Ids |-> 0]
    /\ measured = [id \in Ids |-> 0]
    /\ storedLate = {} /\ overtaken = {}

-----------------------------------------------------------------------------
(* The main thread: startPingSeries.                                        *)

StartSeries(count) ==
    /\ main = "idle"
    /\ series < MaxSeries
    /\ main' = "clear"
    /\ left' = count
    /\ diagRequested' = count /\ diagReceived' = 0 /\ diagLost' = 0
    /\ series' = series + 1
    /\ UNCHANGED <<vars, pongVars, timeoutVars, pingStates, lastSend, seriesOf, cleared,
                   found, counts, tally, rttVars>>

\* The states of the last series are kept.
KeepStates ==
    /\ main = "clear"
    /\ main' = "next"
    /\ cleared' = series
    /\ UNCHANGED <<vars, left, pongVars, timeoutVars, pingStates, lastSend, diagVars,
                   series, seriesOf, found, counts, tally, rttVars>>

ClearStates ==
    /\ main = "clear"
    /\ main' = "next"
    /\ pingStates' = [id \in Ids |-> "none"]
    /\ cleared' = series
    /\ UNCHANGED <<vars, left, pongVars, timeoutVars, lastSend, diagVars,
                   series, seriesOf, found, counts, tally, rttVars>>

\* makeMessage and the new state, before the ping is sent.
AddState ==
    /\ main = "next"
    /\ main' = "send"
    /\ pingStates' = [pingStates EXCEPT ![nextLocalId] = "open"]
    /\ lastSend' = [lastSend EXCEPT ![nextLocalId] = 1]
    /\ seriesOf' = [seriesOf EXCEPT ![nextLocalId] = series]
    /\ UNCHANGED <<vars, left, pongVars, timeoutVars, diagVars, series, cleared, found,
                   counts, tally, rttVars>>

OnlyMain(next) ==
    /\ main' = next
    /\ UNCHANGED <<pongVars, timeoutVars, pingStates, diagVars, seriesVars, found, counts, tally,
                   answered, measured, overtaken>>

AfterPing == IF left = 1 THEN "idle" ELSE "next"

SendPing ==
    /\ main = "send"
    /\ SubmitMessage
    /\ OnlyMain("register")
    /\ UNCHANGED <<left, lastSend, storedLate>>

RegisterPing ==
    /\ main = "register"
    /\ RegisterPending
    /\ OnlyMain("store")
    /\ UNCHANGED <<left, lastSend, storedLate>>

SendPingFails ==
    /\ main = "send"
    /\ SubmitFails
    /\ OnlyMain("mark")
    /\ UNCHANGED <<left, lastSend, storedLate>>

\* The time taken before the entry was registered is stored after it, over what
\* the retry thread may have stored meanwhile.
StoreSendTime ==
    /\ main = "store"
    /\ LET id == nextLocalId - 1 IN
        /\ lastSend' = [lastSend EXCEPT ![id] = 1]
        /\ storedLate' = IF lastSend[id] > 1 THEN storedLate \cup {id} ELSE storedLate
    /\ left' = left - 1
    /\ OnlyMain(AfterPing)
    /\ UNCHANGED vars

\* The state is there, whatever it says.
UnsettledOrNot(id) == pingStates[id] # "none"

\* A state is left to its first finder.
Unsettled(id) == pingStates[id] = "open"

Find(ids, verdict) ==
    /\ pingStates' = [id \in Ids |-> IF id \in ids THEN verdict ELSE pingStates[id]]
    /\ found' = [id \in Ids |-> IF id \in ids THEN cleared ELSE found[id]]

Count(ids, kind) ==
    /\ counts' = counts \cup {[id |-> id, kind |-> kind, series |-> series] : id \in ids}
    /\ tally' = [id \in Ids |-> IF id \in ids THEN tally[id] + 1 ELSE tally[id]]

\* onPingTimeout in the main thread, for the ping that could not be sent: first
\* its state.
MarkUnsent ==
    /\ main = "mark"
    /\ LET ids == {id \in {nextLocalId - 1} : Unsettled(id)} IN
        /\ Find(ids, "timed_out")
        /\ main' = IF ids = {} THEN AfterPing ELSE "count"
        /\ left' = IF ids = {} THEN left - 1 ELSE left
    /\ UNCHANGED <<vars, pongVars, timeoutVars, lastSend, diagVars, seriesVars, counts,
                   tally, rttVars>>

\* Then the statistics, and on to the next ping.
CountUnsent ==
    /\ main = "count"
    /\ diagLost' = diagLost + 1
    /\ Count({nextLocalId - 1}, "lost")
    /\ main' = AfterPing
    /\ left' = left - 1
    /\ UNCHANGED <<vars, pongVars, timeoutVars, pingStates, lastSend, diagRequested,
                   diagReceived, seriesVars, found, rttVars>>

-----------------------------------------------------------------------------
(* The retry thread.                                                        *)

\* Retries leave the time of the first sending.
TimesUnmoved == UNCHANGED lastSend

\* A retry moves last_send_ms of a ping whose state is still there.
TimesOfResends ==
    lastSend' = [id \in Ids |->
                    IF id \in toResend' /\ pingStates[id] # "none"
                    THEN retries'[id] + 1 ELSE lastSend[id]]

OnlyRetry == UNCHANGED <<mainVars, pongVars, diagVars, seriesVars, counts, tally, rttVars>>

PingScan(expired) ==
    /\ timeoutAt = "idle"
    /\ ScanPending(expired)
    /\ TimesOfResends
    /\ OnlyRetry
    /\ UNCHANGED <<timeoutVars, pingStates, found>>

PingResend ==
    /\ timeoutAt = "idle"
    /\ Resend
    /\ UNCHANGED pingVars

\* isPing is known only from an entry that is still there.
PingTimeOut ==
    /\ timeoutAt = "idle"
    /\ TimeOut
    /\ timing' = (toTimeout \ toTimeout') \cap pending
    /\ timeoutAt' = IF timing' = {} THEN "idle" ELSE "mark"
    /\ OnlyRetry
    /\ UNCHANGED <<pingStates, lastSend, found>>

MarkTimedOut ==
    /\ timeoutAt = "mark"
    /\ LET ids == {id \in timing : Unsettled(id)} IN
        /\ Find(ids, "timed_out")
        /\ timing' = ids
        /\ timeoutAt' = IF ids = {} THEN "idle" ELSE "count"
    /\ OnlyRetry
    /\ UNCHANGED <<vars, lastSend>>

CountLost ==
    /\ timeoutAt = "count"
    /\ diagLost' = diagLost + 1
    /\ Count(timing, "lost")
    /\ timing' = {} /\ timeoutAt' = "idle"
    /\ UNCHANGED <<vars, mainVars, pongVars, pingStates, lastSend, diagRequested,
                   diagReceived, seriesVars, found, rttVars>>

-----------------------------------------------------------------------------
(* The receive thread.                                                      *)

OnlyReceive == UNCHANGED <<mainVars, timeoutVars, lastSend, diagRequested, diagLost,
                           seriesVars, answered, storedLate>>

\* handleAck; a PONG goes on to onPingSuccess, which reads the clock first.
PingReply ==
    /\ pongAt = "idle"
    /\ ReceiveReply
    /\ IF Head(toClient).type = "PONG"
       THEN /\ ponged' = {Head(toClient).id} /\ pongAt' = "mark"
            /\ overtaken' = ponged' \cap sending
       ELSE UNCHANGED <<pongVars, overtaken>>
    /\ OnlyReceive
    /\ UNCHANGED <<pingStates, diagReceived, found, counts, tally, measured>>

MarkCompleted ==
    /\ pongAt = "mark"
    /\ LET ids == {id \in ponged : Unsettled(id)} IN
        /\ Find(ids, "completed")
        /\ measured' = [id \in Ids |-> IF id \in ids THEN lastSend[id] ELSE measured[id]]
        /\ ponged' = ids /\ overtaken' = {}
        /\ pongAt' = IF ids = {} THEN "idle" ELSE "count"
    /\ OnlyReceive
    /\ UNCHANGED <<vars, diagReceived, counts, tally>>

CountReceived ==
    /\ pongAt = "count"
    /\ diagReceived' = diagReceived + 1
    /\ Count(ponged, "received")
    /\ ponged' = {} /\ pongAt' = "idle"
    /\ OnlyReceive
    /\ UNCHANGED <<vars, pingStates, found, measured, overtaken>>

-----------------------------------------------------------------------------
(* The server.                                                              *)

\* The copies of a ping arrive in the order in which they were sent.
ArrivingCopy(id) == sends[id] - Cardinality({i \in 1..Len(toServer) : toServer[i] = id}) + 1

AnswerPing ==
    /\ ProcessNew
    /\ LET id == Head(toServer) IN
        answered' = IF answered[id] = 0
                    THEN [answered EXCEPT ![id] = ArrivingCopy(id)] ELSE answered
    /\ UNCHANGED <<mainVars, pongVars, timeoutVars, pingStates, lastSend, diagVars,
                   seriesVars, found, counts, tally, measured, storedLate, overtaken>>

PingServerStep ==
    \/ AnswerPing
    \/ (DropIncoming \/ AnswerDuplicate) /\ UNCHANGED pingVars

-----------------------------------------------------------------------------
MainStep ==
    \/ ClearStates
    \/ AddState
    \/ SendPing
    \/ RegisterPing
    \/ StoreSendTime
    \/ SendPingFails
    \/ MarkUnsent
    \/ CountUnsent
RetryStep == PingResend \/ PingTimeOut \/ MarkTimedOut \/ CountLost
ReceiveStep == PingReply \/ MarkCompleted \/ CountReceived

PingNext ==
    \/ \E count \in 1..(MaxMsg + 1 - nextLocalId) : StartSeries(count)
    \/ MainStep
    \/ \E expired \in SUBSET pending : PingScan(expired)
    \/ RetryStep
    \/ ReceiveStep
    \/ PingServerStep

PingSpec == PingInit /\ [][PingNext]_allVars

\* The retry thread passes every 100 ms and every pending entry grows old: as
\* long as an entry is there again and again when a pass begins, some pass
\* finds it expired.
PingExpires(id) == \E expired \in SUBSET pending : id \in expired /\ PingScan(expired)

\* The threads run; the user need not start another series.  When the connection
\* is gone only main is sure to go on, as long as no second send into it kills the
\* client (ClientSession): the others depend on the connection, or on `running'.
PingFairSpec ==
    /\ PingSpec
    /\ WF_allVars(MainStep)
    /\ WF_allVars(unsent = {} /\ RetryStep)
    /\ WF_allVars(unsent = {} /\ ReceiveStep)
    /\ WF_allVars(PingServerStep)
    /\ \A id \in Ids : SF_allVars(unsent = {} /\ PingExpires(id))

-----------------------------------------------------------------------------
(* Properties.                                                              *)

\* A ping is counted at most once, as received or as lost, although a PONG and the
\* last timeout can be at work on it at the same time, main counts what it could
\* not send, and each reaches the counters only after it has left pingMutex.
CountedOnce == \A id \in Ids : tally[id] <= 1

\* The statistics of a series contain a ping of an earlier one only if a thread
\* had found that ping's state before the series cleared pingStates: main resets
\* the counters first and clears the states second.
ForeignOnlyIfFoundBefore ==
    \A c \in counts : c.series # seriesOf[c.id] => found[c.id] < c.series

\* The RTT is never measured from an earlier copy than the one the server has
\* answered, unless main stored the time of the first copy after a retry.  From a
\* later one it may be: the PONG of a slow first copy is set against the last.
RttNotOverstated ==
    \A id \in Ids : measured[id] # 0 /\ measured[id] < answered[id] => id \in storedLate

\* From the handleAck of a PONG to the measurement no retry moves last_send_ms, so
\* that the clock read in between is not behind it and no RTT is negative, unless
\* the PONG had come before main registered the ping: then main may read the clock
\* for its time of sending still later, and the entry it makes is retried although
\* the ping was answered.  Otherwise that reading comes before the registration and
\* so before the PONG, and storing it changes nothing here.
RttNotNegative ==
    [][\A id \in ponged :
          pongAt = "mark" /\ lastSend'[id] > lastSend[id] => id \in overtaken]_allVars

\* Every ping is at last reported, as acknowledged, as failed or as not sent, even
\* if the server drops every copy, and is counted unless a new series was started:
\* an ACK ends the retries of a ping, so that its PONG alone must come through.
\* Once the connection is gone only the pings that could not be sent are sure of it.
EveryPingIsSettled ==
    \A id \in Ids :
        (id \in Submitted) ~>
            \/ /\ id \in acked \cup failed \cup unsent
               /\ series > seriesOf[id] \/ tally[id] > 0
            \/ unsent # {} /\ id \notin unsent
=============================================================================
