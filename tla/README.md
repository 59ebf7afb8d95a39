# Verification of COmp_net

COmp_net is a series of six chat programs in C++ over sockets, each one growing
out of the last: a UDP echo (LAB1), a TCP chat with one client (LAB2), a thread
pool with broadcast (LAB3), nicknames and private messages (LAB4), an offline
queue with a history file (LAB5), and finally retries, acknowledgements,
duplicate suppression, a network simulation and diagnostics (LAB6). The
repository has no documentation and no tests; what the programs promise is in
the lines they print. One module stands for one mechanism, and a variable `lab`
says which program is running where the programs differ.

## 1. Inventory

### Servers

| part | state | operations (LAB6 lines) | programs |
|---|---|---|---|
| accept loop and worker pool | `clientQueue` under `queueMutex`/`queueCond` | `main` 985-1003, `worker` 914 | LAB3-6 |
| session registry | `clients` under `clientsMutex` | `isNicknameUsed`, `addClient`, `removeClient`, `findClientByNickname`, `broadcastMessage`, `handleListRequest` | LAB3-6 |
| session loop | one stack per worker | `handleClient` 776: handshake, authentication, drop, duplicate, dispatch, ACK | LAB3-6 |
| duplicate filter | `last_ids`, `last_ids_count` per client, `dedupMutex` | `hasSeenMessageId`, `rememberMessageId` | LAB6 |
| offline store | `offlineQueue` under `offlineMutex` | `handlePrivateText`, `storeOfflineMessage`, `deliverOfflineMessages` | LAB5, LAB6 |
| history | `historyRecords` under `historyMutex`, `history.json` | `appendHistory`, `markHistoryDelivered`, `saveHistoryLocked`, `loadHistoryFromFile` | LAB5, LAB6 |
| network simulation | `gSim` | `applyNetworkSimulation` | LAB6 |
| framing | none, or one `sendMutex` | `sendAll`, `recvAll`; single `send`, `recv` before LAB5 | LAB2-6 |
| datagram echo | one buffer | `runServer` | LAB1 |

### Clients

| part | state | operations | threads |
|---|---|---|---|
| reliable sending (LAB6) | `pendingMessages` under `pendingMutex`, `nextLocalId` | `sendReliableMessage`, `retryLoop`, `handleAck`, `clearPendingState` | main, retry, receive |
| ping series (LAB6) | `pingStates` (`pingMutex`), `diag*` (`diagMutex`) | `startPingSeries`, `onPingSuccess`, `onPingTimeout` | main, retry, receive |
| session life cycle (LAB3-6) | `sock`, `running` | `connectAndAuthorize`, `main`, `receiveLoop` | main, receive; retry reads both |
| datagram client (LAB1) | none | `communicationLoop` | main |

A client and the server speak through one TCP connection. Server handlers meet in
the registry, the offline queue and the history; the client's threads meet in
`pendingMessages`, `pingStates`, `sock` and `running`.

### What is hard, and what makes each part correct

* Reliable sending: three threads and a lossy server move one map entry. Correct
  if a message is processed at most once, an "ACK received" is never a lie, every
  message gets a verdict, and only one.
* Duplicate filter: it slides. Correct if a copy is recognised as long as fewer
  than 32 other messages came in between.
* Ping series: counters and states are reset and updated under different locks.
  Correct if a ping is counted once and in its own series.
* Offline store: the queue is copied, unlocked and written back; the history is
  written after the queue; marks go by id. Correct if what a sender was told is
  stored is delivered, once, in order, also after a restart.
* Registry: test and insertion are separate; sockets are used after the lookup,
  go by a number, and are written to while a mutex is held. Correct if those
  served are those listed, names are unique, a private message reaches its
  receiver, and nobody waits for ever.
* Worker pool: a handler never returns its worker while its client stays.
* Session life cycle: `close` is expected to wake a blocked `recv`, `getline`
  blocks the reconnect, resends outlive the session.
* Framing: `send` and `recv` may do part of the work, and threads share a socket.
* Datagram echo: nothing tells which line an answer belongs to, and `recvfrom`
  has no timeout.

`PROJECT.json` lists every hazard at its line, with the properties that look at it.

## 2. Modules

| module | models | programs | uses |
|---|---|---|---|
| `DedupWindow` | the filter's two functions as operators on a sequence (array plus counter) | LAB6 | |
| `AtMostOnceDelivery` | abstract: process once within a window, acknowledge only what was processed | | |
| `Reliability` | the client's three threads, both directions of TCP, the server's loop | LAB6 | `DedupWindow`; implements `AtMostOnceDelivery` |
| `PingSeries` | `/ping` on top of it: states, counters, round trip times | LAB6 | composed with `Reliability` |
| `HistoryFile` | records, marking, torn saves, reloading, as operators | LAB5, LAB6 | |
| `OfflineDelivery` | senders' and receivers' handlers on registry, queue and history; crash and restart | LAB5, LAB6 | `HistoryFile`, `Subsequences` |
| `SessionRegistry` | the list of clients, descriptors, broadcast, list, private messages, end of a session | LAB3, LAB4, LAB6 | `Subsequences` |
| `ClientSession` | connect, handshake, session, disconnect, reconnect, quit, and the server's side of it | LAB4, LAB5, LAB6 | |
| `WorkerPool` | accept loop, `clientQueue`, condition variable, workers | LAB3-6 | |
| `FrameFifo` | abstract: a connection as a queue of whole frames | | |
| `TcpFraming` | bytes on a connection, parts of `send` and `recv`, the send lock | LAB2-4, LAB5-6 | `Subsequences`; implements `FrameFifo` |
| `UdpEcho` | clients and server of the datagram echo, a faulty network | LAB1 | |
| `Subsequences` | what `erase`/`remove_if` and copying loops leave of a vector: the elements at some positions | | |
| `<module>_proofs` | theorems about `PingSeries` (with those about `Reliability`), `OfflineDelivery`, `SessionRegistry`, `ClientSession`, `WorkerPool`, `TcpFraming`, `UdpEcho`; lemmas about `Subsequences` | | |
| `MC*` | constants of the small instances | | |

How the modules fit together. `TcpFraming` shows that the looped calls give a
queue of whole frames, and that is what `Reliability`, `ClientSession` and
`SessionRegistry` take a connection for. `Reliability` shows that inside one
session a message is processed at most once within the window, so
`OfflineDelivery` and `SessionRegistry` get each command once. `ClientSession`
shows what is left of that across sessions. `WorkerPool` sees `handleClient` as
one long step; its inside is `SessionRegistry` and `OfflineDelivery`, which assume
workers enough.

### Reliability: state and steps

`pending`, `retries`, `toResend`, `toTimeout` are the keys of `pendingMessages`,
the field `retries` and the two local lists of `retryLoop`; `sending` is the
message that `sendReliableMessage` has sent and not yet registered. `toServer`
and `toClient` are the TCP streams as whole frames. `processed`, `dropped`,
`acked`, `failed` and `sends` only observe.

`SubmitFails` is a first transmission that fails: nothing is registered (client 244-246),
the id goes to `unsent`, and with it the connection is gone: the server reads no more,
what is on its way to the client may still be read, and resends go nowhere. After a
text or private message the session ends there; a series of pings goes on (`PingSeries`).

Each lock-protected section is one step. Sending and registering are two steps
(client 244 and 253), the scan is one, every resend and every timeout of its
lists is one, in the order of the ids (a `std::map`). A server step is one pass of
the handler's loop; nothing else reads `last_ids` or the stream. Time is
abstracted: a scan may find any nonempty part of the pending entries expired.
`--delay` therefore needs no action of its own. A corrupted message is processed
like any other.

### PingSeries: state and steps

The module composes with `Reliability`: each of its steps is one of that module
together with what the thread does to `pingStates` and the counters, or a step on
these alone. Three program counters stand for the threads: `main` (reset the
counters, clear the states, then per ping store a state, send, register, store
the time; or, for a ping that cannot be sent, `onPingTimeout` itself, `MarkUnsent` and
`CountUnsent`, client 456-461, and on to the next ping), `pongAt` and `timeoutAt` (mark the state under `pingMutex`, then count
under `diagMutex`). A time is the number of the copy sent at it: `lastSend` is
`last_send_ms`, `measured` the copy an RTT was computed from, `answered` the copy
the server really answered. `PingReply` is `handleAck` and the reading of the clock
that follows it at client 281, `MarkCompleted` the use of that reading under `pingMutex`.
`found`, `counts`, `tally` (how often each ping was counted), `storedLate` and `overtaken`
only observe. A client that a send kills (`ClientSession`) simply stops here.

### OfflineDelivery: state and steps

`stage` says how far the sender's handler is with each message: looked up
(`findClientByNickname`), queued, recorded. `phase` is the program counter of each
receiver's handler: nickname tested, added, connect recorded, delivering, marking,
serving, leaving. `forDelivery`, `keepQueue` and `failedDelivery` are the locals
of `deliverOfflineMessages`. Every critical section of `clientsMutex`,
`offlineMutex` and `historyMutex`, and every send of the delivery, is a step.

`historyRecords` is also the content of `history.json`: every change is saved
before `historyMutex` is released. A crash keeps it (`Crash`) or, as saves are not
atomic, a prefix of what some handler is just saving (`CrashWhileSaving`); cut
records do not match the pattern of `loadHistoryFromFile`. Handlers, sockets and
the queue are gone; LAB6 rebuilds the queue from the undelivered records, LAB5
empties the file and starts with nothing (`Kept`).

`sendMessage` returns true when TCP has taken the message, which may be so after
the client has left ("message delivered (maybe)"), and may return false once it
has left. Where SIGPIPE has its default action, a send to a connection that was
reset can instead end the process: `Crash` is enabled there too. Repeated false
results need an ignored SIGPIPE, a disposition that a process inherits.

`MsgIds` are the ids the messages carry in each program. In LAB5 one counter of the server
numbers everything. In LAB6 every client numbers its own from 1 on (client 56), and the
server's records (`ServerIds`) come from a third counter, so that records share ids:
`history.json` as shipped has a connect record of id 3, the id of a client's first message.
`markHistoryDelivered` flags the first record of the id. `astray` are the messages whose
flag went to another record, `struck` those flagged by another's delivery, `early`
those flagged before their record was there; these and `promised`, `handed`, `cutOff`,
`toldNone` only observe. A direct message is recorded here; what its receiver gets is in
`SessionRegistry`.

### SessionRegistry: state and steps

`pc` is the program counter of each connection's handler, `fd` its `clientSock`,
`owner` what the kernel has behind each descriptor: `Accept` takes the lowest free
one, and a closed number is handed out again while others still hold it.
`clients` is the vector, `clientsMutex` its holder. A broadcast or a list request
keeps the mutex from `LockList` to `UnlockList` and sends to one client per step
(`todo` is the rest of the iteration); the other critical sections are one step.
`unread` is what TCP holds for a client that does not read, at most `SendBuffer`;
a send without room waits, in LAB6 with `sendMutex` in hand (`BlockInSend`), so
that every other send of the server waits too. "Online users", sent before the list is locked (`AnnounceList`, server 692), waits like any other
send. The order of the last steps differs:
LAB6 removes, closes, broadcasts; LAB4 removes, broadcasts, closes; LAB3 removes
and closes. `aired`, `airing`, `heard`, `raced` and `strayed` only observe.

LAB5's registry is that of LAB6. Several answers to one command go to one socket
one after the other and count as one send.

### ClientSession: state and steps

Connections are numbered and `epoch` is the one behind the global `sock`. `at` is
where the main thread is, from `connect` through the handshake to `prompt` (in
`getline`), `joining`, `closed` and back, or to an exit. `rx` is the receive thread,
`toResend` what the retry thread has in hand: it is sent to whatever `sock` is at
that moment. `srv` is each connection's handler from `accepted` to `closed`; the
nickname is in the list between `listed` and `leaving`.

`close` while another thread is inside `recv` frees the descriptor and leaves the
connection (`TypeQuit`, `ReceiverEnds`). A stream has ended for a reader only when
all that was sent before has been read. `Break` is a connection the network stops
carrying, noticed by each end in its own time; `ServerRestarts` a server that
dies. `OthersTalk` is one message of another user, which may overtake "Authentication
successful". `leftover`, `overtaken`, `lost`, `byeDropped` and `processed` only observe.

A send to a connection that is gone returns true or false, or kills the client: no
`send` of these clients has MSG_NOSIGNAL and SIGPIPE is not ignored (LAB6 122, LAB4 31,
LAB5 61), so that main or the retry thread may end the process (`SendKills`, `at =
"killed"`). TCP gives the first call that meets a reset an error instead; the model does not
count the calls and lets any send of a session that is gone kill, which is
more than the code does, but not HELLO or AUTH, unless the retry thread has sent
into that connection before. A failing send ends the session (`running` becomes false)
except for a ping of LAB6. The retry thread may come to its pending messages after
`running` was cleared: until main has cleared them, `Scan` finds them.

### TcpFraming: state and steps

Bytes are numbered within their frame. `SendPart` gives the kernel as many bytes
as fit, `ReceivePart` takes as many as there are; `turn` and `done` are a writer's
place in its frame, `buffer` is the half-read struct. LAB5 and LAB6 loop (`Fill`)
and send under `sendMutex` (`LockSend`); LAB2 to LAB4 take one `recv` for one
message (`ReceiveOnce`) and have no lock (`EnterSend`). The refinement mapping to
`FrameFifo` takes a frame to be in transit once its last byte is in the stream or
the buffer, and received once `recvMessage` has returned it.

### UdpEcho: state and steps

Datagrams are a set per direction, so any order of arrival is possible; `Lose` and
`Duplicate` are the network's faults, `ReceiveFails` a `recvfrom` that returns an
error and `EchoFails` a `sendto` of the server that does: the datagram is thrown away and its
client goes on waiting. `buffer` and `client` are the server's locals between receiving and
answering. A line is short or longer than the buffer, and `Cut` is what a buffer
makes of it. `muddled`, `lost` and `responses` only observe.

### WorkerPool: state and steps

`clientQueue` is the queue. A worker is in `ready` (about to look at the queue),
in `sleeping` (inside `pthread_cond_wait`, not signalled) or busy with a client
(`serves`). A critical section of `queueMutex` is one step; waiting releases the
mutex in the same step. A signal moves one sleeping worker to `ready` and is lost
if nobody sleeps; `WakeUp` is the spurious wakeup that POSIX allows. `handleClient`
lasts from `Take` to `Finish`. `accepted` and `served` only observe.

## 3. Runs

Deadlock is not checked: the instances are bounded, and when all messages,
connections or logins are used up, nothing is left to do.

| run | instance | shows |
|---|---|---|
| `lossy` | 3 messages (one PING), 1 retry, window 2, dropping server | ACKs are honest; books are complete; at most 1 + MAX_RETRIES copies, all of them before a failure is reported; an acknowledged message is not scanned again; a reported failure stays final; a duplicate gets through only after a full window of others; only a drop reorders; refinement of `AtMostOnceDelivery` |
| `verdicts` | 2 messages, no drops | **violated**: acknowledged and failed |
| `ping` | 2 pings in up to 2 series, 1 retry, window 2, drops, fair threads | `PingTypeOK` (with `TypeOK` of `Reliability`); a ping is counted once, one that could not be sent included; in another series only by the named race; the RTT is overstated only by the named race; no retry moves the time of sending between the clock's reading and its use, unless the PONG overtook the registration; every ping is settled |
| `offline` | LAB5 and LAB6, 3 messages (two of one sender), 2 receivers, 2 logins, 1 crash that may tear a save | `TypeOK`; no item twice; order per sender; a repeated delivery after a restart has one of three named causes, of which a flag on another record of the same id is for LAB6 only; what was reported as stored and not taken by TCP is in the history as undelivered, unless a restart of LAB5 or a torn save cut it off or, in LAB6, another message of its id was marked |
| `stale` | the same without crash | **violated**: "no offline messages" while one is stored |
| `ids` | LAB6, ids numbered by each client | **violated**: what was reported as stored is kept until it is handed over; another's delivery marks it |
| `registry` | LAB3, LAB4 and LAB6, 3 connections (two of them want to be bob) on 2 descriptors, 1 command, one client that leaves messages unread and one that goes without BYE, fair handlers | `TypeOK`; listed are those being served; twins need a race; one order of broadcasts for all; ended sessions get through if clients read |
| `misdelivered` | LAB6, the same with distinct nicknames | **violated**: a private message on another user's socket |
| `session` | LAB4, LAB5 and LAB6, 3 connections, 1 message, 1 fault, drops, fair threads | `TypeOK`; the name is free after the server closed; what is resent where; both ends agree about a login; /quit and reconnecting come to an end, the latter unless a send to the dead connection kills the client |
| `framing` | LAB4 and LAB6, 2 writers, 2 frames each, 2 bytes per frame, 5 bytes of room, fair threads | torn messages need a program without loops, and there a short recv or two threads in send; refinement of `FrameFifo`; everything arrives unless the sender dies |
| `udp` | 2 clients, 2 lines each, 2 faults (of the network, of `recvfrom`, of the server's `sendto`), fair processes | whose line is answered to whom, and when answers get out of step; only a loss, or an answer that was not sent, leaves a client waiting |
| `pool` | 3 workers, 4 clients, fair workers | no lost wakeup; a client has one worker; order of accept; every client is served if clients leave; none waits beside an idle worker even if nobody leaves |

### Bounds

* `lossy`: a window smaller than the number of messages lets it slide past a copy
  under way. `lossy`, `ping`: one retry already has a copy of each message overtake the
  verdict on another. A second retry was checked once with three messages
  and adds no behaviour of a new kind. Two series are the fewest that can mix.
* `offline`: two messages of one sender and one of another make order, failed
  sends and the stale write-back possible; two logins suffice for one handler's
  write-back to hide another's message. The ids are those of the programs: one counter in
  LAB5, in LAB6 the first ids of two clients and of the server, which meet in 3.
  Three logins were checked once, of LAB5 with a restart and of LAB6 without one.
* `registry`: a third connection on the second descriptor is the fewest that
  reuses a number while an old handler still holds it; `SendBuffer` = 1 makes a
  send block at the second unread message. `Slow`, `Talkers` and `Abrupt` say which
  client may leave messages unread, speak, and go without BYE; everybody may
  leave in order, and two handlers broadcast at once at every arrival and departure.
  Two clients that speak were checked once (755,024 states, two minutes).
* `session`: three connections let a retry of the first session reach the second,
  and a failed second one be followed by a third. One message and its one retry
  are enough for a copy to arrive in each of them.
* `framing`: with 5 bytes of room for frames of 2, a `recv` returns a whole frame or a part of
  one, two frames and a half can be in transit, and a send can still block in the
  middle of its frame.
* `udp`: two faults give a loss and a duplicate in one run.
* `pool`: more clients than workers make the queue grow behind a full pool; two
  workers are enough for one to take the client another was woken for.

### Fairness

* `ping`: the main thread finishes `startPingSeries`, the retry thread works off
  its lists, the receive thread and the server read their sockets: weak fairness
  of each, as no step waits for anything but the scheduler. For the scan strong
  fairness per message: `retryLoop` passes every 100 ms and takes every entry
  older than two seconds, so an entry that stays is found again and again in
  passes that begin while it is there. Once a ping could not be sent, only main's and the server's
  steps are still assumed to come: the retry thread tests `running`, the receive
  thread depends on the connection, and `EveryPingIsSettled` then speaks of the
  pings that could not be sent only. Nothing is assumed of the simulation: it may
  drop every frame. The user need not start another series.
* `pool`: a worker that neither sleeps nor serves runs on (`WorkersRun`); signals
  and spurious wakeups are not assumed. `ClientsLeave` is an assumption about users
  and stands only in front of `EveryClientServed`, which needs it: ten clients that
  stay keep the eleventh waiting. `NoWorkerIdlesForever` is what is left without it.
* `registry`: a handler with something to do is scheduled. `ReadersRead`, that no
  client that may leave messages unread stops reading for good, stands in front of `HandlersFinish`; without it one
  client stops the whole server (the hazard at server 551). Weak fairness suffices
  for the two mutexes because the instance has no unbounded stream of rivals.
* `session`: main, receive and retry thread and the handlers run. What a user types
  is not assumed, except that `getline` returns at once after the end of the input,
  and in front of `Reconnects` that he goes on typing (`UserTypes`). `QuitEnds` and
  `Reconnects` except a BYE that the simulation dropped: then the server keeps the
  connection, and /quit waits for ever. `Reconnects` also excepts a client that a send killed.
  That a handler of the server goes on assumes that the other clients read what the server
  sends them; what holds without that is in `registry`.
* `framing`: the writers as a group enter `send` and get their bytes to the kernel;
  the receiver reads.
* `udp`: the server receives and answers, and a client takes what has arrived. That
  a datagram arrives is what `Lose` is the exception to.

### Disagreements found

1. `verdicts`: client 512-523 prints "delivery failed" without looking whether the
   entry was still there.
2. `stale`: server 633 overwrites the queue with a copy older than the deliveries.
3. `ids`: server 391 marks by an id that is unique only within one client, so that a message
   whose sender was told "message stored" (server 772) is marked without having been sent.
4. `misdelivered`: server 766 sends to a descriptor that may belong to somebody
   else by now.

Other weaknesses are named exceptions of properties that hold: two clients of one
nickname (`TwinsRaced`: tests and insertion are two critical sections), messages
cut off by a torn save or by LAB5's restart (`DurableUntilHanded`), repeated
deliveries after a crash, or after every restart of LAB6 if the mark hit another record of
the id (`RedeliveryExcused`), clients that a second send to a dead connection kills (`Reconnects`), pings counted in the next series,
RTTs measured from a copy too early (`ForeignOnlyIfFoundBefore`, `RttNotOverstated`), or from
one sent after the clock was read, which makes them negative (`RttNotNegative`: a PONG that
overtakes the registration of its ping finds the ping's time still to be read and its entry still to be made), a /quit that hangs on a dropped BYE (`QuitEnds`), a retry that
lands in the next session or its handshake (`ResentInOwnSession`, `LoginsAgree`),
and LAB4's client that exits because a broadcast overtook its confirmation.

## 4. Proofs

Every safety property that a passing run checks, the refinements and action properties
among them, is a theorem for every value of the constants. So is the type
correctness of every module; the runs `framing`, `udp` and `pool` leave it to the theorem.
The theorems hold under the assumptions that the modules make about their constants
(`DedupWindowAssumption`, `ReliabilityAssumption`, `PingAssumption`, `WorkerPoolAssumption`, ...: types, and sizes
that are not zero) and no other.
Each argument is an inductive invariant: a property is seldom inductive by itself, and
what has to be added to it says why the code is right. The invariants were
model-checked before they were proved.

### Sequences

The code takes elements out of vectors by `erase(remove_if(...))` and by loops that
copy some of them. `SelectSeq` is defined by recursion, which the provers cannot unfold,
so the modules say the same by positions: `Pick(s, I)`. That the two agree is
evaluated on all short sequences (`PickIsSelectSeq` in `MCOfflineDelivery`).
`Subsequences_proofs` has what the others need: a pick embeds into the sequence in order
(`PickEmbeds`, `PickWithin`), is what any listing of its positions gives (`PickIs`), and how
it changes when the sequence grows or loses its beginning (`PickGrows`, `PickShrinks`).

### Reliability and PingSeries

`PingSeries_proofs` holds the theorems about both modules. Those about `Reliability` are for
every number of messages, retry limit, window size, set of PINGs and both settings of the
simulation.

* `TypeCorrect`: `TypeOK` is inductive. The retry counter is the one interesting
  conjunct: the scan raises it only below MAX_RETRIES.
* `DedupCorrect`: `WindowedAtMostOnce` is not inductive, because "not in `last_ids`"
  alone says nothing about earlier positions. It becomes so with `WindowIsSuffix`:
  `last_ids` is the last part of `processed`, all of it while it is not full.
* `ShortSessionsProcessOnce`: if a session has no more messages than the filter
  remembers, none is processed twice. Two copies would have more than `DEDUP_WINDOW`
  positions between them, all of different messages (`WindowOfDistinct`, by counting).
* `AcksHonest`: with `WindowIsSuffix` a known id was processed, so every reply speaks
  of a processed message, and the client reports only those.
* `BooksComplete`: with `OneAtATime`, registering loses no second message; a send that
  fails registers nothing and is reported at once.
* `Refinement`: the session implements `AtMostOnceDelivery` with `DEDUP_WINDOW` for
  its window; `processed` and `acked` are mapped to themselves. `ProcessNew` maps to
  `Process`, because an id that is not in the filter is not among the last
  `DEDUP_WINDOW` processed; `ReceiveReply` to `Acknowledge` or a stutter; all other
  steps are stutters.
* `AckEndsRetries`: a message whose ACK was reported is neither pending nor about
  to be registered (`AckedLeftBooks`): an ACK that overtakes the registration finds
  nothing pending and is not reported.
* `FailedForGood`, an action property: a failure is reported of a message that has left
  the map, and only `sendReliableMessage` would put it back, which it does once
  (`FailedLeftBooks`). The other order, run `verdicts`, is possible because the retry
  thread reports from a list it made before.
* `CopiesBounded`: `RetryBooks` counts. A message has one copy for its first
  transmission, if that did not fail, and one for each retry in its counter, less the one
  the retry thread has in hand. Registering may reset the counter only because it is still 0, which
  needs that what is being registered was never scanned.
* `OrderKept`: the first copies travel in the order of the ids, so a message not yet
  processed is still on its way, before the first copies of all later ones, or a copy
  of it was dropped, or it could not be sent at all.

The theorems about `PingSeries` build on these: every step of a ping series is a step of
`Reliability` or leaves its state alone (`PingStepBelow`), so that every behaviour of the one
is a behaviour of the other (`PingsUseTheLayer`) and what is proved there holds here.

* `PingsCountedOnce`: a verdict is put under `pingMutex` on an open state only, and a
  state once settled is never open again, as only a fresh id gets one. What is
  between that mark and the counter is in the hands of one of three threads, main, receive
  and retry; their hands are disjoint, and `tally` is 1 for those that were counted
  and 0 for all others (`CountBooks`). A thread counts what it has in hand and lets go of it.
* `ForeignFoundBefore`: `SeriesBooks` says to which series the states belong, and
  what a thread remembers of the one it has found.
* `RttFromAnsweredCopy`: the time of sending keeps up with the retries or is in
  `storedLate` (`TimeBooks`), the copy the server answered is one of those sent
  (`WireBooks`), and only an answered ping has a PONG (`PongBooks`).
* `ClockNotBehind`, an action property: the time of sending is moved by main for its newest
  ping, and by the scan for an entry of the map (`TimesMoved`). The ping of a PONG that went
  through `handleAck` is neither about to be registered nor in the map, unless it was in
  `overtaken` (`AnsweredLeftBooks`); it was submitted (`PongSubmitted`), so its time is set
  (`TimesSet`), and main's storing it again does not raise it.
* `PingsTypeCorrect`: a counter is the number of pings counted in its series
  (`DiagBooks`), and so never more than there are.

### OfflineDelivery

* `QueueKeepsOrder`, `NothingQueuedTwice`: the queue alone is not enough, as it is
  overwritten from copies and rebuilt from the history. `OrderInv` has the order in all
  three: in the queue, in what each handler may still put back, and in the records, of
  which each message has one at most and after those its sender sent before. A message
  that its sender's handler has in hand is newer than all of these.
* `StoredUntilHanded`, `RedeliveredForAReason`: a message reaches its receiver from the
  queue only, and while it is in `marking` its flag is on the way (`FlagInv`). Marking goes
  by id, and nothing is assumed about ids: if the first record of the id is the message's own,
  the flag is set; if it is another's, the message is in `astray` and the other in
  `struck`; if the message's record is not there yet, it is in `early`. Both properties also
  say that `astray` and `struck` stay empty where every record has an id of its own
  (`OwnIds`, as in LAB5), because there the first record of an id is the only one (`OwnHit`).
* `TypeCorrect`: what comes back from the history is a client's own message, since
  `offline` is set only there, torn saves and restarts included.

### SessionRegistry

* `ListServesEveryone`: `removeClient` goes by descriptor, so the list is exact only
  because a descriptor belongs to its handler from `accept` to `close`
  (`OwnDescriptor`) and the entry is removed before that. `ListExact` and `NoTwice` do the rest.
* `OnlyRacersShareNames`: between test and list, two of one nickname have each been
  tested before the other was added (`TwinsEntered`).
* `BroadcastsInOrder`: an action property, from what everybody in the list has heard:
  the last broadcast, or the one before it if the one under way has still to reach it
  (`AllHeard`). The iteration sees the list as it is, because the mutex is held
  (`RestOfList`).
* `TypeCorrect`.

### ClientSession

* `TypeCorrect` with `MainBooks`: where the main thread is tells what the receive thread
  and the descriptor are doing.
* `ResentOnlyFromTheHand`: `MessageBooks` has for each message pending, in hand or under way
  that it is of this session or was in the retry thread's hand when its own ended.
* `NameIsFree`: the hardest one, as it is about connections the client has left.
  `HandlerBooks` relates each handler's phase to what it has sent, `GreetingBooks` and
  `NameBooks` say that the nickname is listed for one connection at most and for none
  older than the last login, and `LossBooks` what the client's view of how it lost a
  connection (`lost`) says about the handlers.
* `LoginsAreAgreed`: the first frame that a waiting client finds is its handler's verdict, but for a
  message of somebody else that LAB4 let through (`VerdictBooks`); without faults a handshake
  has what it waits for, unless a resent message came first (`FaultlessBooks`).

### TcpFraming

* `TornWithoutLoopsOnly`: `StreamBooks` is the shape of the bytes between sender and
  receiver: frame after frame, each from its first byte on (`Contiguous`), up to where
  the sender is (`Tip`). It holds with the loops and the mutex, and in the other programs
  as long as no `recv` was short and no two threads were inside `send`.
* `Refinement`: the stream implements `FrameFifo`. Each `SendPart` that completes a frame maps to
  `Send` (`SendPartMaps`), each `ReceivePart` that completes one to `Receive`
  (`ReceiveMaps`), everything else is a stutter; `SentBooks` says that the frames sent are those
  counted, which is the guard of `Send`. Without the loops nothing is mapped.
* `TypeCorrect`: a thread's counter never passes its bound because the frame it sends
  is the next one (`SenderBooks`).

### WorkerPool

`WorkerPool_proofs` holds for every finite set of workers and any set of clients.

* `SignalsSuffice`: `NoLostWakeup` is inductive together with the facts that ready
  and sleeping workers are different ones (`OneClientPerWorker`): `Accept` adds a
  client and a ready worker, `Take` removes one of each, `Sleep` needs an empty
  queue. The rest is counting in a finite set (`CountReady`).
* `ServedInAcceptOrder`, `Ownership`: two workers cannot hold one client because
  what is held was served (`HeldWereServed`), what waits was not (`ServedInOrder`),
  and `accept` returns each connection once (`Distinct`).
* `TypeCorrect`: type correctness.

### UdpEcho

`UdpEcho_proofs` holds for any set of clients and any number of lines and of faults.

* `AnswersMatch`: nothing in a datagram says which line it answers, so the waiting has to.
  A client that met neither a duplicate nor a failed `recvfrom` has at most one datagram
  under way, in one of three places (to the server, in its buffer, back), and none while it
  reads a line (`OneUnderWay`). Of the others it is only known that no datagram is newer than
  its client's last line, and that the address the server kept is that of the datagram
  in its buffer (`NoneNewer`).
* `TypeCorrect`: with `Basics`: what the server has cut fits the client's buffer, and
  who waits has sent a line.

### Only model-checked

* Liveness (`EveryPingIsSettled`, `HandlersFinish`, `QuitEnds`, `Reconnects`, `AllArrive`,
  `EveryClientServed`, `NoWorkerIdlesForever`, `WaitEnds`): the provers have no rule for
  fairness and `ENABLED` here.
* That `Pick` is `SelectSeq` on sequences of every length: an induction over data.
* The four violated properties, which have counterexamples.

## 5. Limits

What was planned is done: every component of the inventory that keeps state of its own is
modelled, and every safety property has its theorem. What stays open is listed above under
"Only model-checked" and here.

### Not modelled

* Logging, formatting, help texts, JSON escaping and the `net_diag` file are output
  that nothing reads back; jitter and averages are arithmetic on the measured times.
* SIGPIPE in the server is a crash of `OfflineDelivery`; `SessionRegistry` and `ClientSession`
  have no server that a send kills (`ServerRestarts` comes at any moment, though). In
  `Reliability` and `PingSeries` a failing send returns; that it may kill the client is in
  `ClientSession`, which counts a series of pings as one.
* `--corrupt` changes a byte of the text, which no property distinguishes.
* Id counters are not followed to their overflow at 2^32.
* The values of the clock. The order of its readings is modelled, as far as it decides
  from which copy an RTT is measured and whether it can be negative
  (`RttNotOverstated`, `RttNotNegative`); the milliseconds are not.
* LAB3's client: its loop is `ClientSession` without the checks; its /quit returns
  from `main` with the receive thread still joinable, which ends the process, and
  after the end of its input it sends empty lines without a pause.
* LAB2 beyond its framing: one client, one loop on each side, no shared state.
* Broadcast records of the history carry no flag that anybody reads and stand with
  the server's own records; `/history` only reads.
