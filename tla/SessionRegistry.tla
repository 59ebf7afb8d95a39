--------------------------- MODULE SessionRegistry ---------------------------
(***************************************************************************)
(* The list of clients of the chat server: descriptors and their reuse,    *)
(* login, broadcast, user list, private messages to somebody who is there, *)
(* and the end of a session.  LAB6 and its predecessor LAB4 differ in the  *)
(* lock around send, in some answers, and in the order of the last steps;  *)
(* LAB3 has neither nicknames nor notices about who comes and goes.  `lab' *)
(* says which of the three servers is running.                             *)
(*                                                                         *)
(* A connection and the handler thread that serves it share one name, and  *)
(* each connection is used once: a user who comes back uses another one.   *)
(* Critical sections of clientsMutex that contain no send are one step; a  *)
(* broadcast keeps the mutex from LockList to UnlockList and sends to one  *)
(* client per step, and a send waits while its receiver's buffer is full.  *)
(* There are workers enough (WorkerPool is about too few of them), and the *)
(* answers to one command, which go to one socket one after the other,     *)
(* count as one send.                                                      *)
(***************************************************************************)
EXTENDS Subsequences

CONSTANTS
    Conns, Nicks,
    Nick,           \* Conns -> Nicks: who authenticates on a connection
    Fds,            \* descriptor numbers; accept returns the lowest free one
    SendBuffer,     \* messages TCP holds for a client that does not read
    Talkers,        \* bound: clients that give a command, one each
    Slow,           \* bound: clients that may leave messages unread
    Abrupt,         \* bound: clients that may go without a BYE
    Labs,           \* the servers to look at, a subset of {3, 4, 6}
    None

ASSUME SessionRegistryAssumption ==
    /\ Nick \in [Conns -> Nicks]
    /\ Fds \subseteq Nat
    /\ SendBuffer \in Nat \ {0}
    /\ Talkers \subseteq Conns
    /\ Slow \subseteq Conns
    /\ Abrupt \subseteq Conns
    /\ Labs \subseteq {3, 4, 6}
    /\ None \notin Conns

VARIABLES
    lab,            \* which server
    pc,             \* of each handler
    fd,             \* of each handler: clientSock; stays when it is closed
    owner,          \* kernel: the connection behind each descriptor
    peerUp,         \* connections whose client has its end open
    unread,         \* messages on their way to each client
    clients,        \* the vector
    clientsMutex,   \* its holder
    sendMutex,      \* the handler that waits inside send with the lock held
    job,            \* of each handler: what it iterates over clients for
    todo,           \* of each handler: the rest of that iteration
    target,         \* of each handler: the client a private message is for
    toTalk,         \* talkers that have not given their command yet
    aired,          \* observed: number of broadcasts begun
    airing,         \* observed: number of the broadcast a handler works on
    heard,          \* observed: last broadcast put on each client's socket, 0 if none
                    \* or if the connection has ended
    raced,          \* observed: tested their nickname while a twin had
    strayed         \* observed: private messages on another nickname's socket

kernelVars == <<fd, owner, peerUp>>
lockVars == <<clients, clientsMutex>>
loopVars == <<job, todo, aired, airing>>
wireVars == <<unread, sendMutex, heard, strayed>>
vars == <<lab, pc, fd, owner, peerUp, unread, clients, clientsMutex, sendMutex,
          job, todo, target, toTalk, aired, airing, heard, raced, strayed>>

Jobs == {"JOIN", "TEXT", "LIST", "LEFT"}
InSession == {"added", "waiting", "iterating", "serving", "toList", "toPrivate",
              "toTell", "leaving", "authFailed"}
Phases == InSession \cup {"away", "accepted", "checked", "removed",
                       "closing", "gone"}

\* Between addClient and removeClient.
Listed(c) ==
    /\ pc[c] \in InSession
    /\ pc[c] \in {"waiting", "iterating"} => job[c] # "LEFT"

TypeOK ==
    /\ lab \in Labs
    /\ pc \in [Conns -> Phases]
    /\ fd \in [Conns -> Fds \cup {0}]
    /\ owner \in [Fds -> Conns \cup {None}]
    /\ peerUp \in SUBSET Conns
    /\ unread \in [Conns -> 0..SendBuffer]
    /\ clients \in Seq(Conns)
    /\ clientsMutex \in Conns \cup {None}
    /\ sendMutex \in Conns \cup {None}
    /\ job \in [Conns -> Jobs]
    /\ todo \in [Conns -> Seq(Conns)]
    /\ target \in [Conns -> Conns \cup {None}]
    /\ toTalk \in SUBSET Conns
    /\ aired \in Nat
    /\ airing \in [Conns -> Nat]
    /\ heard \in [Conns -> Nat]
    /\ raced \in SUBSET Conns
    /\ strayed \in SUBSET (Conns \X Conns)

Init ==
    /\ lab \in Labs
    /\ pc = [c \in Conns |-> "away"]
    /\ fd = [c \in Conns |-> 0]
    /\ owner = [f \in Fds |-> None]
    /\ peerUp = {}
    /\ unread = [c \in Conns |-> 0]
    /\ clients = <<>>
    /\ clientsMutex = None
    /\ sendMutex = None
    /\ job = [c \in Conns |-> "JOIN"]
    /\ todo = [c \in Conns |-> <<>>]
    /\ target = [c \in Conns |-> None]
    /\ toTalk = Talkers
    /\ aired = 0
    /\ airing = [c \in Conns |-> 0]
    /\ heard = [c \in Conns |-> 0]
    /\ raced = {}
    /\ strayed = {}

-----------------------------------------------------------------------------
(* Sockets.                                                                 *)

Enter(h, next) == pc' = [pc EXCEPT ![h] = next]

\* A closed descriptor and a client that has gone keep no send waiting.
Room(f) == owner[f] \in peerUp => unread[owner[f]] < SendBuffer

\* A send that does not wait for room.
TransmitAtOnce(h, f) ==
    /\ sendMutex \in {None, h}
    /\ sendMutex' = None
    /\ unread' = IF owner[f] \in peerUp \cap Slow
                 THEN [unread EXCEPT ![owner[f]] = @ + 1] ELSE unread

\* sendMessage of handler h to the descriptor f.  A closed descriptor or a
\* client that has gone makes the call fail, which the callers ignore.
Transmit(h, f) ==
    /\ sendMutex \in {None, h}
    /\ Room(f)
    /\ sendMutex' = None
    /\ unread' = IF owner[f] \in peerUp \cap Slow
                 THEN [unread EXCEPT ![owner[f]] = @ + 1] ELSE unread

\* A send of h to its own client.
Answer(h) == Transmit(h, fd[h]) /\ UNCHANGED <<heard, strayed>>

\* What the descriptor of h's next send is.
NextFd(h) ==
    CASE pc[h] = "iterating" /\ todo[h] # <<>> /\ job[h] # "LIST" -> fd[Head(todo[h])]
      [] pc[h] = "toPrivate" -> fd[target[h]]
      [] OTHER -> fd[h]

Sending == {"added", "iterating", "toList", "toPrivate", "toTell"}

\* LAB6: sendMessage has taken sendMutex and the receiver's buffer is full, so
\* every other send of the server waits as well.
BlockInSend(h) ==
    /\ lab = 6
    /\ pc[h] \in Sending
    /\ pc[h] = "iterating" => todo[h] # <<>>
    /\ sendMutex = None
    /\ ~Room(NextFd(h))
    /\ sendMutex' = h
    /\ UNCHANGED <<lab, pc, kernelVars, unread, lockVars, loopVars, target,
                   toTalk, heard, raced, strayed>>

\* Nothing reaches the client any more, and it is of no more interest here.
Close(h) ==
    /\ owner' = [owner EXCEPT ![fd[h]] = None]
    /\ peerUp' = peerUp \ {owner[fd[h]]}
    /\ unread' = [unread EXCEPT ![h] = 0]
    /\ heard' = [heard EXCEPT ![h] = 0]

PeerReads(c) ==
    /\ c \in peerUp
    /\ unread[c] > 0
    /\ unread' = [unread EXCEPT ![c] = @ - 1]
    /\ UNCHANGED <<lab, pc, kernelVars, lockVars, sendMutex, loopVars, target,
                   toTalk, heard, raced, strayed>>

PeerLeaves(c) ==
    /\ c \in peerUp \cap Abrupt
    /\ peerUp' = peerUp \ {c}
    /\ unread' = [unread EXCEPT ![c] = 0]
    /\ heard' = [heard EXCEPT ![c] = 0]
    /\ UNCHANGED <<lab, pc, fd, owner, lockVars, sendMutex, loopVars, target,
                   toTalk, raced, strayed>>

-----------------------------------------------------------------------------
(* Login.                                                                   *)

\* accept, and a worker takes the descriptor.
Accept(c) ==
    /\ pc[c] = "away"
    /\ \E f \in Fds :
        /\ owner[f] = None
        /\ \A g \in Fds : g < f => owner[g] # None
        /\ fd' = [fd EXCEPT ![c] = f]
        /\ owner' = [owner EXCEPT ![f] = c]
    /\ peerUp' = peerUp \cup {c}
    /\ Enter(c, "accepted")
    /\ UNCHANGED <<lab, lockVars, wireVars, loopVars, target, toTalk, raced>>

AlwaysFree(c) == TRUE

NicknameFree(c) == \A i \in 1..Len(clients) : Nick[clients[i]] # Nick[c]

\* HELLO came, WELCOME went, which the client has read before it sent AUTH, and
\* isNicknameUsed says no.
CheckNickname(c) ==
    /\ lab # 3
    /\ pc[c] = "accepted"
    /\ sendMutex = None
    /\ clientsMutex = None
    /\ NicknameFree(c)
    /\ raced' = LET twins == {d \in Conns : pc[d] = "checked" /\ Nick[d] = Nick[c]}
                IN  IF twins = {} THEN raced ELSE raced \cup twins \cup {c}
    /\ Enter(c, "checked")
    /\ UNCHANGED <<lab, kernelVars, lockVars, wireVars, loopVars, target, toTalk>>

\* LAB3 takes whatever comes first for the HELLO.
GreetAnyone(c) ==
    /\ lab = 3
    /\ pc[c] = "accepted"
    /\ Enter(c, "checked")
    /\ UNCHANGED <<lab, kernelVars, lockVars, wireVars, loopVars, target, toTalk, raced>>

\* Something else came than was expected, or nothing, or a nickname that is
\* empty, too long or in use: an error is sent and the descriptor closed.
Refuse(c) ==
    /\ pc[c] = "accepted"
    /\ sendMutex = None
    /\ Close(c)
    /\ Enter(c, "gone")
    /\ UNCHANGED <<lab, fd, lockVars, sendMutex, strayed, loopVars, target, toTalk, raced>>

AddClient(c) ==
    /\ pc[c] = "checked"
    /\ clientsMutex = None
    /\ clients' = Append(clients, c)
    /\ Enter(c, IF lab = 3 THEN "serving" ELSE "added")
    /\ UNCHANGED <<lab, kernelVars, clientsMutex, wireVars, loopVars, target,
                   toTalk, raced>>

StartJob(c, what) == job' = [job EXCEPT ![c] = what] /\ Enter(c, "waiting")

\* "Authentication successful", whether or not it can be sent, and the
\* broadcast about the newcomer is next.
ConfirmAuth(c) ==
    /\ lab = 6
    /\ pc[c] = "added"
    /\ Answer(c)
    /\ StartJob(c, "JOIN")
    /\ UNCHANGED <<lab, kernelVars, lockVars, todo, aired, airing, target,
                   toTalk, raced>>

\* LAB4 ends the session if the confirmation cannot be sent.
ConfirmAuthOrGiveUp(c) ==
    /\ lab = 4
    /\ pc[c] = "added"
    /\ \/ /\ Answer(c)
          /\ StartJob(c, "JOIN")
       \/ /\ c \notin peerUp
          /\ Enter(c, "authFailed")
          /\ UNCHANGED <<wireVars, job>>
    /\ UNCHANGED <<lab, kernelVars, lockVars, todo, aired, airing, target,
                   toTalk, raced>>

-----------------------------------------------------------------------------
(* Iterations over clients: broadcastMessage and handleListRequest.         *)

\* The number under which a broadcast is observed.
Number(h) ==
    IF job[h] = "LIST" THEN UNCHANGED <<aired, airing>>
    ELSE aired' = aired + 1 /\ airing' = [airing EXCEPT ![h] = aired + 1]

\* The list is copied and iterated without the mutex.
LockListCopying(h) ==
    /\ pc[h] = "waiting"
    /\ clientsMutex = None
    /\ todo' = [todo EXCEPT ![h] = clients]
    /\ Number(h)
    /\ Enter(h, "iterating")
    /\ UNCHANGED <<lab, kernelVars, lockVars, job, wireVars, target, toTalk, raced>>

LockList(h) ==
    /\ pc[h] = "waiting"
    /\ clientsMutex = None
    /\ clientsMutex' = h
    /\ todo' = [todo EXCEPT ![h] = clients]
    /\ Number(h)
    /\ Enter(h, "iterating")
    /\ UNCHANGED <<lab, kernelVars, clients, job, wireVars, target, toTalk, raced>>

\* One pass of broadcastMessage's loop.
BroadcastToNext(h) ==
    /\ pc[h] = "iterating"
    /\ job[h] # "LIST"
    /\ todo[h] # <<>>
    /\ Transmit(h, fd[Head(todo[h])])
    /\ heard' = LET d == owner[fd[Head(todo[h])]]
                IN  IF d \in peerUp THEN [heard EXCEPT ![d] = airing[h]] ELSE heard
    /\ todo' = [todo EXCEPT ![h] = Tail(@)]
    /\ UNCHANGED <<lab, pc, kernelVars, lockVars, job, aired, airing, target,
                   toTalk, raced, strayed>>

\* One pass of handleListRequest's loop: the next nickname goes to the caller.
ListNext(h) ==
    /\ pc[h] = "iterating"
    /\ job[h] = "LIST"
    /\ todo[h] # <<>>
    /\ Answer(h)
    /\ todo' = [todo EXCEPT ![h] = Tail(@)]
    /\ UNCHANGED <<lab, pc, kernelVars, lockVars, job, aired, airing, target,
                   toTalk, raced>>

\* The loop of a list request is left without unlocking.
UnlockBroadcastsOnly(h) ==
    /\ pc[h] = "iterating"
    /\ todo[h] = <<>>
    /\ clientsMutex' = IF job[h] = "LIST" THEN clientsMutex ELSE None
    /\ Enter(h, CASE job[h] = "TEXT" /\ lab = 6 -> "toTell"
                  [] job[h] = "LEFT" -> IF lab = 6 THEN "gone" ELSE "closing"
                  [] OTHER -> "serving")
    /\ airing' = [airing EXCEPT ![h] = 0]
    /\ UNCHANGED <<lab, kernelVars, clients, job, todo, aired, wireVars, target,
                   toTalk, raced>>

\* After the loop: a text is acknowledged (LAB6), the others are done.
UnlockList(h) ==
    /\ pc[h] = "iterating"
    /\ todo[h] = <<>>
    /\ clientsMutex' = None
    /\ Enter(h, CASE job[h] = "TEXT" /\ lab = 6 -> "toTell"
                  [] job[h] = "LEFT" -> IF lab = 6 THEN "gone" ELSE "closing"
                  [] OTHER -> "serving")
    /\ airing' = [airing EXCEPT ![h] = 0]
    /\ UNCHANGED <<lab, kernelVars, clients, job, todo, aired, wireVars, target,
                   toTalk, raced>>

-----------------------------------------------------------------------------
(* The session loop.                                                        *)

Command(c) ==
    /\ pc[c] = "serving"
    /\ c \in peerUp
    /\ c \in toTalk
    /\ toTalk' = toTalk \ {c}

\* MSG_TEXT.
TakeText(c) ==
    /\ Command(c)
    /\ StartJob(c, "TEXT")
    /\ UNCHANGED <<lab, kernelVars, lockVars, todo, aired, airing, wireVars, target, raced>>

\* MSG_LIST.
TakeList(c) ==
    /\ lab = 6
    /\ Command(c)
    /\ Enter(c, "toList")
    /\ UNCHANGED <<lab, kernelVars, lockVars, loopVars, wireVars, target, raced>>

\* handleListRequest begins with "Online users".
AnnounceList(c) ==
    /\ pc[c] = "toList"
    /\ Answer(c)
    /\ StartJob(c, "LIST")
    /\ UNCHANGED <<lab, kernelVars, lockVars, todo, aired, airing, target,
                   toTalk, raced>>

\* findClientByNickname: the first client of that name.
FirstOf(nick, c) ==
    \E i \in 1..Len(clients) :
        /\ clients[i] = c
        /\ Nick[c] = nick
        /\ \A j \in 1..(i - 1) : Nick[clients[j]] # nick

\* MSG_PRIVATE to somebody who is there: the Client object found outlives its
\* place in the list.
LookUp(c) ==
    /\ lab # 3
    /\ Command(c)
    /\ clientsMutex = None
    /\ \E d \in Conns : /\ FirstOf(Nick[d], d)
                        /\ target' = [target EXCEPT ![c] = d]
    /\ Enter(c, "toPrivate")
    /\ UNCHANGED <<lab, kernelVars, lockVars, loopVars, wireVars, raced>>

\* MSG_PRIVATE to nobody: LAB4 answers with an error; what LAB6 stores is the
\* subject of OfflineDelivery.
LookUpInVain(c) ==
    /\ lab # 3
    /\ Command(c)
    /\ clientsMutex = None
    /\ \E nick \in Nicks : \A i \in 1..Len(clients) : Nick[clients[i]] # nick
    /\ Enter(c, "toTell")
    /\ UNCHANGED <<lab, kernelVars, lockVars, loopVars, wireVars, target, raced>>

\* Everything else is answered to the caller alone: PING, HISTORY, and errors.
TakeOther(c) ==
    /\ Command(c)
    /\ Enter(c, "toTell")
    /\ UNCHANGED <<lab, kernelVars, lockVars, loopVars, wireVars, target, raced>>

\* The message goes to target->sock, whatever that descriptor is by now.
SendPrivate(c) ==
    /\ pc[c] = "toPrivate"
    /\ Transmit(c, fd[target[c]])
    /\ strayed' = LET d == owner[fd[target[c]]]
                  IN  IF d \in peerUp /\ Nick[d] # Nick[target[c]]
                      THEN strayed \cup {<<target[c], d>>} ELSE strayed
    /\ target' = [target EXCEPT ![c] = None]
    /\ Enter(c, IF lab = 6 THEN "toTell" ELSE "serving")
    /\ UNCHANGED <<lab, kernelVars, lockVars, loopVars, toTalk, heard, raced>>

\* The answer and the ACK, or LAB4's "not found".
Tell(c) ==
    /\ pc[c] = "toTell"
    /\ Answer(c)
    /\ Enter(c, "serving")
    /\ UNCHANGED <<lab, kernelVars, lockVars, loopVars, target, toTalk, raced>>

-----------------------------------------------------------------------------
(* The end of a session.                                                    *)

\* recv fails because the client has gone, or the client says BYE.
LeaveLoop(c) ==
    /\ pc[c] = "serving"
    /\ Enter(c, "leaving")
    /\ UNCHANGED <<lab, kernelVars, lockVars, loopVars, wireVars, target, toTalk, raced>>

\* Removal by name in place of socket.
SameName(d, c) == Nick[d] = Nick[c]

SameEntry(d, c) == fd[d] = fd[c]

\* removeClient goes by the number of the socket.
RemoveClient(c) ==
    /\ pc[c] \in {"leaving", "authFailed"}
    /\ clientsMutex = None
    /\ clients' = Pick(clients, {i \in 1..Len(clients) : ~SameEntry(clients[i], c)})
    /\ IF lab = 4 /\ pc[c] = "leaving"
       THEN StartJob(c, "LEFT")
       ELSE Enter(c, IF lab = 6 THEN "removed" ELSE "closing") /\ UNCHANGED job
    /\ UNCHANGED <<lab, kernelVars, clientsMutex, todo, aired, airing, wireVars,
                   target, toTalk, raced>>

\* LAB6 closes first and broadcasts then.
CloseSocket(c) ==
    /\ pc[c] = "removed"
    /\ Close(c)
    /\ StartJob(c, "LEFT")
    /\ UNCHANGED <<lab, fd, lockVars, todo, aired, airing, sendMutex, strayed,
                   target, toTalk, raced>>

\* LAB4 broadcasts first and closes then; LAB3 only closes.
CloseLast(c) ==
    /\ pc[c] = "closing"
    /\ Close(c)
    /\ Enter(c, "gone")
    /\ UNCHANGED <<lab, fd, lockVars, loopVars, sendMutex, strayed, target,
                   toTalk, raced>>

-----------------------------------------------------------------------------
\* What the handler does by itself, without waiting for its client.
Work(c) ==
    \/ BlockInSend(c)
    \/ CheckNickname(c)
    \/ GreetAnyone(c)
    \/ AddClient(c)
    \/ ConfirmAuth(c)
    \/ ConfirmAuthOrGiveUp(c)
    \/ LockList(c)
    \/ BroadcastToNext(c)
    \/ AnnounceList(c)
    \/ ListNext(c)
    \/ UnlockList(c)
    \/ SendPrivate(c)
    \/ Tell(c)
    \/ RemoveClient(c)
    \/ CloseSocket(c)
    \/ CloseLast(c)

Next ==
    \E c \in Conns :
        \/ Accept(c)
        \/ Refuse(c)
        \/ TakeText(c)
        \/ TakeList(c)
        \/ LookUp(c)
        \/ LookUpInVain(c)
        \/ TakeOther(c)
        \/ LeaveLoop(c)
        \/ PeerReads(c)
        \/ PeerLeaves(c)
        \/ Work(c)

Spec == Init /\ [][Next]_vars

\* A handler that has something to do is scheduled.
FairSpec == Spec /\ \A c \in Conns : WF_vars(Work(c))

-----------------------------------------------------------------------------
(* Properties.                                                              *)

\* Every session that is being served has its place in the list, once, under a
\* descriptor that is still its own: no other handler's removeClient, which
\* goes by a number that accept hands out again, takes it away.
ServedIsListed ==
    /\ \A c \in Conns :
          Listed(c) <=> \E i \in 1..Len(clients) : clients[i] = c
    /\ \A i \in 1..Len(clients) : owner[fd[clients[i]]] = clients[i]
    /\ \A i, j \in 1..Len(clients) : clients[i] = clients[j] => i = j

\* Broadcasts have one order for everybody: a client hears them without a gap and
\* without a repetition from its login on, and nobody hears one who is not in
\* the list, whatever logins, departures and other broadcasts go on.
HeardInOneOrder ==
    [][\A c \in Conns : heard'[c] \notin {0, heard[c]} =>
          /\ heard[c] = 0 \/ heard'[c] = heard[c] + 1
          /\ Listed(c)]_vars

\* Two clients share a nickname only if each was tested before the other was
\* added; there is no other way past isNicknameUsed.  LAB3 asks for no nickname.
TwinsRaced ==
    lab # 3 => \A i, j \in 1..Len(clients) :
        i # j /\ Nick[clients[i]] = Nick[clients[j]] => clients[i] \in raced

\* If no client stops reading for good, every handler whose session has ended
\* gets through its broadcast and returns its descriptor, although it queues
\* for two mutexes that others hold while they send.
ReadersRead == \A c \in Slow : []<>(unread[c] < SendBuffer)

HandlersFinish ==
    ReadersRead => \A c \in Conns : pc[c] = "leaving" ~> pc[c] = "gone"

\* A private message is only ever put on a socket of its receiver.
PrivateOnlyToReceiver == strayed = {}
=============================================================================
