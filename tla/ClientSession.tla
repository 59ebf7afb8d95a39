---------------------------- MODULE ClientSession ----------------------------
(***************************************************************************)
(* The life of a chat client across its connections: connect and           *)
(* handshake, the session with its receive thread, disconnect, reconnect,  *)
(* end of input and /quit, and what the server's handlers of these         *)
(* connections do with its nickname.  LAB4, LAB5 and LAB6 share the main   *)
(* program; LAB4 is strict about the answer to AUTH, LAB6 adds the retry   *)
(* thread, which knows nothing of connections.  `lab' says which pair of   *)
(* client and server is running.                                           *)
(*                                                                         *)
(* Connections are numbered; `epoch' is the one behind the global `sock'.  *)
(* The server remembers the messages of one connection without limit       *)
(* (DedupWindow has the limit), and only one retry of each message is      *)
(* followed (Reliability has them all).                                    *)
(***************************************************************************)
EXTENDS Naturals, Sequences, FiniteSets

CONSTANTS
    Labs,           \* the programs to look at, a subset of {4, 5, 6}
    MaxConns,       \* bound: connections the client makes
    MaxMsg,         \* bound: messages the user types
    MaxFaults,      \* bound: broken connections and server restarts
    DropEnabled     \* LAB6: the server runs with --drop > 0

Conns == 1..MaxConns
Msgs == 1..MaxMsg

ASSUME ClientSessionAssumption ==
    /\ Labs \subseteq {4, 5, 6}
    /\ MaxConns \in Nat
    /\ MaxMsg \in Nat
    /\ MaxFaults \in Nat
    /\ DropEnabled \in BOOLEAN

VARIABLES
    lab,            \* which program
    at,             \* main thread of the client
    running,
    epoch,          \* the connection of `sock', 0 before the first
    sockOpen,       \* the descriptor in `sock' is open
    rx,             \* receive thread
    eof,            \* standard input has ended
    born,           \* session in which each message was typed, 0 before
    pending,        \* LAB6: keys of pendingMessages
    toResend,       \* LAB6: what the retry thread has in hand
    resent,         \* messages whose one retry was taken
    toServer, toClient,
    clientEnd,      \* connections whose client end is open
    serverEnd,      \* connections whose server end is open
    broken,         \* connections the network no longer carries
    srv,            \* server: handler of each connection
    faults,         \* counter of the bound
    chatter,        \* whether somebody else may still say something
    processed,      \* observed: [msg, conn] the server has processed
    overtaken,      \* observed: connections that got talk before the answer to AUTH
    leftover,       \* observed: in the retry thread's hand when a session ended
    lost,           \* observed: how the last session ended
    byeDropped      \* observed: the simulation dropped a BYE

mainVars == <<at, running, epoch, sockOpen, eof, born>>
retryVars == <<pending, toResend, resent>>
netVars == <<toServer, toClient, clientEnd, serverEnd, broken>>
worldVars == <<srv, faults, chatter>>
observedVars == <<processed, overtaken, leftover, lost, byeDropped>>
vars == <<lab, at, running, epoch, sockOpen, rx, eof, born, pending, toResend,
          resent, toServer, toClient, clientEnd, serverEnd, broken, srv, faults,
          chatter, processed, overtaken, leftover, lost, byeDropped>>

Frame(kind, id) == [kind |-> kind, id |-> id]
Control(kind) == Frame(kind, 0)

Frames == [kind : {"HELLO", "AUTH", "BYE", "MSG", "WELCOME", "INFO", "ERROR",
                   "INUSE", "TALK", "ACK"}, id : 0..MaxMsg]
Places == {"connect", "connected", "waitWelcome", "waitAuth", "prompt",
           "joining", "closed", "quitting", "nameInUse", "handshakeFailed",
           "unexpected", "exited", "killed"}
HandlerPhases == {"none", "accepted", "welcomed", "listed", "serving",
                  "leaving", "removed", "closed"}

TypeOK ==
    /\ lab \in Labs
    /\ at \in Places
    /\ running \in BOOLEAN
    /\ epoch \in 0..MaxConns
    /\ sockOpen \in BOOLEAN
    /\ sockOpen => epoch \in clientEnd
    /\ rx \in {"none", "reading", "done"}
    /\ eof \in BOOLEAN
    /\ born \in [Msgs -> 0..MaxConns]
    /\ pending \in SUBSET Msgs
    /\ toResend \in SUBSET Msgs
    /\ resent \in SUBSET Msgs
    /\ toServer \in [Conns -> Seq(Frames)]
    /\ toClient \in [Conns -> Seq(Frames)]
    /\ clientEnd \in SUBSET Conns
    /\ serverEnd \in SUBSET Conns
    /\ broken \in SUBSET Conns
    /\ srv \in [Conns -> HandlerPhases]
    /\ faults \in 0..MaxFaults
    /\ chatter \in BOOLEAN
    /\ processed \in SUBSET [msg : Msgs, conn : Conns]
    /\ overtaken \in SUBSET Conns
    /\ leftover \in SUBSET Msgs
    /\ lost \in {"", "server", "network", "self"}
    /\ byeDropped \in BOOLEAN

Init ==
    /\ lab \in Labs
    /\ at = "connect"
    /\ running = FALSE
    /\ epoch = 0
    /\ sockOpen = FALSE
    /\ rx = "none"
    /\ eof = FALSE
    /\ born = [m \in Msgs |-> 0]
    /\ pending = {}
    /\ toResend = {}
    /\ resent = {}
    /\ toServer = [e \in Conns |-> <<>>]
    /\ toClient = [e \in Conns |-> <<>>]
    /\ clientEnd = {}
    /\ serverEnd = {}
    /\ broken = {}
    /\ srv = [e \in Conns |-> "none"]
    /\ faults = 0
    /\ chatter = TRUE
    /\ processed = {}
    /\ overtaken = {}
    /\ leftover = {}
    /\ lost = ""
    /\ byeDropped = FALSE

-----------------------------------------------------------------------------
(* The connection.                                                          *)

Carries(e) == e \in clientEnd \cap serverEnd /\ e \notin broken

\* What is sent to a connection that is no more is lost, whatever send says.
ToServer(e, frame) ==
    toServer' = IF Carries(e) THEN [toServer EXCEPT ![e] = Append(@, frame)] ELSE toServer
ToClient(e, frame) ==
    toClient' = IF Carries(e) THEN [toClient EXCEPT ![e] = Append(@, frame)] ELSE toClient

\* The next frame of a stream, and what the stream says when it has none left.
Arrived(stream, e, kind) == stream[e] # <<>> /\ Head(stream[e]).kind = kind
Advanced(stream, e) == [stream EXCEPT ![e] = Tail(@)]
ServerHungUp(e) == toClient[e] = <<>> /\ (e \notin serverEnd \/ e \in broken)
ClientHungUp(e) == toServer[e] = <<>> /\ (e \notin clientEnd \/ e \in broken)

-----------------------------------------------------------------------------
(* connectAndAuthorize, in the client's main thread.                        *)

\* socket and connect, repeated every two seconds until the server accepts.
Connect ==
    /\ at = "connect"
    /\ epoch < MaxConns
    /\ epoch' = epoch + 1
    /\ sockOpen' = TRUE
    /\ at' = "connected"
    /\ clientEnd' = clientEnd \cup {epoch'}
    /\ serverEnd' = serverEnd \cup {epoch'}
    /\ srv' = [srv EXCEPT ![epoch'] = "accepted"]
    /\ UNCHANGED <<lab, running, rx, eof, born, retryVars, toServer, toClient,
                   broken, faults, chatter, observedVars>>

SendHello ==
    /\ at = "connected"
    /\ at' = "waitWelcome"
    /\ ToServer(epoch, Control("HELLO"))
    /\ UNCHANGED <<lab, running, epoch, sockOpen, rx, eof, born, retryVars,
                   toClient, clientEnd, serverEnd, broken, worldVars, observedVars>>

\* close(sock), and main returns 1.
GiveUp(why) ==
    /\ at' = why
    /\ sockOpen' = FALSE
    /\ clientEnd' = clientEnd \ {epoch}

Stay == UNCHANGED <<sockOpen, clientEnd>>

\* AUTH follows WELCOME.
ReadWelcome ==
    /\ at = "waitWelcome"
    /\ IF Arrived(toClient, epoch, "WELCOME")
       THEN /\ at' = "waitAuth"
            /\ toClient' = Advanced(toClient, epoch)
            /\ ToServer(epoch, Control("AUTH"))
            /\ Stay
       ELSE /\ toClient[epoch] # <<>> \/ ServerHungUp(epoch)
            /\ GiveUp("handshakeFailed")
            /\ UNCHANGED <<toClient, toServer>>
    /\ UNCHANGED <<lab, running, epoch, rx, eof, born, retryVars, serverEnd,
                   broken, worldVars, observedVars>>

\* LAB6 as strict as LAB4.
IsLoginStrictly(kind) == kind = "INFO"

\* LAB4 takes the confirmation only, LAB5 and LAB6 whatever is no error.
IsLogin(kind) == IF lab = 4 THEN kind = "INFO" ELSE kind \notin {"ERROR", "INUSE"}

\* After a login main starts the receive thread and reads the first line.
ReadAnswer ==
    /\ at = "waitAuth"
    /\ toClient[epoch] # <<>>
    /\ toClient' = Advanced(toClient, epoch)
    /\ IF IsLogin(Head(toClient[epoch]).kind)
       THEN /\ at' = "prompt"
            /\ running' = TRUE
            /\ rx' = "reading"
            /\ Stay
       ELSE /\ GiveUp(CASE Arrived(toClient, epoch, "INUSE") -> "nameInUse"
                        [] Arrived(toClient, epoch, "ERROR") -> "handshakeFailed"
                        [] OTHER -> "unexpected")
            /\ UNCHANGED <<running, rx>>
    /\ UNCHANGED <<lab, epoch, eof, born, retryVars, toServer, serverEnd,
                   broken, worldVars, observedVars>>

ReadNoAnswer ==
    /\ at = "waitAuth"
    /\ ServerHungUp(epoch)
    /\ GiveUp("handshakeFailed")
    /\ UNCHANGED <<lab, running, epoch, rx, eof, born, retryVars, toServer,
                   toClient, serverEnd, broken, worldVars, observedVars>>

-----------------------------------------------------------------------------
(* The session, in the client's main thread: it sits in getline and looks   *)
(* at `running' after each line.                                            *)

\* Only the result of the send counts.
AfterLineUnlooked(ok) == at' = IF ok THEN "prompt" ELSE "joining"

AfterLine(ok) == at' = IF ok /\ running THEN "prompt" ELSE "joining"

\* A message is sent and, in LAB6, registered as pending; the send to a
\* connection that is no more may still succeed.  One that fails ends the
\* session, but not if it was a ping of LAB6 (PingSeries says what becomes of
\* that; a series is one ping here).
TypeMessage ==
    /\ at = "prompt"
    /\ ~eof
    /\ \E m \in Msgs, ok \in BOOLEAN, isPing \in BOOLEAN :
        /\ isPing => lab = 6
        /\ born[m] = 0
        /\ \A k \in Msgs : k < m => born[k] # 0
        /\ Carries(epoch) => ok
        /\ born' = [born EXCEPT ![m] = epoch]
        /\ ToServer(epoch, Frame("MSG", m))
        /\ pending' = IF ok /\ lab = 6 THEN pending \cup {m} ELSE pending
        /\ running' = ((ok \/ isPing) /\ running)
        /\ AfterLine(ok \/ isPing)
    /\ UNCHANGED <<lab, epoch, sockOpen, rx, eof, toResend, resent, toClient,
                   clientEnd, serverEnd, broken, worldVars, observedVars>>

\* An empty line, or /help: nothing happens but the look at `running'.
TypeNothing ==
    /\ at = "prompt"
    /\ ~eof
    /\ ~running
    /\ AfterLine(TRUE)
    /\ UNCHANGED <<lab, running, epoch, sockOpen, rx, eof, born, retryVars,
                   netVars, worldVars, observedVars>>

\* getline fails, now and ever after; main waits for the receive thread.
EndOfInput ==
    /\ at = "prompt"
    /\ eof' = TRUE
    /\ running' = FALSE
    /\ AfterLine(FALSE)
    /\ lost' = IF rx = "done" THEN lost ELSE "self"
    /\ UNCHANGED <<lab, epoch, sockOpen, rx, born, retryVars, netVars, worldVars,
                   processed, overtaken, leftover, byeDropped>>

\* /quit: BYE, close, join.  While the receive thread is inside recv the close
\* only takes the descriptor away: the connection stays.
TypeQuit ==
    /\ at = "prompt"
    /\ ~eof
    /\ at' = "quitting"
    /\ running' = FALSE
    /\ sockOpen' = FALSE
    /\ ToServer(epoch, Control("BYE"))
    /\ clientEnd' = IF rx = "done" THEN clientEnd \ {epoch} ELSE clientEnd
    /\ UNCHANGED <<lab, epoch, rx, eof, born, retryVars, toClient, serverEnd,
                   broken, worldVars, observedVars>>

QuitJoined ==
    /\ at = "quitting"
    /\ rx = "done"
    /\ at' = "exited"
    /\ UNCHANGED <<lab, running, epoch, sockOpen, rx, eof, born, retryVars,
                   netVars, worldVars, observedVars>>

\* The receive thread has ended: close, and the connection is gone.
CloseSock ==
    /\ at = "joining"
    /\ rx = "done"
    /\ at' = "closed"
    /\ sockOpen' = FALSE
    /\ clientEnd' = clientEnd \ {epoch}
    /\ UNCHANGED <<lab, running, epoch, rx, eof, born, retryVars, toServer,
                   toClient, serverEnd, broken, worldVars, observedVars>>

\* The next connection is made with the old messages still pending.
ReconnectUncleared ==
    /\ at = "closed"
    /\ at' = "connect"
    /\ leftover' = leftover \cup toResend
    /\ UNCHANGED <<lab, running, epoch, sockOpen, rx, eof, born, retryVars,
                   netVars, worldVars, processed, overtaken, lost, byeDropped>>

\* clearPendingState; what the retry thread has in hand it keeps.
ClearPendingState ==
    /\ at = "closed"
    /\ at' = "connect"
    /\ pending' = {}
    /\ leftover' = leftover \cup toResend
    /\ UNCHANGED <<lab, running, epoch, sockOpen, rx, eof, born, toResend, resent,
                   netVars, worldVars, processed, overtaken, lost, byeDropped>>

-----------------------------------------------------------------------------
(* The receive thread: recv on the connection, and `running' after it.      *)

\* The receive thread hangs up by itself.
ReceiverEndsClosing ==
    /\ rx' = "done"
    /\ clientEnd' = clientEnd \ {epoch}

\* Out of the loop; a descriptor closed by /quit now lets the connection go.
ReceiverEnds ==
    /\ rx' = "done"
    /\ clientEnd' = IF sockOpen THEN clientEnd ELSE clientEnd \ {epoch}

Receive ==
    /\ rx = "reading"
    /\ toClient[epoch] # <<>>
    /\ toClient' = Advanced(toClient, epoch)
    /\ pending' = IF Arrived(toClient, epoch, "ACK")
                  THEN pending \ {Head(toClient[epoch]).id} ELSE pending
    /\ IF running THEN UNCHANGED <<rx, clientEnd>> ELSE ReceiverEnds
    /\ UNCHANGED <<lab, mainVars, toResend, resent, toServer, serverEnd, broken,
                   worldVars, observedVars>>

ReceiveFails ==
    /\ rx = "reading"
    /\ ServerHungUp(epoch)
    /\ running' = FALSE
    /\ lost' = IF epoch \notin serverEnd THEN "server" ELSE "network"
    /\ ReceiverEnds
    /\ UNCHANGED <<lab, at, epoch, sockOpen, eof, born, retryVars, toServer,
                   toClient, serverEnd, broken, worldVars, processed, overtaken,
                   leftover, byeDropped>>

-----------------------------------------------------------------------------
(* The retry thread of LAB6.                                                *)

\* One pass.  It looks at `running' first, but before it comes to the pending
\* messages the session may have ended: until main has cleared them it finds them.
Scan ==
    /\ lab = 6
    /\ at \in {"prompt", "joining", "closed", "quitting"}
    /\ toResend = {}
    /\ \E expired \in SUBSET (pending \ resent) :
        /\ expired # {}
        /\ toResend' = expired
        /\ resent' = resent \cup expired
    /\ UNCHANGED <<lab, mainVars, rx, pending, netVars, worldVars, observedVars>>

\* The frame goes to whatever `sock' is by now.
Resend ==
    /\ \E m \in toResend :
        /\ toResend' = toResend \ {m}
        /\ IF sockOpen THEN ToServer(epoch, Frame("MSG", m)) ELSE UNCHANGED toServer
    /\ UNCHANGED <<lab, mainVars, rx, pending, resent, toClient, clientEnd,
                   serverEnd, broken, worldVars, observedVars>>

\* send without MSG_NOSIGNAL: SIGPIPE ends the process, with all its threads,
\* if the connection is gone.  The first call that meets the end is told so by
\* its result instead, a recv as well; that is not counted here, only that HELLO
\* and AUTH are no second calls unless a resent message came before them.
SendKills ==
    /\ sockOpen
    /\ ~Carries(epoch)
    /\ \/ at = "prompt" /\ ~eof
       \/ at = "connected" /\ leftover # {}
       \/ at = "waitWelcome" /\ Arrived(toClient, epoch, "WELCOME") /\ leftover # {}
       \/ toResend # {}
    /\ GiveUp("killed")
    /\ running' = FALSE
    /\ rx' = "done"
    /\ pending' = {}
    /\ toResend' = {}
    /\ UNCHANGED <<lab, epoch, eof, born, resent, toServer, toClient, serverEnd,
                   broken, worldVars, observedVars>>

-----------------------------------------------------------------------------
(* The server's handler of connection e.                                    *)

Handler(e, next) == srv' = [srv EXCEPT ![e] = next]
ServerTakes(e) == toServer' = Advanced(toServer, e)

\* The nickname is in the list between addClient and removeClient.
NicknameUsed == \E e \in Conns : srv[e] \in {"listed", "serving", "leaving"}

ServerRefuses(e, kind) ==
    /\ ToClient(e, Control(kind))
    /\ serverEnd' = serverEnd \ {e}
    /\ Handler(e, "closed")

\* HELLO and WELCOME; anything else ends the connection.
ServerGreets(e) ==
    /\ srv[e] = "accepted"
    /\ toServer[e] # <<>> \/ ClientHungUp(e)
    /\ IF Arrived(toServer, e, "HELLO")
       THEN /\ ToClient(e, Control("WELCOME"))
            /\ Handler(e, "welcomed")
            /\ UNCHANGED serverEnd
       ELSE ServerRefuses(e, "ERROR")
    /\ IF ClientHungUp(e) THEN UNCHANGED toServer ELSE ServerTakes(e)
    /\ UNCHANGED <<lab, mainVars, rx, retryVars, clientEnd, broken, faults,
                   chatter, observedVars>>

\* AUTH, the test of the nickname and addClient.
ServerAuthenticates(e) ==
    /\ srv[e] = "welcomed"
    /\ toServer[e] # <<>> \/ ClientHungUp(e)
    /\ IF Arrived(toServer, e, "AUTH") /\ ~NicknameUsed
       THEN /\ Handler(e, "listed")
            /\ UNCHANGED <<toClient, serverEnd>>
       ELSE ServerRefuses(e, IF Arrived(toServer, e, "AUTH") THEN "INUSE" ELSE "ERROR")
    /\ IF ClientHungUp(e) THEN UNCHANGED toServer ELSE ServerTakes(e)
    /\ UNCHANGED <<lab, mainVars, rx, retryVars, clientEnd, broken, faults,
                   chatter, observedVars>>

\* "Authentication successful", after the client was added.
ServerConfirms(e) ==
    /\ srv[e] = "listed"
    /\ ToClient(e, Control("INFO"))
    /\ Handler(e, "serving")
    /\ UNCHANGED <<lab, mainVars, rx, retryVars, toServer, clientEnd, serverEnd,
                   broken, faults, chatter, observedVars>>

\* Another user's broadcast reaches everyone in the list.
OthersTalk(e) ==
    /\ chatter
    /\ srv[e] \in {"listed", "serving"}
    /\ ToClient(e, Control("TALK"))
    /\ chatter' = FALSE
    /\ overtaken' = IF srv[e] = "listed" THEN overtaken \cup {e} ELSE overtaken
    /\ UNCHANGED <<lab, mainVars, rx, retryVars, toServer, clientEnd, serverEnd,
                   broken, srv, faults, processed, leftover, lost, byeDropped>>

\* The session loop: every frame but BYE, new or known, is answered.
ServerServes(e) ==
    /\ srv[e] = "serving"
    /\ Arrived(toServer, e, "MSG")
    /\ ServerTakes(e)
    /\ processed' = processed \cup {[msg |-> Head(toServer[e]).id, conn |-> e]}
    /\ ToClient(e, Frame("ACK", Head(toServer[e]).id))
    /\ UNCHANGED <<lab, mainVars, rx, retryVars, clientEnd, serverEnd, broken,
                   worldVars, overtaken, leftover, lost, byeDropped>>

\* The network simulation of LAB6 drops any frame of a session, BYE as well.
ServerDrops(e) ==
    /\ lab = 6
    /\ DropEnabled
    /\ srv[e] = "serving"
    /\ toServer[e] # <<>>
    /\ ServerTakes(e)
    /\ byeDropped' = (byeDropped \/ Arrived(toServer, e, "BYE"))
    /\ UNCHANGED <<lab, mainVars, rx, retryVars, toClient, clientEnd, serverEnd,
                   broken, worldVars, processed, overtaken, leftover, lost>>

\* BYE is answered like any unknown frame.
ServerHearsEndNotBye(e) ==
    /\ srv[e] = "serving"
    /\ ClientHungUp(e)
    /\ Handler(e, "leaving")
    /\ UNCHANGED <<lab, mainVars, rx, retryVars, netVars, faults, chatter, observedVars>>

\* BYE, or recv fails: out of the loop.
ServerHearsEnd(e) ==
    /\ srv[e] = "serving"
    /\ Arrived(toServer, e, "BYE") \/ ClientHungUp(e)
    /\ Handler(e, "leaving")
    /\ UNCHANGED <<lab, mainVars, rx, retryVars, netVars, faults, chatter, observedVars>>

\* The socket is closed first and the client removed from the list after that.
ServerClosesFirst(e) ==
    /\ srv[e] = "leaving"
    /\ IF e \in serverEnd THEN UNCHANGED srv ELSE Handler(e, "removed")
    /\ serverEnd' = serverEnd \ {e}
    /\ UNCHANGED <<lab, mainVars, rx, retryVars, toServer, toClient, clientEnd,
                   broken, faults, chatter, observedVars>>

ServerRemoves(e) ==
    /\ srv[e] = "leaving"
    /\ Handler(e, "removed")
    /\ UNCHANGED <<lab, mainVars, rx, retryVars, netVars, faults, chatter, observedVars>>

ServerCloses(e) ==
    /\ srv[e] = "removed"
    /\ Handler(e, "closed")
    /\ serverEnd' = serverEnd \ {e}
    /\ UNCHANGED <<lab, mainVars, rx, retryVars, toServer, toClient, clientEnd,
                   broken, faults, chatter, observedVars>>

-----------------------------------------------------------------------------
(* Faults.                                                                  *)

\* The network stops carrying a connection; each end notices in its own time.
Break(e) ==
    /\ faults < MaxFaults
    /\ Carries(e)
    /\ faults' = faults + 1
    /\ broken' = broken \cup {e}
    /\ toServer' = [toServer EXCEPT ![e] = <<>>]
    /\ toClient' = [toClient EXCEPT ![e] = <<>>]
    /\ UNCHANGED <<lab, mainVars, rx, retryVars, clientEnd, serverEnd, srv,
                   chatter, observedVars>>

\* The server process dies and is started again: every handler is gone.
ServerRestarts ==
    /\ faults < MaxFaults
    /\ serverEnd # {}
    /\ faults' = faults + 1
    /\ serverEnd' = {}
    /\ srv' = [e \in Conns |-> IF srv[e] = "none" THEN "none" ELSE "closed"]
    /\ UNCHANGED <<lab, mainVars, rx, retryVars, toServer, toClient, clientEnd,
                   broken, chatter, observedVars>>

-----------------------------------------------------------------------------
MainWorks ==
    \/ Connect
    \/ SendHello
    \/ ReadWelcome
    \/ ReadAnswer
    \/ ReadNoAnswer
    \/ QuitJoined
    \/ CloseSock
    \/ ClearPendingState

ReceiverWorks == Receive \/ ReceiveFails

ServerWorks(e) ==
    \/ ServerGreets(e)
    \/ ServerAuthenticates(e)
    \/ ServerConfirms(e)
    \/ ServerServes(e)
    \/ ServerDrops(e)
    \/ ServerHearsEnd(e)
    \/ ServerRemoves(e)
    \/ ServerCloses(e)

Next ==
    \/ MainWorks
    \/ TypeMessage
    \/ TypeNothing
    \/ TypeQuit
    \/ EndOfInput
    \/ ReceiverWorks
    \/ Scan
    \/ Resend
    \/ SendKills
    \/ \E e \in Conns : ServerWorks(e) \/ OthersTalk(e) \/ Break(e)
    \/ ServerRestarts

Spec == Init /\ [][Next]_vars

\* After the end of the input getline returns at once, too.
FairSpec ==
    /\ Spec
    /\ WF_vars(MainWorks \/ (eof /\ EndOfInput))
    /\ WF_vars(ReceiverWorks)
    /\ WF_vars(Resend)
    /\ \A e \in Conns : WF_vars(ServerWorks(e))

-----------------------------------------------------------------------------
(* Properties.                                                              *)

\* A client whose connection was closed by the server, or by a restart of it,
\* finds its own nickname free when it comes back: "Nickname already in use" is
\* left to connections that the client gave up before the server knew.
NameFreeAfterServerClose == at = "nameInUse" => lost \in {"network", "self"}

\* A message is processed in another session than the one it was typed in only
\* if the retry thread had it in hand when its session ended: whatever was
\* merely pending is forgotten before the next connection is made.
ResentInOwnSession ==
    \A p \in processed : p.conn = born[p.msg] \/ p.msg \in leftover

\* Client and server agree about a login: the client refuses one that the server
\* has listed only for a lost connection, or in LAB4 because somebody else's
\* message overtook the confirmation; and without faults the handshake itself
\* fails only because a message of the last session was resent into it.
LoginsAgree ==
    /\ at = "unexpected" => lab = 4 /\ epoch \in overtaken
    /\ at = "nameInUse" => srv[epoch] = "closed"
    /\ at = "handshakeFailed" /\ faults = 0
          => leftover # {} /\ \A p \in processed : p.conn # epoch

\* /quit ends the program, although close does not wake the receive thread it
\* then waits for: the server answers BYE by closing, unless it dropped it.
QuitEnds == at = "quitting" ~> at = "exited" \/ byeDropped

\* A client that was disconnected makes its next connection if its user goes on
\* typing, even empty lines, and it comes to a verdict about it, unless what is
\* sent to the connection that is gone kills it.
UserTypes == WF_vars(TypeNothing)
Decided == at \in {"nameInUse", "handshakeFailed", "unexpected", "exited"}

Reconnects ==
    UserTypes =>
        \A e \in Conns :
            at = "prompt" /\ epoch = e /\ e < MaxConns /\ ~running ~>
                \/ epoch = e + 1 /\ (at = "prompt" \/ Decided)
                \/ at \in {"exited", "killed"} \/ byeDropped
=============================================================================
