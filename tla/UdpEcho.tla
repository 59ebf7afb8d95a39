------------------------------- MODULE UdpEcho -------------------------------
(***************************************************************************)
(* LAB1: clients send a line as one datagram and wait in recvfrom, without *)
(* a timeout, for the echo; the server answers one datagram after the      *)
(* other.  Nothing in a datagram says which line it belongs to.  The       *)
(* network may lose, duplicate and reorder datagrams; it delivers to the   *)
(* address it was given.  A client whose sendto fails reads its next line;  *)
(* the server whose sendto fails has thrown the datagram away.             *)
(***************************************************************************)
EXTENDS Naturals, Sequences

CONSTANTS
    Clients,
    MaxMsg,         \* bound: lines each client sends
    MaxFaults,      \* bound: faults of the network, of recvfrom and of sendto
    None

ASSUME UdpEchoAssumption == MaxMsg \in Nat /\ MaxFaults \in Nat /\ None \notin Clients

VARIABLES
    line,           \* of each client: number of its last line
    size,           \* of each client: whether that line fits a buffer
    state,          \* of each client: "reading" stdin, "waiting" or "gone"
    toServer,       \* datagrams under way to the server
    toClient,       \* datagrams under way to each client
    buffer,         \* server: the datagram being answered
    client,         \* server: where it came from
    faults,
    lost,           \* observed: clients with a datagram lost, or thrown away by the server
    muddled,        \* observed: clients with a duplicate or a failed recvfrom
    responses       \* observed: what each client printed, with the line it answered

vars == <<line, size, state, toServer, toClient, buffer, client, faults, lost,
          muddled, responses>>
serverVars == <<buffer, client>>
observed == <<lost, muddled, responses>>

Sizes == {"short", "long", "cut"}
Datagrams == [from : Clients, line : 1..MaxMsg, size : Sizes, copy : {1, 2}]
Responses == [answer : Datagrams, line : 1..MaxMsg, size : Sizes]

TypeOK ==
    /\ line \in [Clients -> 0..MaxMsg]
    /\ size \in [Clients -> Sizes]
    /\ state \in [Clients -> {"reading", "waiting", "gone"}]
    /\ toServer \in SUBSET Datagrams
    /\ toClient \in [Clients -> SUBSET Datagrams]
    /\ \A c \in Clients : \A d \in toClient[c] : d.size # "long"
    /\ buffer \in SUBSET Datagrams
    /\ client \in Clients \cup {None} /\ (client = None <=> buffer = {})
    /\ faults \in 0..MaxFaults
    /\ lost \in SUBSET Clients /\ muddled \in SUBSET Clients
    /\ responses \in [Clients -> Seq(Responses)]

Init ==
    /\ line = [c \in Clients |-> 0]
    /\ size = [c \in Clients |-> "short"]
    /\ state = [c \in Clients |-> "reading"]
    /\ toServer = {}
    /\ toClient = [c \in Clients |-> {}]
    /\ buffer = {} /\ client = None
    /\ faults = 0
    /\ lost = {} /\ muddled = {}
    /\ responses = [c \in Clients |-> <<>>]

-----------------------------------------------------------------------------
(* A buffer takes the first 1023 bytes of a datagram.                       *)
Cut(s) == IF s = "short" THEN "short" ELSE "cut"

SendLine(c, s) ==
    /\ state[c] = "reading"
    /\ line[c] < MaxMsg
    /\ line' = [line EXCEPT ![c] = @ + 1]
    /\ size' = [size EXCEPT ![c] = s]
    /\ state' = [state EXCEPT ![c] = "waiting"]
    /\ toServer' = toServer \cup
          {[from |-> c, line |-> line[c] + 1, size |-> s, copy |-> 1]}
    /\ UNCHANGED <<toClient, serverVars, faults, observed>>

\* An empty line or the end of the input; the socket is closed.
Quit(c) ==
    /\ state[c] = "reading"
    /\ state' = [state EXCEPT ![c] = "gone"]
    /\ UNCHANGED <<line, size, toServer, toClient, serverVars, faults, observed>>

Show(c, d) ==
    /\ toClient' = [toClient EXCEPT ![c] = @ \ {d}]
    /\ responses' = [responses EXCEPT ![c] = Append(@,
          [answer |-> [d EXCEPT !.size = Cut(@)], line |-> line[c], size |-> size[c]])]

\* A client that prints what has come and does not wait.
PrintWithoutWaiting(c) ==
    /\ state[c] = "waiting"
    /\ \/ \E d \in toClient[c] : Show(c, d)
       \/ toClient[c] = {} /\ UNCHANGED <<toClient, responses>>
    /\ state' = [state EXCEPT ![c] = "reading"]
    /\ UNCHANGED <<line, size, toServer, serverVars, faults, lost, muddled>>

\* Whatever comes first is printed as the response.
PrintResponse(c) ==
    /\ state[c] = "waiting"
    /\ \E d \in toClient[c] : Show(c, d)
    /\ state' = [state EXCEPT ![c] = "reading"]
    /\ UNCHANGED <<line, size, toServer, serverVars, faults, lost, muddled>>

-----------------------------------------------------------------------------
(* runServer: receive, then answer.                                         *)

Take(d) ==
    /\ toServer' = toServer \ {d}
    /\ buffer' = {[d EXCEPT !.size = Cut(@)]}
    /\ client' = d.from
    /\ UNCHANGED <<line, size, state, toClient, faults, observed>>

\* A datagram larger than the buffer is skipped.
ReceiveWhole == buffer = {} /\ \E d \in toServer : d.size = "short" /\ Take(d)

Receive == buffer = {} /\ \E d \in toServer : Take(d)

Echo ==
    /\ buffer # {}
    /\ toClient' = [toClient EXCEPT ![client] = @ \cup buffer]
    /\ buffer' = {} /\ client' = None
    /\ UNCHANGED <<line, size, state, toServer, faults, observed>>

\* sendto fails: the server goes on to the next datagram, and nobody tells the client.
EchoFails ==
    /\ buffer # {}
    /\ faults < MaxFaults
    /\ faults' = faults + 1
    /\ buffer' = {} /\ client' = None
    /\ lost' = lost \cup {client}
    /\ UNCHANGED <<line, size, state, toServer, toClient, muddled, responses>>

-----------------------------------------------------------------------------
(* Faults.                                                                  *)

Fault ==
    /\ faults < MaxFaults
    /\ faults' = faults + 1
    /\ UNCHANGED <<line, size, serverVars, responses>>

Lose ==
    /\ Fault
    /\ \/ \E d \in toServer :
            /\ toServer' = toServer \ {d} /\ lost' = lost \cup {d.from}
            /\ UNCHANGED toClient
       \/ \E c \in Clients : \E d \in toClient[c] :
            /\ toClient' = [toClient EXCEPT ![c] = @ \ {d}] /\ lost' = lost \cup {c}
            /\ UNCHANGED toServer
    /\ UNCHANGED <<state, muddled>>

Duplicate ==
    /\ Fault
    /\ \/ \E d \in toServer :
            /\ toServer' = toServer \cup {[d EXCEPT !.copy = 2]}
            /\ muddled' = muddled \cup {d.from}
            /\ UNCHANGED toClient
       \/ \E c \in Clients : \E d \in toClient[c] :
            /\ toClient' = [toClient EXCEPT ![c] = @ \cup {[d EXCEPT !.copy = 2]}]
            /\ muddled' = muddled \cup {c}
            /\ UNCHANGED toServer
    /\ UNCHANGED <<state, lost>>

\* recvfrom fails: the client goes on without an answer.
ReceiveFails(c) ==
    /\ Fault
    /\ state[c] = "waiting"
    /\ state' = [state EXCEPT ![c] = "reading"]
    /\ muddled' = muddled \cup {c}
    /\ UNCHANGED <<toServer, toClient, lost>>

-----------------------------------------------------------------------------
Next ==
    \/ \E c \in Clients : \/ \E s \in {"short", "long"} : SendLine(c, s)
                          \/ Quit(c)
                          \/ PrintResponse(c)
                          \/ ReceiveFails(c)
    \/ Receive
    \/ Echo
    \/ EchoFails
    \/ Lose
    \/ Duplicate

Spec == Init /\ [][Next]_vars

\* The server runs, and a datagram that has arrived is taken; that it arrives is
\* what Lose is the exception to.
FairSpec ==
    /\ Spec
    /\ WF_vars(Receive)
    /\ WF_vars(Echo)
    /\ \A c \in Clients : WF_vars(PrintResponse(c))

-----------------------------------------------------------------------------
(* Properties.                                                              *)

\* Another client's line is never printed as a response, with all clients served
\* by one buffer.  A response is the echo of the line just typed, cut to a buffer,
\* unless a datagram of this client was duplicated or a recvfrom failed before:
\* then old answers may be printed for new lines from there on.
ResponsesMatch ==
    \A c \in Clients : \A i \in 1..Len(responses[c]) :
        LET r == responses[c][i]
        IN  /\ r.answer.from = c
            /\ r.answer.line <= r.line
            /\ c \notin muddled => r.answer.line = r.line /\ r.answer.size = Cut(r.size)

\* Only a datagram that the network lost, or that the server could not send back,
\* leaves a client waiting for ever; nothing else does, whatever the others meet.
WaitEnds == \A c \in Clients : (state[c] = "waiting") ~> (state[c] # "waiting" \/ c \in lost)
=============================================================================
