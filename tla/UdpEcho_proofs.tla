---------------------------- MODULE UdpEcho_proofs ----------------------------
(***************************************************************************)
(* Proofs about UdpEcho, for any set of clients and any number of lines    *)
(* and of faults.                                                          *)
(*                                                                         *)
(* Nothing in a datagram tells a client which line it answers.  That the   *)
(* answers match is due to the waiting: as long as a client met neither a  *)
(* duplicate nor a failed recvfrom, it has one datagram under way at most, *)
(* on one of three places, and none at all while it reads a line.          *)
(***************************************************************************)
EXTENDS UdpEcho, TLAPS

-----------------------------------------------------------------------------
(* Types.                                                                   *)

\* What the echo has for its length and the clients for their lines.
Basics ==
    /\ TypeOK
    /\ \A d \in buffer : d.size # "long"
    /\ \A c \in Clients : state[c] = "waiting" => line[c] # 0

LEMMA CutIs == \A s \in Sizes : Cut(s) \in Sizes /\ Cut(s) # "long" /\ (s # "long" => Cut(s) = s)
BY DEF Cut, Sizes

\* The parts of a datagram, also after it was cut or duplicated.
LEMMA DatagramIs ==
    ASSUME NEW d \in Datagrams
    PROVE  /\ d.from \in Clients /\ d.line \in 1..MaxMsg /\ d.size \in Sizes
           /\ \A s \in Sizes : /\ [d EXCEPT !.size = s] \in Datagrams
                              /\ [d EXCEPT !.size = s].size = s
                              /\ [d EXCEPT !.size = s].from = d.from
                              /\ [d EXCEPT !.size = s].line = d.line
           /\ /\ [d EXCEPT !.copy = 2] \in Datagrams
              /\ [d EXCEPT !.copy = 2].size = d.size
              /\ [d EXCEPT !.copy = 2].from = d.from
              /\ [d EXCEPT !.copy = 2].line = d.line
BY DEF Datagrams

\* What a client prints is what has come: the server has cut it to that size before.
LEMMA ShowIs ==
    ASSUME Basics, NEW c \in Clients, state[c] = "waiting", NEW d \in toClient[c], Show(c, d)
    PROVE  LET r == [answer |-> d, line |-> line[c], size |-> size[c]]
           IN  /\ r \in Responses
               /\ responses' = [responses EXCEPT ![c] = Append(@, r)]
               /\ toClient' = [toClient EXCEPT ![c] = @ \ {d}]
<1>1. /\ toClient[c] \in SUBSET Datagrams /\ d.size # "long"
      /\ line[c] \in 0..MaxMsg /\ line[c] # 0 /\ size[c] \in Sizes
  BY DEF Basics, TypeOK
<1>2. d \in Datagrams /\ line[c] \in 1..MaxMsg
  BY <1>1, UdpEchoAssumption
<1>3. Cut(d.size) = d.size
  BY <1>1, <1>2, CutIs, DatagramIs
<1>4. [d EXCEPT !.size = Cut(@)] = d
  BY <1>2, <1>3 DEF Datagrams
<1>5. [answer |-> d, line |-> line[c], size |-> size[c]] \in Responses
  BY <1>1, <1>2 DEF Responses
<1>. QED  BY <1>4, <1>5 DEF Show

LEMMA BasicsStep ==
    ASSUME Basics, [Next]_vars
    PROVE  Basics'
<1>. USE UdpEchoAssumption
<1>1. ASSUME NEW c \in Clients, NEW s \in {"short", "long"}, SendLine(c, s)
      PROVE  Basics'
  <2>1. line[c] \in Nat /\ line[c] < MaxMsg /\ s \in Sizes
    BY <1>1 DEF Basics, TypeOK, SendLine, Sizes
  <2>2. line[c] + 1 \in 1..MaxMsg /\ line[c] + 1 \in 0..MaxMsg /\ line[c] + 1 # 0
    BY <2>1
  <2>3. [from |-> c, line |-> line[c] + 1, size |-> s, copy |-> 1] \in Datagrams
    BY <2>1, <2>2 DEF Datagrams
  <2>4. toServer' \in SUBSET Datagrams
    BY <1>1, <2>3 DEF SendLine, Basics, TypeOK
  <2>5. line' \in [Clients -> 0..MaxMsg] /\ size' \in [Clients -> Sizes]
    BY <1>1, <2>1, <2>2 DEF SendLine, Basics, TypeOK
  <2>6. \A e \in Clients : state'[e] = "waiting" => line'[e] # 0
    BY <1>1, <2>2 DEF SendLine, Basics, TypeOK
  <2>. QED  BY <1>1, <2>4, <2>5, <2>6 DEF SendLine, Basics, TypeOK, serverVars, observed
<1>2. ASSUME NEW c \in Clients, Quit(c)
      PROVE  Basics'
  BY <1>2 DEF Quit, Basics, TypeOK, serverVars, observed
<1>3. ASSUME NEW c \in Clients, PrintResponse(c)
      PROVE  Basics'
  <2>1. PICK d \in toClient[c] : Show(c, d)
    BY <1>3 DEF PrintResponse
  <2>2. PICK r \in Responses : /\ responses' = [responses EXCEPT ![c] = Append(@, r)]
                               /\ toClient' = [toClient EXCEPT ![c] = @ \ {d}]
    BY <1>3, <2>1, ShowIs DEF PrintResponse
  <2>3. responses' \in [Clients -> Seq(Responses)]
    BY <2>2 DEF Basics, TypeOK
  <2>4. /\ toClient' \in [Clients -> SUBSET Datagrams]
        /\ \A e \in Clients : \A f \in toClient'[e] : f.size # "long"
    BY <2>2 DEF Basics, TypeOK
  <2>5. /\ state' \in [Clients -> {"reading", "waiting", "gone"}]
        /\ \A e \in Clients : state'[e] = "waiting" => state[e] = "waiting"
    BY <1>3 DEF PrintResponse, Basics, TypeOK
  <2>. QED  BY <1>3, <2>3, <2>4, <2>5 DEF PrintResponse, Basics, TypeOK, serverVars
<1>4. CASE Receive
  <2>1. PICK d \in toServer : Take(d)
    BY <1>4 DEF Receive
  <2>. DEFINE e == [d EXCEPT !.size = Cut(@)]
  <2>2. d \in Datagrams
    BY DEF Basics, TypeOK
  <2>3. e \in Datagrams /\ e.size # "long" /\ d.from \in Clients
    BY <2>2, CutIs, DatagramIs
  <2>4. toServer' \subseteq toServer /\ buffer' = {e} /\ client' = d.from
    BY <2>1 DEF Take
  <2>. HIDE DEF e
  <2>. QED  BY <2>1, <2>3, <2>4 DEF Take, Basics, TypeOK, observed
<1>5. CASE Echo
  <2>1. client \in Clients /\ toClient' = [toClient EXCEPT ![client] = @ \cup buffer]
    BY <1>5 DEF Echo, Basics, TypeOK
  <2>2. /\ toClient' \in [Clients -> SUBSET Datagrams]
        /\ \A c \in Clients : \A d \in toClient'[c] : d.size # "long"
    BY <2>1 DEF Basics, TypeOK
  <2>. QED  BY <1>5, <2>2 DEF Echo, Basics, TypeOK, observed
<1>6. CASE Lose
  <2>1. /\ faults' \in 0..MaxFaults
        /\ UNCHANGED <<line, size, buffer, client, responses, state, muddled>>
    BY <1>6 DEF Lose, Fault, Basics, TypeOK, serverVars
  <2>2. CASE \E d \in toServer : /\ toServer' = toServer \ {d} /\ lost' = lost \cup {d.from}
                                /\ UNCHANGED toClient
    <3>1. \A d \in toServer : d.from \in Clients
      BY DatagramIs DEF Basics, TypeOK
    <3>2. /\ toServer' \in SUBSET Datagrams /\ lost' \in SUBSET Clients
          /\ UNCHANGED toClient
      BY <2>2, <3>1 DEF Basics, TypeOK
    <3>. QED  BY <2>1, <3>2 DEF Basics, TypeOK
  <2>3. CASE \E c \in Clients : \E d \in toClient[c] :
                /\ toClient' = [toClient EXCEPT ![c] = @ \ {d}] /\ lost' = lost \cup {c}
                /\ UNCHANGED toServer
    BY <2>1, <2>3 DEF Basics, TypeOK
  <2>. QED  BY <1>6, <2>2, <2>3 DEF Lose
<1>7. CASE Duplicate
  <2>1. /\ faults' \in 0..MaxFaults
        /\ UNCHANGED <<line, size, buffer, client, responses, state, lost>>
    BY <1>7 DEF Duplicate, Fault, Basics, TypeOK, serverVars
  <2>2. ASSUME NEW d \in toServer, toServer' = toServer \cup {[d EXCEPT !.copy = 2]},
               muddled' = muddled \cup {d.from}, UNCHANGED toClient
        PROVE  Basics'
    <3>1. d.from \in Clients /\ [d EXCEPT !.copy = 2] \in Datagrams
      BY DatagramIs DEF Basics, TypeOK
    <3>. QED  BY <2>1, <2>2, <3>1 DEF Basics, TypeOK
  <2>3. ASSUME NEW c \in Clients, NEW d \in toClient[c],
               toClient' = [toClient EXCEPT ![c] = @ \cup {[d EXCEPT !.copy = 2]}],
               muddled' = muddled \cup {c}, UNCHANGED toServer
        PROVE  Basics'
    <3>. DEFINE e == [d EXCEPT !.copy = 2]
    <3>1. d \in Datagrams /\ d.size # "long"
      BY DEF Basics, TypeOK
    <3>2. e \in Datagrams /\ e.size # "long"
      BY <3>1, DatagramIs
    <3>. HIDE DEF e
    <3>3. toClient' = [toClient EXCEPT ![c] = @ \cup {e}]
      BY <2>3 DEF e
    <3>. QED  BY <2>1, <2>3, <3>2, <3>3 DEF Basics, TypeOK
  <2>. QED  BY <1>7, <2>2, <2>3 DEF Duplicate
<1>8. ASSUME NEW c \in Clients, ReceiveFails(c)
      PROVE  Basics'
  BY <1>8 DEF ReceiveFails, Fault, Basics, TypeOK, serverVars
<1>9. CASE EchoFails
  BY <1>9 DEF EchoFails, Basics, TypeOK
<1>10. CASE UNCHANGED vars
  BY <1>10 DEF vars, Basics, TypeOK
<1>. QED
  BY <1>1, <1>2, <1>3, <1>4, <1>5, <1>6, <1>7, <1>8, <1>9, <1>10 DEF Next

LEMMA BasicsKept == Spec => []Basics
<1>1. Init => Basics
  BY UdpEchoAssumption DEF Init, Basics, TypeOK, Sizes
<1>. QED  BY <1>1, BasicsStep, PTL DEF Spec

\* Every variable keeps its type: a client never counts past its last line, and
\* what is echoed fits into the buffer of its reader.
THEOREM TypeCorrect == Spec => []TypeOK
BY BasicsKept, PTL DEF Basics

-----------------------------------------------------------------------------
(* What is under way.                                                       *)

\* The line that client c sent last, on its way to the server and back.
Asked(c) == [from |-> c, line |-> line[c], size |-> size[c], copy |-> 1]
Echoed(c) == [from |-> c, line |-> line[c], size |-> Cut(size[c]), copy |-> 1]

\* No datagram has a line that its client has not sent, and the one in the buffer
\* came from the address that is kept for it.
NoneNewer ==
    /\ \A d \in toServer : d.line <= line[d.from]
    /\ \A d \in buffer : d.from = client /\ d.line <= line[d.from]
    /\ \A c \in Clients : \A d \in toClient[c] : d.from = c /\ d.line <= line[c]

\* The one datagram of client c.
OneUnderWay(c) ==
    /\ \A d \in toServer : d.from = c =>
          state[c] = "waiting" /\ d = Asked(c) /\ client # c /\ toClient[c] = {}
    /\ client = c => state[c] = "waiting" /\ buffer = {Echoed(c)} /\ toClient[c] = {}
    /\ toClient[c] # {} => state[c] = "waiting" /\ toClient[c] = {Echoed(c)}

EchoInv ==
    /\ NoneNewer
    /\ \A c \in Clients \ muddled : OneUnderWay(c)
    /\ ResponsesMatch

\* A step that leaves a client and its datagrams alone, or loses one of them.
LEMMA StillOne ==
    ASSUME NEW c \in Clients, OneUnderWay(c),
           line'[c] = line[c], size'[c] = size[c],
           state'[c] = state[c], toClient'[c] \subseteq toClient[c],
           \A d \in toServer' : d.from = c => d \in toServer,
           client' = c <=> client = c, client = c => buffer' = buffer
    PROVE  OneUnderWay(c)'
<1>1. Asked(c)' = Asked(c) /\ Echoed(c)' = Echoed(c)
  BY DEF Asked, Echoed
<1>2. toClient'[c] # {} => toClient'[c] = toClient[c]
  BY DEF OneUnderWay
<1>. QED  BY <1>1, <1>2 DEF OneUnderWay

LEMMA NoneNewerStep ==
    ASSUME Basics, NoneNewer, [Next]_vars
    PROVE  NoneNewer'
<1>1. /\ line \in [Clients -> 0..MaxMsg] /\ toServer \in SUBSET Datagrams
      /\ \A c \in Clients : toClient[c] \in SUBSET Datagrams
      /\ buffer \in SUBSET Datagrams
  BY DEF Basics, TypeOK
<1>2. ASSUME toServer' \subseteq toServer, buffer' = buffer, client' = client, line' = line,
             \A c \in Clients : toClient'[c] \subseteq toClient[c]
      PROVE  NoneNewer'
  BY <1>2 DEF NoneNewer
<1>3. ASSUME NEW c \in Clients, NEW s \in {"short", "long"}, SendLine(c, s)
      PROVE  NoneNewer'
  <2>1. \A e \in Clients : line'[e] \in Nat /\ line[e] \in Nat /\ line[e] <= line'[e]
    BY <1>1, <1>3 DEF SendLine
  <2>2. line'[c] = line[c] + 1 /\ UNCHANGED <<toClient, buffer, client>>
    BY <1>1, <1>3 DEF SendLine, serverVars
  <2>. DEFINE new == [from |-> c, line |-> line[c] + 1, size |-> s, copy |-> 1]
  <2>3. toServer' = toServer \cup {new} /\ new.from = c /\ new.line = line[c] + 1
    BY <1>3 DEF SendLine
  <2>. HIDE DEF new
  <2>4. \A d \in Datagrams : d.from \in Clients /\ d.line \in Nat
    BY UdpEchoAssumption DEF Datagrams
  <2>5. \A d \in Datagrams : d.line <= line[d.from] => d.line <= line'[d.from]
    BY <2>1, <2>4
  <2>6. \A d \in toServer' : d.line <= line'[d.from]
    BY <1>1, <2>1, <2>2, <2>3, <2>5 DEF NoneNewer
  <2>7. \A d \in buffer : d.from = client /\ d.line <= line'[d.from]
    BY <1>1, <2>5 DEF NoneNewer
  <2>8. \A e \in Clients : \A d \in toClient[e] : d.from = e /\ d.line <= line'[e]
    BY <1>1, <2>5 DEF NoneNewer
  <2>. QED  BY <2>2, <2>6, <2>7, <2>8 DEF NoneNewer
<1>4. ASSUME NEW c \in Clients, Quit(c) \/ ReceiveFails(c)
      PROVE  NoneNewer'
  BY <1>2, <1>4 DEF Quit, ReceiveFails, Fault, serverVars
<1>5. ASSUME NEW c \in Clients, PrintResponse(c)
      PROVE  NoneNewer'
  <2>1. \A e \in Clients : toClient'[e] \subseteq toClient[e]
    BY <1>5 DEF PrintResponse, Show, Basics, TypeOK
  <2>. QED  BY <1>2, <1>5, <2>1 DEF PrintResponse, serverVars
<1>6. CASE Receive
  <2>1. PICK d \in toServer : Take(d)
    BY <1>6 DEF Receive
  <2>2. d \in Datagrams /\ Cut(d.size) \in Sizes
    BY <1>1, CutIs, DatagramIs
  <2>. DEFINE e == [d EXCEPT !.size = Cut(@)]
  <2>3. e.from = d.from /\ e.line = d.line
    BY <2>2, DatagramIs
  <2>4. /\ toServer' \subseteq toServer /\ buffer' = {e} /\ client' = d.from
        /\ UNCHANGED <<line, toClient>>
    BY <2>1 DEF Take
  <2>. HIDE DEF e
  <2>. QED  BY <2>3, <2>4 DEF NoneNewer
<1>7. CASE Echo
  <2>1. client \in Clients /\ toClient' = [toClient EXCEPT ![client] = @ \cup buffer]
    BY <1>7 DEF Echo, Basics, TypeOK
  <2>2. \A c \in Clients : \A d \in toClient'[c] : d \in toClient[c] \/ (c = client /\ d \in buffer)
    BY <2>1 DEF Basics, TypeOK
  <2>3. buffer' = {} /\ UNCHANGED <<line, toServer>>
    BY <1>7 DEF Echo
  <2>4. \A c \in Clients : \A d \in toClient'[c] : d.from = c /\ d.line <= line[c]
    BY <2>2 DEF NoneNewer
  <2>. QED  BY <2>3, <2>4 DEF NoneNewer
<1>8. CASE Lose
  <2>1. toServer' \subseteq toServer /\ \A c \in Clients : toClient'[c] \subseteq toClient[c]
    BY <1>8 DEF Lose, Basics, TypeOK
  <2>. QED  BY <1>2, <1>8, <2>1 DEF Lose, Fault, serverVars
<1>9. CASE Duplicate
  <2>1. UNCHANGED <<line, buffer, client>>
    BY <1>9 DEF Duplicate, Fault, serverVars
  <2>2. ASSUME NEW d \in toServer, toServer' = toServer \cup {[d EXCEPT !.copy = 2]},
               UNCHANGED toClient
        PROVE  NoneNewer'
    <3>1. [d EXCEPT !.copy = 2].from = d.from /\ [d EXCEPT !.copy = 2].line = d.line
      BY <1>1, DatagramIs
    <3>. QED  BY <2>1, <2>2, <3>1 DEF NoneNewer
  <2>3. ASSUME NEW c \in Clients, NEW d \in toClient[c], UNCHANGED toServer,
               toClient' = [toClient EXCEPT ![c] = @ \cup {[d EXCEPT !.copy = 2]}]
        PROVE  NoneNewer'
    <3>. DEFINE e == [d EXCEPT !.copy = 2]
    <3>1. e.from = d.from /\ e.line = d.line
      BY <1>1, DatagramIs
    <3>2. toClient' = [toClient EXCEPT ![c] = @ \cup {e}]
      BY <2>3
    <3>. HIDE DEF e
    <3>3. \A b \in Clients : \A f \in toClient'[b] : f \in toClient[b] \/ (b = c /\ f = e)
      BY <3>2 DEF Basics, TypeOK
    <3>4. \A b \in Clients : \A f \in toClient'[b] : f.from = b /\ f.line <= line[b]
      BY <3>1, <3>3 DEF NoneNewer
    <3>. QED  BY <2>1, <2>3, <3>4 DEF NoneNewer
  <2>. QED  BY <1>9, <2>2, <2>3 DEF Duplicate
<1>10. CASE EchoFails
  BY <1>10 DEF EchoFails, NoneNewer
<1>11. CASE UNCHANGED vars
  BY <1>2, <1>11 DEF vars
<1>. QED
  BY <1>3, <1>4, <1>5, <1>6, <1>7, <1>8, <1>9, <1>10, <1>11 DEF Next

LEMMA OneUnderWayStep ==
    ASSUME Basics, NoneNewer, \A c \in Clients \ muddled : OneUnderWay(c), [Next]_vars,
           NEW b \in Clients \ muddled'
    PROVE  OneUnderWay(b)'
<1>1. muddled \subseteq muddled'
  BY DEF Next, SendLine, Quit, PrintResponse, Receive, Take, Echo, EchoFails, Lose, Duplicate, ReceiveFails,
         observed, vars
<1>2. b \in Clients /\ b \notin muddled /\ OneUnderWay(b)
  BY <1>1
<1>3. /\ line \in [Clients -> 0..MaxMsg] /\ size \in [Clients -> Sizes]
      /\ state \in [Clients -> {"reading", "waiting", "gone"}]
      /\ toClient \in [Clients -> SUBSET Datagrams]
  BY DEF Basics, TypeOK
<1>4. ASSUME NEW c \in Clients, NEW s \in {"short", "long"}, SendLine(c, s)
      PROVE  OneUnderWay(b)'
  <2>. DEFINE new == [from |-> c, line |-> line[c] + 1, size |-> s, copy |-> 1]
  <2>1. toServer' = toServer \cup {new} /\ new.from = c /\ UNCHANGED <<toClient, client, buffer>>
    BY <1>4 DEF SendLine, serverVars
  <2>2. /\ line'[c] = line[c] + 1 /\ size'[c] = s /\ state'[c] = "waiting" /\ state[c] = "reading"
        /\ \A e \in Clients \ {c} : line'[e] = line[e] /\ size'[e] = size[e] /\ state'[e] = state[e]
    BY <1>3, <1>4 DEF SendLine
  <2>3. CASE b = c
    <3>1. /\ \A d \in toServer : d.from # c
          /\ client # c /\ toClient[c] = {}
      BY <1>2, <2>2, <2>3 DEF OneUnderWay
    <3>2. Asked(c)' = new
      BY <2>2 DEF Asked
    <3>. HIDE DEF new
    <3>. QED  BY <2>1, <2>2, <2>3, <3>1, <3>2 DEF OneUnderWay
  <2>4. CASE b # c
    <3>. HIDE DEF new
    <3>1. \A d \in toServer' : d.from = b => d \in toServer
      BY <2>1, <2>4
    <3>. QED  BY <1>2, <2>1, <2>2, <2>4, <3>1, StillOne
  <2>. QED  BY <2>3, <2>4
<1>5. ASSUME NEW c \in Clients, Quit(c)
      PROVE  OneUnderWay(b)'
  <2>1. /\ state[c] = "reading" /\ \A e \in Clients \ {c} : state'[e] = state[e]
        /\ UNCHANGED <<line, size, toServer, toClient, client, buffer>>
    BY <1>3, <1>5 DEF Quit, serverVars
  <2>2. CASE b = c
    BY <1>2, <2>1, <2>2 DEF OneUnderWay
  <2>3. CASE b # c
    BY <1>2, <2>1, <2>3, StillOne
  <2>. QED  BY <2>2, <2>3
<1>6. ASSUME NEW c \in Clients, PrintResponse(c)
      PROVE  OneUnderWay(b)'
  <2>1. PICK d \in toClient[c] : toClient' = [toClient EXCEPT ![c] = @ \ {d}]
    BY <1>6 DEF PrintResponse, Show
  <2>2. /\ \A e \in Clients \ {c} : state'[e] = state[e]
        /\ UNCHANGED <<line, size, toServer, client, buffer>>
    BY <1>3, <1>6 DEF PrintResponse, serverVars
  <2>3. /\ toClient'[c] = toClient[c] \ {d}
        /\ \A e \in Clients \ {c} : toClient'[e] = toClient[e]
    BY <1>3, <2>1
  <2>4. CASE b = c
    <3>1. toClient[c] = {Echoed(c)} /\ d = Echoed(c)
      BY <1>2, <2>4 DEF OneUnderWay
    <3>2. toClient'[c] = {} /\ client # c /\ \A e \in toServer : e.from # c
      BY <1>2, <2>3, <2>4, <3>1 DEF OneUnderWay
    <3>. QED  BY <2>2, <2>4, <3>2 DEF OneUnderWay
  <2>5. CASE b # c
    BY <1>2, <2>2, <2>3, <2>5, StillOne
  <2>. QED  BY <2>4, <2>5
<1>7. CASE Receive
  <2>1. PICK d \in toServer : Take(d)
    BY <1>7 DEF Receive
  <2>2. /\ toServer' = toServer \ {d} /\ buffer' = {[d EXCEPT !.size = Cut(@)]} /\ client' = d.from
        /\ UNCHANGED <<line, size, state, toClient>>
    BY <2>1 DEF Take
  <2>3. client = None /\ None \notin Clients
    BY <1>7, UdpEchoAssumption DEF Receive, Basics, TypeOK
  <2>4. CASE d.from = b
    <3>1. d = Asked(b) /\ state[b] = "waiting" /\ toClient[b] = {}
      BY <1>2, <2>4 DEF OneUnderWay
    <3>2. [d EXCEPT !.size = Cut(@)] = Echoed(b) /\ Echoed(b)' = Echoed(b)
      BY <2>2, <3>1 DEF Asked, Echoed
    <3>3. \A e \in toServer' : e.from # b
      BY <1>2, <2>2, <3>1 DEF OneUnderWay
    <3>. QED  BY <2>2, <3>1, <3>2, <3>3 DEF OneUnderWay
  <2>5. CASE d.from # b
    <3>1. (client' = b <=> client = b) /\ client # b
      BY <2>2, <2>3, <2>5
    <3>. QED  BY <1>2, <2>2, <3>1, StillOne
  <2>. QED  BY <2>4, <2>5
<1>8. CASE Echo
  <2>1. /\ client \in Clients /\ toClient' = [toClient EXCEPT ![client] = @ \cup buffer]
        /\ client' = None /\ None \notin Clients
        /\ UNCHANGED <<line, size, state, toServer>>
    BY <1>8, UdpEchoAssumption DEF Echo, Basics, TypeOK
  <2>2. CASE client = b
    <3>1. /\ state[b] = "waiting" /\ buffer = {Echoed(b)} /\ toClient[b] = {}
          /\ \A d \in toServer : d.from # b
      BY <1>2, <2>2 DEF OneUnderWay
    <3>2. toClient'[b] = {Echoed(b)}
      BY <1>3, <2>1, <2>2, <3>1
    <3>3. Echoed(b)' = Echoed(b)
      BY <2>1 DEF Echoed
    <3>. QED  BY <2>1, <3>1, <3>2, <3>3 DEF OneUnderWay
  <2>3. CASE client # b
    <3>1. toClient'[b] = toClient[b] /\ client' # b
      BY <1>3, <2>1, <2>3
    <3>. QED  BY <1>2, <2>1, <2>3, <3>1, StillOne
  <2>. QED  BY <2>2, <2>3
<1>9. CASE Lose
  <2>1. /\ toServer' \subseteq toServer /\ toClient'[b] \subseteq toClient[b]
        /\ UNCHANGED <<line, size, state, client, buffer>>
    BY <1>3, <1>9 DEF Lose, Fault, serverVars
  <2>. QED  BY <1>2, <2>1, StillOne
<1>10. CASE Duplicate
  <2>1. UNCHANGED <<line, size, state, client, buffer>>
    BY <1>10 DEF Duplicate, Fault, serverVars
  <2>2. ASSUME NEW d \in toServer, toServer' = toServer \cup {[d EXCEPT !.copy = 2]},
               muddled' = muddled \cup {d.from}, UNCHANGED toClient
        PROVE  OneUnderWay(b)'
    <3>1. d \in Datagrams
      BY DEF Basics, TypeOK
    <3>2. [d EXCEPT !.copy = 2].from = d.from /\ d.from # b
      BY <2>2, <3>1, DatagramIs
    <3>3. \A e \in toServer' : e.from = b => e \in toServer
      BY <2>2, <3>2
    <3>. QED  BY <1>2, <2>1, <2>2, <3>3, StillOne
  <2>3. ASSUME NEW c \in Clients, muddled' = muddled \cup {c}, UNCHANGED toServer,
               \A e \in Clients \ {c} : toClient'[e] = toClient[e]
        PROVE  OneUnderWay(b)'
    BY <1>2, <2>1, <2>3, StillOne
  <2>4. ASSUME NEW c \in Clients, NEW e, toClient' = [toClient EXCEPT ![c] = e]
        PROVE  \A f \in Clients \ {c} : toClient'[f] = toClient[f]
    BY <1>3, <2>4
  <2>. QED  BY <1>10, <2>2, <2>3, <2>4 DEF Duplicate
<1>11. ASSUME NEW c \in Clients, ReceiveFails(c)
       PROVE  OneUnderWay(b)'
  <2>1. /\ b # c /\ state'[b] = state[b]
        /\ UNCHANGED <<line, size, toServer, toClient, client, buffer>>
    BY <1>3, <1>11 DEF ReceiveFails, Fault, serverVars
  <2>. QED  BY <1>2, <2>1, StillOne
<1>12. CASE EchoFails
  <2>1. client' # b /\ UNCHANGED <<line, size, state, toServer, toClient>>
    BY <1>2, <1>12, UdpEchoAssumption DEF EchoFails
  <2>2. CASE client = b
    <3>1. Asked(b)' = Asked(b) /\ Echoed(b)' = Echoed(b)
      BY <2>1 DEF Asked, Echoed
    <3>. QED  BY <1>2, <2>1, <2>2, <3>1 DEF OneUnderWay
  <2>3. CASE client # b
    BY <1>2, <2>1, <2>3, StillOne
  <2>. QED  BY <2>2, <2>3
<1>13. CASE UNCHANGED vars
  BY <1>2, <1>13, StillOne DEF vars
<1>. QED
  BY <1>4, <1>5, <1>6, <1>7, <1>8, <1>9, <1>10, <1>11, <1>12, <1>13 DEF Next

-----------------------------------------------------------------------------
(* Answers.                                                                 *)

\* What a printed line says about the line it answers.
Matches(c, r) ==
    /\ r.answer.from = c
    /\ r.answer.line <= r.line
    /\ c \notin muddled => r.answer.line = r.line /\ r.answer.size = Cut(r.size)

LEMMA MatchStep ==
    ASSUME Basics, EchoInv, [Next]_vars
    PROVE  ResponsesMatch'
<1>1. muddled \subseteq muddled'
  BY DEF Next, SendLine, Quit, PrintResponse, Receive, Take, Echo, EchoFails, Lose, Duplicate, ReceiveFails,
         observed, vars
<1>2. \A c \in Clients : \A i \in 1..Len(responses[c]) : Matches(c, responses[c][i])
  BY DEF EchoInv, ResponsesMatch, Matches
<1>3. ASSUME \A c \in Clients : \A i \in 1..Len(responses'[c]) : Matches(c, responses'[c][i])
      PROVE  ResponsesMatch'
  BY <1>1, <1>3 DEF ResponsesMatch, Matches
<1>4. ASSUME NEW c \in Clients, PrintResponse(c)
      PROVE  ResponsesMatch'
  <2>1. state[c] = "waiting"
    BY <1>4 DEF PrintResponse
  <2>2. PICK d \in toClient[c] : Show(c, d)
    BY <1>4 DEF PrintResponse
  <2>. DEFINE r == [answer |-> d, line |-> line[c], size |-> size[c]]
  <2>3. responses' = [responses EXCEPT ![c] = Append(@, r)]
    BY <2>1, <2>2, ShowIs
  <2>4. r.answer = d /\ r.line = line[c] /\ r.size = size[c]
    OBVIOUS
  <2>5. d.from = c /\ d.line <= line[c]
    BY DEF EchoInv, NoneNewer
  <2>6. c \notin muddled => d.line = line[c] /\ d.size = Cut(size[c])
    BY DEF EchoInv, OneUnderWay, Echoed
  <2>7. Matches(c, r)
    BY <2>4, <2>5, <2>6 DEF Matches
  <2>. HIDE DEF r
  <2>8. responses \in [Clients -> Seq(Responses)] /\ responses[c] \in Seq(Responses)
    BY DEF Basics, TypeOK
  <2>9. \A e \in Clients : responses'[e] = IF e = c THEN Append(responses[c], r) ELSE responses[e]
    BY <2>3, <2>8
  <2>10. \A i \in 1..Len(Append(responses[c], r)) :
             \/ i \in 1..Len(responses[c]) /\ Append(responses[c], r)[i] = responses[c][i]
             \/ Append(responses[c], r)[i] = r
    BY <2>8
  <2>11. \A i \in 1..Len(Append(responses[c], r)) : Matches(c, Append(responses[c], r)[i])
    BY <1>2, <2>7, <2>10
  <2>. QED  BY <1>2, <1>3, <2>9, <2>11
<1>5. CASE UNCHANGED responses
  BY <1>2, <1>3, <1>5
<1>6. \/ \E c \in Clients : PrintResponse(c)
      \/ UNCHANGED responses
  BY DEF Next, SendLine, Quit, Receive, Take, Echo, EchoFails, Lose, Duplicate, ReceiveFails, Fault,
         observed, vars
<1>. QED  BY <1>4, <1>5, <1>6

LEMMA EchoInvKept == Spec => []EchoInv
<1>1. Init => EchoInv
  BY UdpEchoAssumption DEF Init, EchoInv, NoneNewer, OneUnderWay, ResponsesMatch
<1>2. Basics /\ EchoInv /\ [Next]_vars => EchoInv'
  BY NoneNewerStep, OneUnderWayStep, MatchStep DEF EchoInv
<1>. QED  BY <1>1, <1>2, BasicsKept, PTL DEF Spec

\* No client ever prints another client's line, nor one that it has yet to type,
\* and each answer is the echo of the line just typed until a datagram of the
\* client is duplicated or a recvfrom fails: for any number of clients at the one
\* buffer of the server, and in whatever order the datagrams arrive.
THEOREM AnswersMatch == Spec => []ResponsesMatch
BY EchoInvKept, PTL DEF EchoInv

=============================================================================
