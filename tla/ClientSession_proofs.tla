-------------------------- MODULE ClientSession_proofs --------------------------
(***************************************************************************)
(* Proofs about ClientSession, for every number of connections, messages   *)
(* and faults, each of the programs, and with or without the network       *)
(* simulation.                                                             *)
(***************************************************************************)
EXTENDS ClientSession, TLAPS

-----------------------------------------------------------------------------
(* The streams.                                                            *)

Within(s) == {s[i] : i \in 1..Len(s)}
KindsOf(s) == {f.kind : f \in Within(s)}

LEMMA AppendedStream ==
    ASSUME NEW S, NEW s \in Seq(S), NEW f \in S
    PROVE  /\ Append(s, f) \in Seq(S) /\ Append(s, f) # <<>>
           /\ Within(Append(s, f)) = Within(s) \cup {f}
           /\ KindsOf(Append(s, f)) = KindsOf(s) \cup {f.kind}
<1>. DEFINE t == Append(s, f)
<1>1. /\ t \in Seq(S) /\ t # <<>> /\ Len(s) \in Nat /\ Len(t) = Len(s) + 1
      /\ \A i \in 1..Len(s) : i \in 1..Len(t) /\ t[i] = s[i]
      /\ Len(s) + 1 \in 1..Len(t) /\ t[Len(s) + 1] = f
      /\ \A i \in 1..Len(t) : i \in 1..Len(s) \/ i = Len(s) + 1
  OBVIOUS
<1>. HIDE DEF t
<1>2. Within(t) = Within(s) \cup {f}
  BY <1>1 DEF Within
<1>3. KindsOf(t) = KindsOf(s) \cup {f.kind}
  BY <1>2 DEF KindsOf
<1>. QED  BY <1>1, <1>2, <1>3 DEF t

LEMMA AdvancedStream ==
    ASSUME NEW S, NEW s \in Seq(S), s # <<>>
    PROVE  /\ Head(s) \in S /\ Head(s) \in Within(s) /\ Head(s).kind \in KindsOf(s)
           /\ Tail(s) \in Seq(S) /\ Within(Tail(s)) \subseteq Within(s)
           /\ Within(s) = {Head(s)} \cup Within(Tail(s))
           /\ KindsOf(Tail(s)) \subseteq KindsOf(s)
           /\ KindsOf(s) = {Head(s).kind} \cup KindsOf(Tail(s))
<1>. DEFINE t == Tail(s)
            h == Head(s)
<1>1. /\ t \in Seq(S) /\ Len(s) \in Nat /\ Len(s) > 0 /\ Len(t) = Len(s) - 1 /\ h = s[1]
      /\ \A i \in 1..Len(t) : i + 1 \in 1..Len(s) /\ t[i] = s[i + 1]
      /\ \A i \in 1..Len(s) : i = 1 \/ (i - 1 \in 1..Len(t) /\ t[i - 1] = s[i])
      /\ 1 \in 1..Len(s) /\ s[1] \in S
  OBVIOUS
<1>. HIDE DEF t, h
<1>2. Within(s) = {h} \cup Within(t)
  <2>1. Within(s) \subseteq {h} \cup Within(t)
    BY <1>1, SMTT(60) DEF Within
  <2>2. Within(t) \subseteq Within(s) /\ h \in Within(s)
    BY <1>1 DEF Within
  <2>. QED  BY <2>1, <2>2
<1>3. KindsOf(s) = {h.kind} \cup KindsOf(t)
  BY <1>2 DEF KindsOf
<1>. QED  BY <1>1, <1>2, <1>3 DEF t, h

LEMMA EmptyStream == Within(<<>>) = {} /\ KindsOf(<<>>) = {}
BY DEF Within, KindsOf

\* One stream of the two gains or loses a frame; the others are left alone.
LEMMA ServerStreamGrows ==
    ASSUME TypeOK, NEW e \in Conns, NEW f \in Frames, ToServer(e, f)
    PROVE  /\ toServer' \in [Conns -> Seq(Frames)]
           /\ \A d \in Conns : toServer'[d] = IF d = e /\ Carries(e) THEN Append(toServer[d], f)
                                                                    ELSE toServer[d]
           /\ \A d \in Conns : Within(toServer'[d]) =
                  Within(toServer[d]) \cup (IF d = e /\ Carries(e) THEN {f} ELSE {})
<1>1. toServer \in [Conns -> Seq(Frames)] /\ Append(toServer[e], f) \in Seq(Frames)
  BY AppendedStream DEF TypeOK
<1>2. \A d \in Conns : toServer'[d] = IF d = e /\ Carries(e) THEN Append(toServer[d], f)
                                                             ELSE toServer[d]
  BY <1>1 DEF ToServer
<1>3. toServer' \in [Conns -> Seq(Frames)]
  BY <1>1 DEF ToServer
<1>4. ASSUME NEW d \in Conns
      PROVE  Within(toServer'[d]) = Within(toServer[d]) \cup (IF d = e /\ Carries(e) THEN {f} ELSE {})
  <2>1. Within(Append(toServer[e], f)) = Within(toServer[e]) \cup {f}
    BY <1>1, AppendedStream
  <2>. QED  BY <1>2, <2>1
<1>. QED  BY <1>2, <1>3, <1>4

LEMMA ClientStreamGrows ==
    ASSUME TypeOK, NEW e \in Conns, NEW f \in Frames, ToClient(e, f)
    PROVE  /\ toClient' \in [Conns -> Seq(Frames)]
           /\ \A d \in Conns : toClient'[d] = IF d = e /\ Carries(e) THEN Append(toClient[d], f)
                                                                    ELSE toClient[d]
           /\ \A d \in Conns : KindsOf(toClient'[d]) =
                  KindsOf(toClient[d]) \cup (IF d = e /\ Carries(e) THEN {f.kind} ELSE {})
<1>1. toClient \in [Conns -> Seq(Frames)] /\ Append(toClient[e], f) \in Seq(Frames)
  BY AppendedStream DEF TypeOK
<1>2. \A d \in Conns : toClient'[d] = IF d = e /\ Carries(e) THEN Append(toClient[d], f)
                                                             ELSE toClient[d]
  BY <1>1 DEF ToClient
<1>3. toClient' \in [Conns -> Seq(Frames)]
  BY <1>1 DEF ToClient
<1>4. ASSUME NEW d \in Conns
      PROVE  KindsOf(toClient'[d]) = KindsOf(toClient[d]) \cup (IF d = e /\ Carries(e) THEN {f.kind} ELSE {})
  <2>1. KindsOf(Append(toClient[e], f)) = KindsOf(toClient[e]) \cup {f.kind}
    BY <1>1, AppendedStream
  <2>. QED  BY <1>2, <2>1
<1>. QED  BY <1>2, <1>3, <1>4

LEMMA StreamAdvances ==
    ASSUME NEW stream \in [Conns -> Seq(Frames)], NEW e \in Conns, stream[e] # <<>>,
           NEW new, new = Advanced(stream, e)
    PROVE  /\ new \in [Conns -> Seq(Frames)]
           /\ Head(stream[e]) \in Frames /\ Head(stream[e]) \in Within(stream[e])
           /\ new[e] = Tail(stream[e]) /\ \A d \in Conns : d # e => new[d] = stream[d]
           /\ \A d \in Conns : Within(new[d]) \subseteq Within(stream[d])
           /\ \A d \in Conns : KindsOf(new[d]) \subseteq KindsOf(stream[d])
<1>1. Tail(stream[e]) \in Seq(Frames)
  BY AdvancedStream
<1>2. new[e] = Tail(stream[e]) /\ \A d \in Conns : d # e => new[d] = stream[d]
  BY DEF Advanced
<1>3. new \in [Conns -> Seq(Frames)]
  BY <1>1 DEF Advanced
<1>. QED  BY <1>1, <1>2, <1>3, AdvancedStream

-----------------------------------------------------------------------------
(* The shape of the state.                                                 *)

InHandshake == at \in {"connected", "waitWelcome", "waitAuth"}
InSession == at \in {"connect", "prompt", "joining", "closed", "quitting", "exited"}
HandshakeOver == at \in {"nameInUse", "handshakeFailed", "unexpected"}

\* Where the main thread is, the receive thread and the descriptor are as well.
MainBooks ==
    /\ at # "connect" => epoch > 0
    /\ rx = "reading" => at \in {"prompt", "joining", "quitting"}
    /\ at \in {"prompt", "joining", "closed", "quitting", "exited"} => rx # "none"
    /\ at \in {"closed", "exited"} => rx = "done"
    /\ at = "connect" /\ epoch > 0 => rx = "done"
    /\ InHandshake \/ at \in {"prompt", "joining"} => sockOpen

MessagesNumbered ==
    \A e \in Conns : \A f \in Within(toServer[e]) : f.kind = "MSG" => f.id \in Msgs

Shape == TypeOK /\ MainBooks /\ MessagesNumbered

LEMMA ControlFrames ==
    /\ \A k \in {"HELLO", "AUTH", "BYE", "WELCOME", "INFO", "ERROR", "INUSE", "TALK"} :
           Control(k) \in Frames /\ Control(k).kind = k
    /\ \A m \in 0..MaxMsg : /\ Frame("MSG", m) \in Frames /\ Frame("ACK", m) \in Frames
                            /\ Frame("MSG", m).kind = "MSG" /\ Frame("ACK", m).kind = "ACK"
                            /\ Frame("MSG", m).id = m
    /\ Msgs \subseteq 0..MaxMsg
  BY ClientSessionAssumption DEF Control, Frame, Frames, Msgs

\* What the main thread does.
LEMMA MainKeepsShape ==
    ASSUME Shape,
           \/ MainWorks \/ TypeMessage \/ TypeNothing \/ TypeQuit \/ EndOfInput
    PROVE  Shape'
<1>. USE DEF retryVars, netVars, worldVars, observedVars
<1>0. /\ epoch \in 0..MaxConns /\ MaxConns \in Nat /\ TypeOK /\ MainBooks
      /\ (at # "connect" => epoch \in Conns)
      /\ toServer \in [Conns -> Seq(Frames)] /\ toClient \in [Conns -> Seq(Frames)]
  <2>1. TypeOK /\ MainBooks /\ MaxConns \in Nat
    BY ClientSessionAssumption DEF Shape
  <2>2. epoch \in 0..MaxConns /\ (at # "connect" => epoch > 0)
    BY <2>1 DEF TypeOK, MainBooks
  <2>3. at # "connect" => epoch \in Conns
    BY <2>1, <2>2 DEF Conns
  <2>. QED  BY <2>1, <2>2, <2>3 DEF TypeOK
<1>1. CASE Connect
  <2>1. epoch' = epoch + 1 /\ epoch' \in Conns
    BY <1>0, <1>1 DEF Connect, Conns
  <2>2. /\ clientEnd' = clientEnd \cup {epoch'} /\ serverEnd' = serverEnd \cup {epoch'}
        /\ srv' = [srv EXCEPT ![epoch'] = "accepted"] /\ sockOpen' = TRUE /\ at' = "connected"
        /\ UNCHANGED <<lab, running, rx, eof, born, pending, toResend, resent, toServer, toClient,
                       broken, faults, chatter, processed, overtaken, leftover, lost, byeDropped>>
    BY <1>1 DEF Connect
  <2>3. rx # "reading"
    BY <1>0, <1>1 DEF Connect, MainBooks
  <2>4. MainBooks' /\ MessagesNumbered'
    BY <1>0, <2>1, <2>2, <2>3 DEF MainBooks, MessagesNumbered, Shape, InHandshake, Conns
  <2>5. srv' \in [Conns -> HandlerPhases]
    BY <1>0, <2>1, <2>2 DEF TypeOK, HandlerPhases
  <2>6. epoch' \in 0..MaxConns
    BY <1>0, <2>1 DEF Conns
  <2>7. clientEnd' \in SUBSET Conns /\ serverEnd' \in SUBSET Conns
    BY <1>0, <2>1, <2>2 DEF TypeOK
  <2>. QED  BY <1>0, <2>2, <2>4, <2>5, <2>6, <2>7 DEF Shape, TypeOK, Places
<1>2. CASE SendHello
  <2>1. /\ at = "connected" /\ at' = "waitWelcome" /\ ToServer(epoch, Control("HELLO"))
        /\ UNCHANGED <<lab, running, epoch, sockOpen, rx, eof, born, pending, toResend, resent,
                       toClient, clientEnd, serverEnd, broken, srv, faults, chatter, processed,
                       overtaken, leftover, lost, byeDropped>>
    BY <1>2 DEF SendHello
  <2>2. toServer' \in [Conns -> Seq(Frames)] /\ MessagesNumbered'
    BY <1>0, <2>1, ServerStreamGrows, ControlFrames DEF MessagesNumbered, Shape
  <2>. QED  BY <1>0, <2>1, <2>2 DEF Shape, TypeOK, MainBooks, InHandshake, Places
<1>3. CASE ReadWelcome
  <2>1. /\ at = "waitWelcome"
        /\ UNCHANGED <<lab, running, epoch, rx, eof, born, pending, toResend, resent,
                       serverEnd, broken, srv, faults, chatter, processed,
                       overtaken, leftover, lost, byeDropped>>
    BY <1>3 DEF ReadWelcome
  <2>2. CASE Arrived(toClient, epoch, "WELCOME")
    <3>1. /\ at' = "waitAuth" /\ toClient' = Advanced(toClient, epoch) /\ toClient[epoch] # <<>>
          /\ ToServer(epoch, Control("AUTH")) /\ UNCHANGED <<sockOpen, clientEnd>>
      BY <1>3, <2>2 DEF ReadWelcome, Stay, Arrived
    <3>2. toServer' \in [Conns -> Seq(Frames)] /\ MessagesNumbered'
      BY <1>0, <2>1, <3>1, ServerStreamGrows, ControlFrames DEF MessagesNumbered, Shape
    <3>3. toClient' \in [Conns -> Seq(Frames)]
      BY <1>0, <2>1, <3>1, StreamAdvances
    <3>. QED  BY <1>0, <2>1, <3>1, <3>2, <3>3 DEF Shape, TypeOK, MainBooks, InHandshake, Places
  <2>3. CASE ~Arrived(toClient, epoch, "WELCOME")
    <3>1. /\ at' = "handshakeFailed" /\ sockOpen' = FALSE /\ clientEnd' = clientEnd \ {epoch}
          /\ UNCHANGED <<toClient, toServer>>
      BY <1>3, <2>3 DEF ReadWelcome, GiveUp
    <3>. QED  BY <1>0, <2>1, <3>1 DEF Shape, TypeOK, MainBooks, MessagesNumbered, InHandshake, Places
  <2>. QED  BY <2>2, <2>3
<1>4. CASE ReadAnswer
  <2>1. /\ at = "waitAuth" /\ toClient[epoch] # <<>> /\ toClient' = Advanced(toClient, epoch)
        /\ UNCHANGED <<lab, epoch, eof, born, pending, toResend, resent, toServer,
                       serverEnd, broken, srv, faults, chatter, processed,
                       overtaken, leftover, lost, byeDropped>>
    BY <1>4 DEF ReadAnswer
  <2>2. toClient' \in [Conns -> Seq(Frames)]
    BY <1>0, <2>1, StreamAdvances
  <2>3. \/ /\ at' = "prompt" /\ running' = TRUE /\ rx' = "reading"
           /\ UNCHANGED <<sockOpen, clientEnd>>
        \/ /\ at' \in {"nameInUse", "handshakeFailed", "unexpected"} /\ sockOpen' = FALSE
           /\ clientEnd' = clientEnd \ {epoch} /\ UNCHANGED <<running, rx>>
    BY <1>4 DEF ReadAnswer, GiveUp, Stay
  <2>. QED
    BY <1>0, <2>1, <2>2, <2>3, ZenonT(60) DEF Shape, TypeOK, MainBooks, MessagesNumbered, InHandshake, Places
<1>5. CASE ReadNoAnswer
  BY <1>0, <1>5 DEF ReadNoAnswer, GiveUp, Shape, TypeOK, MainBooks, MessagesNumbered, InHandshake,
     Places
<1>6. CASE TypeMessage
  <2>1. PICK m \in Msgs, ok \in BOOLEAN, isPing \in BOOLEAN :
            /\ born' = [born EXCEPT ![m] = epoch]
            /\ ToServer(epoch, Frame("MSG", m))
            /\ pending' = (IF ok /\ lab = 6 THEN pending \cup {m} ELSE pending)
            /\ running' = ((ok \/ isPing) /\ running)
            /\ at' = (IF (ok \/ isPing) /\ running THEN "prompt" ELSE "joining")
    BY <1>6 DEF TypeMessage, AfterLine
  <2>2. /\ at = "prompt"
        /\ UNCHANGED <<lab, epoch, sockOpen, rx, eof, toResend, resent, toClient, clientEnd,
                       serverEnd, broken, srv, faults, chatter, processed, overtaken, leftover,
                       lost, byeDropped>>
    BY <1>6 DEF TypeMessage
  <2>3. toServer' \in [Conns -> Seq(Frames)] /\ MessagesNumbered'
    BY <1>0, <2>1, <2>2, ServerStreamGrows, ControlFrames DEF MessagesNumbered, Shape
  <2>4. born' \in [Msgs -> 0..MaxConns] /\ pending' \in SUBSET Msgs /\ running' \in BOOLEAN
    BY <1>0, <2>1 DEF TypeOK
  <2>. QED  BY <1>0, <2>1, <2>2, <2>3, <2>4 DEF Shape, TypeOK, MainBooks, InHandshake, Places
<1>7. CASE TypeQuit
  <2>1. /\ at = "prompt" /\ at' = "quitting" /\ running' = FALSE /\ sockOpen' = FALSE
        /\ ToServer(epoch, Control("BYE")) /\ clientEnd' \subseteq clientEnd
        /\ UNCHANGED <<lab, epoch, rx, eof, born, pending, toResend, resent, toClient,
                       serverEnd, broken, srv, faults, chatter, processed, overtaken, leftover,
                       lost, byeDropped>>
    BY <1>7 DEF TypeQuit
  <2>2. toServer' \in [Conns -> Seq(Frames)] /\ MessagesNumbered'
    BY <1>0, <2>1, ServerStreamGrows, ControlFrames DEF MessagesNumbered, Shape
  <2>. QED  BY <1>0, <2>1, <2>2 DEF Shape, TypeOK, MainBooks, InHandshake, Places
<1>8. CASE TypeNothing \/ EndOfInput \/ QuitJoined \/ CloseSock \/ ClearPendingState
  <2>1. /\ UNCHANGED <<lab, epoch, rx, born, toResend, resent, toServer, toClient,
                       serverEnd, broken, srv, faults, chatter, processed, overtaken, byeDropped>>
        /\ running' \in {running, FALSE} /\ eof' \in {eof, TRUE} /\ pending' \in {pending, {}}
        /\ leftover' \in {leftover, leftover \cup toResend} /\ lost' \in {lost, "self"}
    BY <1>8 DEF TypeNothing, EndOfInput, QuitJoined, CloseSock, ClearPendingState
  <2>2. \/ at = "prompt" /\ at' \in {"prompt", "joining"} /\ UNCHANGED <<sockOpen, clientEnd>>
        \/ at = "quitting" /\ rx = "done" /\ at' = "exited" /\ UNCHANGED <<sockOpen, clientEnd>>
        \/ at = "closed" /\ at' = "connect" /\ UNCHANGED <<sockOpen, clientEnd>>
        \/ /\ at = "joining" /\ rx = "done" /\ at' = "closed" /\ sockOpen' = FALSE
           /\ clientEnd' \subseteq clientEnd
    BY <1>8 DEF TypeNothing, EndOfInput, QuitJoined, CloseSock, ClearPendingState, AfterLine
  <2>3. running' \in BOOLEAN /\ eof' \in BOOLEAN /\ pending' \in SUBSET Msgs
        /\ leftover' \in SUBSET Msgs /\ lost' \in {"", "server", "network", "self"}
    BY <1>0, <2>1 DEF TypeOK
  <2>4. MainBooks' /\ MessagesNumbered'
    BY <1>0, <2>1, <2>2 DEF Shape, MainBooks, MessagesNumbered, InHandshake
  <2>5. at' \in Places /\ sockOpen' \in BOOLEAN /\ clientEnd' \in SUBSET Conns
        /\ (sockOpen' => epoch' \in clientEnd')
    <3>1. at' \in Places
      BY <2>2 DEF Places
    <3>2. sockOpen \in BOOLEAN /\ clientEnd \in SUBSET Conns /\ (sockOpen => epoch \in clientEnd)
      BY <1>0 DEF TypeOK
    <3>3. UNCHANGED <<sockOpen, clientEnd>> \/ (sockOpen' = FALSE /\ clientEnd' \subseteq clientEnd)
      BY <2>2
    <3>4. sockOpen' \in BOOLEAN
      BY <3>2, <3>3
    <3>5. clientEnd' \in SUBSET Conns
      BY <3>2, <3>3
    <3>6. sockOpen' => epoch' \in clientEnd'
      BY <2>1, <3>2, <3>3
    <3>. QED  BY <3>1, <3>4, <3>5, <3>6
  <2>. QED  BY <1>0, <2>1, <2>3, <2>4, <2>5 DEF Shape, TypeOK
<1>. QED
  BY <1>1, <1>2, <1>3, <1>4, <1>5, <1>6, <1>7, <1>8 DEF MainWorks

\* What the receive and the retry thread do.
LEMMA ThreadsKeepShape ==
    ASSUME Shape, ReceiverWorks \/ Scan \/ Resend \/ SendKills
    PROVE  Shape'
<1>. USE DEF mainVars, netVars, worldVars, observedVars, retryVars
<1>0. /\ TypeOK /\ MainBooks /\ MessagesNumbered
      /\ (at # "connect" => epoch \in Conns)
      /\ toServer \in [Conns -> Seq(Frames)] /\ toClient \in [Conns -> Seq(Frames)]
  <2>1. TypeOK /\ MainBooks /\ MaxConns \in Nat /\ MessagesNumbered
    BY ClientSessionAssumption DEF Shape
  <2>2. epoch \in 0..MaxConns /\ (at # "connect" => epoch > 0)
    BY <2>1 DEF TypeOK, MainBooks
  <2>3. at # "connect" => epoch \in Conns
    BY <2>1, <2>2 DEF Conns
  <2>. QED  BY <2>1, <2>3 DEF TypeOK
<1>1. CASE ReceiverWorks
  <2>1. rx = "reading" /\ epoch \in Conns
    BY <1>0, <1>1 DEF ReceiverWorks, Receive, ReceiveFails, MainBooks
  <2>2. /\ UNCHANGED <<lab, at, epoch, sockOpen, eof, born, toResend, resent, toServer, serverEnd,
                       broken, srv, faults, chatter, processed, overtaken, leftover, byeDropped>>
        /\ running' \in {running, FALSE} /\ pending' \subseteq pending
        /\ lost' \in {lost, "server", "network"}
    BY <1>1 DEF ReceiverWorks, Receive, ReceiveFails
  <2>3. \/ rx' = rx /\ clientEnd' = clientEnd
        \/ rx' = "done" /\ clientEnd' = IF sockOpen THEN clientEnd ELSE clientEnd \ {epoch}
    BY <1>1 DEF ReceiverWorks, Receive, ReceiveFails, ReceiverEnds
  <2>4. toClient' \in [Conns -> Seq(Frames)]
    BY <1>0, <1>1, <2>1, StreamAdvances DEF ReceiverWorks, Receive, ReceiveFails
  <2>5. MainBooks'
    BY <1>0, <2>2, <2>3 DEF MainBooks, InHandshake
  <2>6. /\ clientEnd' \in SUBSET Conns /\ (sockOpen' => epoch' \in clientEnd')
        /\ rx' \in {"none", "reading", "done"}
    BY <1>0, <2>2, <2>3 DEF TypeOK
  <2>7. /\ running' \in BOOLEAN /\ pending' \in SUBSET Msgs
        /\ lost' \in {"", "server", "network", "self"}
    BY <1>0, <2>2 DEF TypeOK
  <2>. QED  BY <1>0, <2>2, <2>4, <2>5, <2>6, <2>7 DEF Shape, TypeOK, MessagesNumbered
<1>2. CASE Scan
  BY <1>0, <1>2, ZenonT(60) DEF Scan, Shape, TypeOK, MainBooks, MessagesNumbered, InHandshake
<1>3. CASE Resend
  <2>1. PICK m \in toResend :
            /\ toResend' = toResend \ {m}
            /\ IF sockOpen THEN ToServer(epoch, Frame("MSG", m)) ELSE UNCHANGED toServer
    BY <1>3 DEF Resend
  <2>2. UNCHANGED <<lab, at, running, epoch, sockOpen, eof, born, rx, pending, resent, toClient,
                    clientEnd, serverEnd, broken, srv, faults, chatter, processed, overtaken,
                    leftover, lost, byeDropped>>
    BY <1>3 DEF Resend
  <2>3. m \in Msgs /\ (sockOpen => epoch \in Conns)
    BY <1>0, <2>1 DEF TypeOK
  <2>4. toServer' \in [Conns -> Seq(Frames)] /\ MessagesNumbered'
    BY <1>0, <2>1, <2>3, ServerStreamGrows, ControlFrames DEF MessagesNumbered
  <2>5. MainBooks' /\ toResend' \in SUBSET Msgs
    BY <1>0, <2>1, <2>2 DEF TypeOK, MainBooks, InHandshake
  <2>. QED  BY <1>0, <2>2, <2>4, <2>5, ZenonT(60) DEF Shape, TypeOK
<1>4. CASE SendKills
  <2>1. /\ at' = "killed" /\ running' = FALSE /\ sockOpen' = FALSE /\ rx' = "done"
        /\ clientEnd' = clientEnd \ {epoch} /\ pending' = {} /\ toResend' = {} /\ sockOpen
        /\ UNCHANGED <<lab, epoch, eof, born, resent, toServer, toClient, serverEnd, broken, srv,
                       faults, chatter, processed, overtaken, leftover, lost, byeDropped>>
    BY <1>4 DEF SendKills, GiveUp
  <2>2. epoch > 0
    <3>1. epoch \in Conns
      BY <1>0, <2>1 DEF TypeOK
    <3>. QED  BY <3>1, ClientSessionAssumption DEF Conns
  <2>3. MainBooks'
    BY <2>1, <2>2 DEF MainBooks, InHandshake
  <2>4. clientEnd' \in SUBSET Conns /\ at' \in Places
    BY <1>0, <2>1 DEF TypeOK, Places
  <2>. QED  BY <1>0, <2>1, <2>3, <2>4 DEF Shape, TypeOK, MessagesNumbered
<1>. QED  BY <1>1, <1>2, <1>3, <1>4

\* What one handler does to the state, in common.
ServerFrame == UNCHANGED <<lab, at, running, epoch, sockOpen, rx, eof, born, pending, toResend,
                           resent, clientEnd, leftover, lost>>

LEMMA ServerLeaves ==
    ASSUME NEW e \in Conns, ServerWorks(e) \/ OthersTalk(e) \/ Break(e)
    PROVE  ServerFrame
BY DEF ServerFrame, ServerWorks, OthersTalk, Break, ServerGreets, ServerAuthenticates,
   ServerConfirms, ServerServes, ServerDrops, ServerHearsEnd, ServerRemoves, ServerCloses,
   mainVars, retryVars, netVars, worldVars, observedVars

\* A handler takes the first frame of its stream, or nothing; what it sends is a
\* control frame, or the ACK of the frame it has taken.
LEMMA ServerStreams ==
    ASSUME Shape, NEW e \in Conns, ServerWorks(e) \/ OthersTalk(e) \/ Break(e)
    PROVE  /\ \/ toServer' = toServer
              \/ toServer[e] # <<>> /\ toServer' = Advanced(toServer, e)
              \/ Break(e) /\ toServer' = [toServer EXCEPT ![e] = <<>>]
           /\ \/ toClient' = toClient
              \/ \E f \in Frames : ToClient(e, f)
              \/ Break(e) /\ toClient' = [toClient EXCEPT ![e] = <<>>]
<1>. USE DEF netVars
<1>1. CASE ServerGreets(e) \/ ServerAuthenticates(e)
  <2>1. toServer' = toServer \/ (toServer[e] # <<>> /\ toServer' = Advanced(toServer, e))
    BY <1>1 DEF ServerGreets, ServerAuthenticates, ServerTakes, ClientHungUp
  <2>2. toClient' = toClient \/ \E k \in {"WELCOME", "ERROR", "INUSE"} : ToClient(e, Control(k))
    BY <1>1 DEF ServerGreets, ServerAuthenticates, ServerRefuses
  <2>. QED  BY <2>1, <2>2, ControlFrames
<1>2. CASE ServerConfirms(e) \/ OthersTalk(e)
  <2>1. toServer' = toServer
    BY <1>2 DEF ServerConfirms, OthersTalk
  <2>2. \E k \in {"INFO", "TALK"} : ToClient(e, Control(k))
    BY <1>2 DEF ServerConfirms, OthersTalk
  <2>. QED  BY <2>1, <2>2, ControlFrames
<1>3. CASE ServerServes(e)
  <2>1. toServer[e] # <<>> /\ toServer' = Advanced(toServer, e) /\ Head(toServer[e]).kind = "MSG"
        /\ ToClient(e, Frame("ACK", Head(toServer[e]).id))
    BY <1>3 DEF ServerServes, ServerTakes, Arrived
  <2>2. Head(toServer[e]) \in Within(toServer[e])
    BY <2>1, StreamAdvances DEF Shape, TypeOK
  <2>3. Head(toServer[e]).id \in Msgs
    BY <2>1, <2>2 DEF Shape, MessagesNumbered
  <2>. QED  BY <2>1, <2>3, ControlFrames
<1>4. CASE ServerDrops(e)
  BY <1>4 DEF ServerDrops, ServerTakes
<1>5. CASE ServerHearsEnd(e) \/ ServerRemoves(e) \/ ServerCloses(e)
  BY <1>5 DEF ServerHearsEnd, ServerRemoves, ServerCloses
<1>6. CASE Break(e)
  BY <1>6 DEF Break
<1>. QED  BY <1>1, <1>2, <1>3, <1>4, <1>5, <1>6 DEF ServerWorks

LEMMA ServerKeepsShape ==
    ASSUME Shape, NEW e \in Conns, ServerWorks(e) \/ OthersTalk(e) \/ Break(e)
    PROVE  Shape'
<1>0. /\ TypeOK /\ MainBooks /\ MessagesNumbered
      /\ toServer \in [Conns -> Seq(Frames)] /\ toClient \in [Conns -> Seq(Frames)]
  BY DEF Shape, TypeOK
<1>1. MainBooks'
  BY <1>0, ServerLeaves DEF MainBooks, InHandshake, ServerFrame
<1>2. toServer' \in [Conns -> Seq(Frames)] /\ MessagesNumbered'
  <2>1. CASE toServer' = toServer
    BY <1>0, <2>1 DEF MessagesNumbered
  <2>2. CASE toServer[e] # <<>> /\ toServer' = Advanced(toServer, e)
    BY <1>0, <2>2, StreamAdvances DEF MessagesNumbered
  <2>3. CASE toServer' = [toServer EXCEPT ![e] = <<>>]
    <3>1. <<>> \in Seq(Frames) /\ Within(<<>>) = {}
      BY EmptyStream
    <3>. QED  BY <1>0, <2>3, <3>1 DEF MessagesNumbered
  <2>. QED  BY <2>1, <2>2, <2>3, ServerStreams
<1>3. toClient' \in [Conns -> Seq(Frames)]
  <2>1. <<>> \in Seq(Frames)
    OBVIOUS
  <2>2. (\E f \in Frames : ToClient(e, f)) => toClient' \in [Conns -> Seq(Frames)]
    BY <1>0, ClientStreamGrows
  <2>. QED  BY <1>0, <2>1, <2>2, ServerStreams
<1>. DEFINE SrvOK == srv' \in [Conns -> HandlerPhases]
<1>4. SrvOK /\ serverEnd' \in SUBSET Conns
  <2>1. /\ \/ srv' = srv
           \/ \E p \in HandlerPhases : Handler(e, p)
        /\ serverEnd' \subseteq serverEnd
    BY DEF ServerWorks, OthersTalk, Break, ServerGreets, ServerAuthenticates, ServerConfirms,
       ServerServes, ServerDrops, ServerHearsEnd, ServerRemoves, ServerCloses, ServerRefuses,
       HandlerPhases, netVars, worldVars
  <2>. QED  BY <1>0, <2>1 DEF TypeOK, Handler
<1>5. /\ faults' \in 0..MaxFaults /\ chatter' \in BOOLEAN /\ broken' \in SUBSET Conns
      /\ overtaken' \in SUBSET Conns /\ byeDropped' \in BOOLEAN
  <2>1. /\ faults' = faults \/ (faults < MaxFaults /\ faults' = faults + 1)
        /\ chatter' \in {chatter, FALSE} /\ broken' \subseteq broken \cup {e}
        /\ overtaken' \subseteq overtaken \cup {e} /\ byeDropped' \in {byeDropped, TRUE}
    BY <1>0 DEF ServerWorks, OthersTalk, Break, ServerGreets, ServerAuthenticates, ServerConfirms,
       ServerServes, ServerDrops, ServerHearsEnd, ServerRemoves, ServerCloses,
       netVars, worldVars, observedVars, TypeOK
  <2>2. /\ faults \in 0..MaxFaults /\ chatter \in BOOLEAN /\ broken \in SUBSET Conns
        /\ overtaken \in SUBSET Conns /\ byeDropped \in BOOLEAN /\ MaxFaults \in Nat
    BY <1>0, ClientSessionAssumption DEF TypeOK
  <2>3. faults' \in 0..MaxFaults
    BY <2>1, <2>2
  <2>4. broken' \in SUBSET Conns /\ overtaken' \in SUBSET Conns
    BY <2>1, <2>2
  <2>5. chatter' \in BOOLEAN
    BY <2>1, <2>2
  <2>6. byeDropped' \in BOOLEAN
    BY <2>1, <2>2
  <2>. QED  BY <2>3, <2>4, <2>5, <2>6
<1>6. processed' \in SUBSET [msg : Msgs, conn : Conns]
  <2>1. CASE ServerServes(e)
    <3>1. toServer[e] # <<>> /\ Head(toServer[e]).kind = "MSG"
          /\ processed' = processed \cup {[msg |-> Head(toServer[e]).id, conn |-> e]}
      BY <2>1 DEF ServerServes, Arrived
    <3>2. Head(toServer[e]) \in Within(toServer[e])
      BY <1>0, <3>1, StreamAdvances
    <3>3. Head(toServer[e]).id \in Msgs
      BY <1>0, <3>1, <3>2 DEF MessagesNumbered
    <3>4. [msg |-> Head(toServer[e]).id, conn |-> e] \in [msg : Msgs, conn : Conns]
      BY <3>3
    <3>5. processed \in SUBSET [msg : Msgs, conn : Conns]
      BY <1>0 DEF TypeOK
    <3>. QED  BY <3>1, <3>4, <3>5
  <2>2. CASE ~ServerServes(e)
    <3>1. processed' = processed
      BY <2>2 DEF ServerWorks, OthersTalk, Break, ServerGreets, ServerAuthenticates, ServerConfirms,
         ServerDrops, ServerHearsEnd, ServerRemoves, ServerCloses, observedVars
    <3>. QED  BY <1>0, <3>1 DEF TypeOK
  <2>. QED  BY <2>1, <2>2
<1>7. ServerFrame
  BY ServerLeaves
<1>. QED
  BY <1>0, <1>1, <1>2, <1>3, <1>4, <1>5, <1>6, <1>7 DEF Shape, TypeOK, ServerFrame

LEMMA RestartKeepsShape ==
    ASSUME Shape, ServerRestarts
    PROVE  Shape'
<1>0. TypeOK /\ MainBooks /\ MessagesNumbered
  BY DEF Shape
<1>1. /\ UNCHANGED <<lab, at, running, epoch, sockOpen, rx, eof, born, pending, toResend, resent,
                     toServer, toClient, clientEnd, broken, chatter, processed, overtaken,
                     leftover, lost, byeDropped>>
      /\ serverEnd' = {} /\ faults < MaxFaults /\ faults' = faults + 1
      /\ srv' = [e \in Conns |-> IF srv[e] = "none" THEN "none" ELSE "closed"]
  BY DEF ServerRestarts, mainVars, retryVars, observedVars
<1>2. srv' \in [Conns -> HandlerPhases] /\ faults' \in 0..MaxFaults
  <2>1. faults' \in 0..MaxFaults
    <3>1. faults \in 0..MaxFaults /\ MaxFaults \in Nat
      BY <1>0, ClientSessionAssumption DEF TypeOK
    <3>. QED  BY <1>1, <3>1
  <2>2. srv' \in [Conns -> HandlerPhases]
    BY <1>1 DEF HandlerPhases
  <2>. QED  BY <2>1, <2>2
<1>3. MainBooks' /\ MessagesNumbered'
  BY <1>0, <1>1 DEF MainBooks, InHandshake, MessagesNumbered
<1>. QED  BY <1>0, <1>1, <1>2, <1>3, ZenonT(60) DEF Shape, TypeOK

LEMMA ShapeKept == Spec => []Shape
<1>1. Init => Shape
  <2>. SUFFICES ASSUME Init PROVE Shape
    OBVIOUS
  <2>1. TypeOK
    <3>1. <<>> \in Seq(Frames)
      OBVIOUS
    <3>2. 0 \in 0..MaxConns /\ 0 \in 0..MaxFaults
      BY ClientSessionAssumption
    <3>3. /\ born \in [Msgs -> 0..MaxConns] /\ faults \in 0..MaxFaults /\ epoch \in 0..MaxConns
          /\ toServer \in [Conns -> Seq(Frames)] /\ toClient \in [Conns -> Seq(Frames)]
      BY <3>1, <3>2 DEF Init
    <3>4. srv \in [Conns -> HandlerPhases] /\ at \in Places
      BY DEF Init, HandlerPhases, Places
    <3>. QED  BY <3>3, <3>4 DEF Init, TypeOK
  <2>2. MainBooks
    <3>1. at = "connect" /\ epoch = 0 /\ rx = "none"
      BY DEF Init
    <3>2. ~(epoch > 0)
      BY <3>1
    <3>. QED  BY <3>1, <3>2 DEF MainBooks, InHandshake
  <2>3. MessagesNumbered
    BY EmptyStream DEF Init, MessagesNumbered
  <2>. QED  BY <2>1, <2>2, <2>3 DEF Shape
<1>2. Shape /\ [Next]_vars => Shape'
  <2>. SUFFICES ASSUME Shape, [Next]_vars PROVE Shape'
    OBVIOUS
  <2>1. CASE UNCHANGED vars
    BY <2>1, ZenonT(60) DEF vars, Shape, TypeOK, MainBooks, InHandshake, MessagesNumbered
  <2>. QED
    BY <2>1, MainKeepsShape, ThreadsKeepShape, ServerKeepsShape, RestartKeepsShape DEF Next
<1>. QED  BY <1>1, <1>2, PTL DEF Spec

\* The state of the client, of its connections and of the handlers is well typed
\* in every execution: no thread reads or writes a connection that was never made.
THEOREM TypeCorrect == Spec => []TypeOK
BY ShapeKept, PTL DEF Shape

-----------------------------------------------------------------------------
(* Where a message is processed.                                           *)

\* A message is pending in its own session only, the retry thread has none in hand
\* but of this session or left over from another, and the next connection starts
\* with nothing pending.  So is it with what is under way to the server.
UnderWayBooks ==
    \A e \in Conns : \A f \in Within(toServer[e]) :
        f.kind = "MSG" => born[f.id] = e \/ f.id \in leftover

MessageBooks ==
    /\ \A m \in pending : born[m] = epoch
    /\ \A m \in toResend : born[m] = epoch \/ m \in leftover
    /\ at = "connect" => pending = {} /\ toResend \subseteq leftover
    /\ \A m \in Msgs : born[m] <= epoch
    /\ InHandshake => pending = {} /\ \A m \in Msgs : born[m] # epoch
    /\ UnderWayBooks
    /\ ResentInOwnSession

LEMMA MessageBooksStep ==
    ASSUME Shape, MessageBooks, [Next]_vars
    PROVE  MessageBooks'
<1>. USE DEF mainVars, retryVars, netVars, worldVars, observedVars
<1>0. /\ TypeOK /\ MainBooks /\ MessagesNumbered
      /\ (at # "connect" => epoch \in Conns) /\ epoch \in Nat
      /\ toServer \in [Conns -> Seq(Frames)]
      /\ pending \subseteq Msgs /\ toResend \subseteq Msgs /\ \A m \in Msgs : born[m] \in Nat
      /\ \A e \in Conns : e \in Nat /\ e # 0
      /\ \A p \in processed : p.conn \in Conns /\ p.msg \in Msgs
      /\ born \in [Msgs -> 0..MaxConns]
  <2>1. TypeOK /\ MainBooks /\ MaxConns \in Nat /\ MessagesNumbered
    BY ClientSessionAssumption DEF Shape
  <2>2. epoch \in 0..MaxConns /\ (at # "connect" => epoch > 0)
    BY <2>1 DEF TypeOK, MainBooks
  <2>3. (at # "connect" => epoch \in Conns) /\ epoch \in Nat /\ \A e \in Conns : e \in Nat /\ e # 0
    BY <2>1, <2>2 DEF Conns
  <2>4. born \in [Msgs -> 0..MaxConns]
    BY <2>1 DEF TypeOK
  <2>5. \A m \in Msgs : born[m] \in Nat
    BY <2>1, <2>4
  <2>6. \A p \in processed : p.conn \in Conns /\ p.msg \in Msgs
    BY <2>1 DEF TypeOK
  <2>. QED  BY <2>1, <2>3, <2>4, <2>5, <2>6 DEF TypeOK
<1>1. CASE Connect
  <2>1. /\ at = "connect" /\ at' = "connected" /\ epoch' = epoch + 1
        /\ UNCHANGED <<born, pending, toResend, leftover, toServer, processed>>
    BY <1>1 DEF Connect
  <2>2. pending = {} /\ toResend \subseteq leftover /\ \A m \in Msgs : born[m] <= epoch
    BY <2>1 DEF MessageBooks
  <2>3. \A m \in Msgs : born[m] <= epoch + 1 /\ born[m] # epoch + 1
    BY <1>0, <2>2
  <2>4. UnderWayBooks' /\ ResentInOwnSession'
    BY <2>1 DEF MessageBooks, UnderWayBooks, ResentInOwnSession
  <2>. QED  BY <2>1, <2>2, <2>3, <2>4 DEF MessageBooks
<1>2. ASSUME NEW f \in Frames, f.kind # "MSG", epoch \in Conns, ToServer(epoch, f),
             UNCHANGED <<epoch, born, pending, toResend, leftover, processed>>,
             at' # "connect", InHandshake' => InHandshake
      PROVE  MessageBooks'
  <2>1. UnderWayBooks'
    BY <1>0, <1>2, ServerStreamGrows DEF MessageBooks, UnderWayBooks
  <2>. QED  BY <1>2, <2>1 DEF MessageBooks, ResentInOwnSession
<1>3. CASE SendHello \/ TypeQuit
  <2>1. \E k \in {"HELLO", "BYE"} : ToServer(epoch, Control(k))
    BY <1>3 DEF SendHello, TypeQuit
  <2>2. /\ at # "connect" /\ at' # "connect" /\ (InHandshake' => InHandshake)
        /\ UNCHANGED <<epoch, born, pending, toResend, leftover, processed>>
    BY <1>3 DEF SendHello, TypeQuit, InHandshake
  <2>. QED  BY <1>0, <1>2, <2>1, <2>2, ControlFrames
<1>4. ASSUME UNCHANGED <<epoch, born, toResend, toServer, processed>>,
             leftover \subseteq leftover', pending' \subseteq pending,
             at' = "connect" => pending' = {} /\ toResend \subseteq leftover',
             InHandshake' => InHandshake
      PROVE  MessageBooks'
  <2>1. UnderWayBooks' /\ ResentInOwnSession'
    BY <1>4 DEF MessageBooks, UnderWayBooks, ResentInOwnSession
  <2>. QED  BY <1>0, <1>4, <2>1 DEF MessageBooks
<1>5. CASE ReadWelcome
  <2>1. /\ at = "waitWelcome" /\ at' # "connect"
        /\ UNCHANGED <<epoch, born, pending, toResend, leftover, processed>>
    BY <1>5 DEF ReadWelcome, GiveUp
  <2>2. ToServer(epoch, Control("AUTH")) \/ UNCHANGED toServer
    BY <1>5 DEF ReadWelcome
  <2>. QED  BY <1>0, <1>2, <1>4, <2>1, <2>2, ControlFrames DEF InHandshake
<1>6. CASE ReadAnswer \/ ReadNoAnswer
  <2>1. /\ at = "waitAuth" /\ at' # "connect"
        /\ UNCHANGED <<epoch, born, pending, toResend, leftover, toServer, processed>>
    BY <1>6 DEF ReadAnswer, ReadNoAnswer, GiveUp
  <2>. QED  BY <1>4, <2>1 DEF InHandshake
<1>7. CASE TypeMessage
  <2>1. PICK m \in Msgs, ok \in BOOLEAN, isPing \in BOOLEAN :
            /\ born[m] = 0
            /\ born' = [born EXCEPT ![m] = epoch]
            /\ ToServer(epoch, Frame("MSG", m))
            /\ pending' \subseteq pending \cup {m}
            /\ at' = (IF (ok \/ isPing) /\ running THEN "prompt" ELSE "joining")
    BY <1>7 DEF TypeMessage, AfterLine
  <2>2. at = "prompt" /\ UNCHANGED <<epoch, toResend, leftover, processed>>
    BY <1>7 DEF TypeMessage
  <2>3. /\ born'[m] = epoch /\ \A k \in Msgs : k # m => born'[k] = born[k]
        /\ epoch \in Conns /\ at' \in {"prompt", "joining"}
    BY <1>0, <2>1, <2>2
  <2>4. UnderWayBooks'
    <3>1. ASSUME NEW e \in Conns, NEW f \in Within(toServer'[e]), f.kind = "MSG"
          PROVE  born'[f.id] = e \/ f.id \in leftover
      <4>1. f \in Within(toServer[e]) \/ (f = Frame("MSG", m) /\ e = epoch)
        BY <1>0, <2>1, <2>3, <3>1, ServerStreamGrows, ControlFrames
      <4>2. CASE f \in Within(toServer[e])
        <5>1. f.id \in Msgs /\ (born[f.id] = e \/ f.id \in leftover)
          BY <1>0, <3>1, <4>2 DEF MessageBooks, UnderWayBooks, MessagesNumbered
        <5>2. f.id = m => f.id \in leftover
          BY <1>0, <2>1, <5>1
        <5>. QED  BY <2>3, <5>1, <5>2
      <4>3. CASE f = Frame("MSG", m) /\ e = epoch
        BY <2>3, <4>3 DEF Frame
      <4>. QED  BY <4>1, <4>2, <4>3
    <3>. QED  BY <2>2, <3>1 DEF UnderWayBooks
  <2>5. ResentInOwnSession'
    <3>1. ASSUME NEW p \in processed
          PROVE  p.conn = born'[p.msg] \/ p.msg \in leftover
      <4>1. p.conn = born[p.msg] \/ p.msg \in leftover
        BY DEF MessageBooks, ResentInOwnSession
      <4>2. p.msg = m => p.msg \in leftover
        BY <1>0, <2>1, <4>1
      <4>. QED  BY <1>0, <2>3, <4>1, <4>2
    <3>. QED  BY <2>2, <3>1 DEF ResentInOwnSession
  <2>6. /\ \A k \in pending' : born'[k] = epoch
        /\ \A k \in toResend : born'[k] = epoch \/ k \in leftover
        /\ \A k \in Msgs : born'[k] <= epoch
    BY <1>0, <2>1, <2>3 DEF MessageBooks
  <2>. QED  BY <2>2, <2>3, <2>4, <2>5, <2>6 DEF MessageBooks, InHandshake
<1>8. CASE TypeNothing \/ EndOfInput \/ QuitJoined \/ CloseSock \/ ClearPendingState
  <2>1. /\ UNCHANGED <<epoch, born, toResend, toServer, processed>>
        /\ leftover \subseteq leftover' /\ pending' \subseteq pending
        /\ at' = "connect" => pending' = {} /\ toResend \subseteq leftover'
        /\ at' \notin {"connected", "waitWelcome", "waitAuth"}
    BY <1>8 DEF TypeNothing, EndOfInput, QuitJoined, CloseSock, ClearPendingState, AfterLine
  <2>. QED  BY <1>4, <2>1 DEF InHandshake
<1>9. CASE ReceiverWorks
  <2>1. /\ UNCHANGED <<epoch, born, toResend, toServer, processed, leftover, at>>
        /\ pending' \subseteq pending
    BY <1>9 DEF ReceiverWorks, Receive, ReceiveFails
  <2>. QED  BY <1>4, <2>1 DEF InHandshake, MessageBooks
<1>10. CASE Scan
  <2>1. /\ UNCHANGED <<epoch, born, toServer, processed, leftover, at, pending>>
        /\ toResend' \subseteq pending
    BY <1>10 DEF Scan
  <2>. QED  BY <2>1 DEF MessageBooks, UnderWayBooks, ResentInOwnSession, InHandshake
<1>11. CASE Resend
  <2>1. PICK m \in toResend :
            /\ toResend' = toResend \ {m}
            /\ IF sockOpen THEN ToServer(epoch, Frame("MSG", m)) ELSE UNCHANGED toServer
    BY <1>11 DEF Resend
  <2>2. UNCHANGED <<epoch, born, processed, leftover, at, pending>>
    BY <1>11 DEF Resend
  <2>3. m \in Msgs /\ (born[m] = epoch \/ m \in leftover)
    BY <1>0, <2>1 DEF MessageBooks
  <2>4. sockOpen => epoch \in Conns
    BY <1>0 DEF TypeOK
  <2>5. UnderWayBooks'
    <3>1. CASE sockOpen
      <4>1. \A d \in Conns : \A f \in Within(toServer'[d]) :
                f \in Within(toServer[d]) \/ (d = epoch /\ f = Frame("MSG", m))
        BY <1>0, <2>1, <2>3, <2>4, <3>1, ServerStreamGrows, ControlFrames
      <4>2. Frame("MSG", m).id = m
        BY DEF Frame
      <4>. QED  BY <2>2, <2>3, <4>1, <4>2 DEF MessageBooks, UnderWayBooks
    <3>2. CASE ~sockOpen
      BY <2>1, <2>2, <3>2 DEF MessageBooks, UnderWayBooks
    <3>. QED  BY <3>1, <3>2
  <2>. QED  BY <2>1, <2>2, <2>5 DEF MessageBooks, ResentInOwnSession, InHandshake
<1>12. ASSUME NEW e \in Conns, ServerWorks(e) \/ OthersTalk(e) \/ Break(e)
       PROVE  MessageBooks'
  <2>1. ServerFrame
    BY <1>12, ServerLeaves
  <2>2. \A d \in Conns : Within(toServer'[d]) \subseteq Within(toServer[d])
    <3>1. CASE toServer' = toServer
      BY <3>1
    <3>2. CASE toServer[e] # <<>> /\ toServer' = Advanced(toServer, e)
      BY <1>0, <3>2, StreamAdvances
    <3>3. CASE toServer' = [toServer EXCEPT ![e] = <<>>]
      BY <1>0, <3>3, EmptyStream
    <3>. QED  BY <1>12, <3>1, <3>2, <3>3, ServerStreams
  <2>3. ResentInOwnSession'
    <3>1. CASE ServerServes(e)
      <4>1. toServer[e] # <<>> /\ Head(toServer[e]).kind = "MSG"
            /\ processed' = processed \cup {[msg |-> Head(toServer[e]).id, conn |-> e]}
        BY <3>1 DEF ServerServes, Arrived
      <4>2. Head(toServer[e]) \in Within(toServer[e])
        BY <1>0, <4>1, StreamAdvances
      <4>3. born[Head(toServer[e]).id] = e \/ Head(toServer[e]).id \in leftover
        BY <4>1, <4>2 DEF MessageBooks, UnderWayBooks
      <4>. QED  BY <2>1, <4>1, <4>3 DEF ServerFrame, MessageBooks, ResentInOwnSession
    <3>2. CASE ~ServerServes(e)
      <4>1. processed' = processed
        BY <1>12, <3>2 DEF ServerWorks, OthersTalk, Break, ServerGreets, ServerAuthenticates,
           ServerConfirms, ServerDrops, ServerHearsEnd, ServerRemoves, ServerCloses
      <4>. QED  BY <2>1, <4>1 DEF ServerFrame, MessageBooks, ResentInOwnSession
    <3>. QED  BY <3>1, <3>2
  <2>4. UnderWayBooks'
    BY <2>1, <2>2 DEF ServerFrame, MessageBooks, UnderWayBooks
  <2>. QED  BY <2>1, <2>3, <2>4 DEF ServerFrame, MessageBooks, InHandshake
<1>13. CASE ServerRestarts \/ UNCHANGED vars
  <2>1. UNCHANGED <<epoch, born, pending, toResend, toServer, processed, leftover, at>>
    BY <1>13 DEF ServerRestarts, vars
  <2>. QED  BY <1>4, <2>1 DEF InHandshake, MessageBooks
<1>14. CASE SendKills
  <2>1. /\ UNCHANGED <<epoch, born, toServer, processed, leftover>>
        /\ pending' = {} /\ toResend' = {} /\ at' = "killed"
    BY <1>14 DEF SendKills, GiveUp
  <2>. QED  BY <2>1 DEF MessageBooks, UnderWayBooks, ResentInOwnSession, InHandshake
<1>. QED
  BY <1>1, <1>3, <1>5, <1>6, <1>7, <1>8, <1>9, <1>10, <1>11, <1>12, <1>13, <1>14 DEF Next, MainWorks

LEMMA MessageBooksKept == Spec => []MessageBooks
<1>1. Init => MessageBooks
  <2>. SUFFICES ASSUME Init PROVE MessageBooks
    OBVIOUS
  <2>1. UnderWayBooks
    BY EmptyStream DEF Init, UnderWayBooks
  <2>2. epoch = 0 /\ at = "connect" /\ \A m \in Msgs : born[m] = 0
    BY DEF Init
  <2>3. \A m \in Msgs : born[m] <= epoch
    BY <2>2
  <2>4. pending \subseteq {} /\ toResend \subseteq {} /\ processed \subseteq {}
    BY DEF Init
  <2>5. ResentInOwnSession
    BY <2>4 DEF ResentInOwnSession
  <2>. QED  BY <2>1, <2>2, <2>3, <2>4, <2>5 DEF MessageBooks, InHandshake
<1>. QED  BY <1>1, MessageBooksStep, ShapeKept, PTL DEF Spec

\* A message is processed in another session than its own only if the retry thread
\* had it in hand when its session ended, for any number of sessions.
THEOREM ResentOnlyFromTheHand == Spec => []ResentInOwnSession
BY MessageBooksKept, PTL DEF MessageBooks

-----------------------------------------------------------------------------
(* The handshake.                                                          *)

InUse == {"listed", "serving", "leaving"}
LoggedIn == InUse \cup {"removed", "closed"}
OnlyFirst(s) == \A i \in 1..Len(s) : s[i].kind = "WELCOME" => i = 1
Refusals == {"ERROR", "INUSE"}
Confirmed == {"INFO", "TALK", "ACK"}

LEMMA OnlyFirstStays ==
    ASSUME NEW S, NEW s \in Seq(S), OnlyFirst(s)
    PROVE  /\ \A f \in S : s = <<>> \/ f.kind # "WELCOME" => OnlyFirst(Append(s, f))
           /\ s # <<>> => "WELCOME" \notin KindsOf(Tail(s))
<1>1. ASSUME NEW f \in S, s = <<>> \/ f.kind # "WELCOME"
      PROVE  OnlyFirst(Append(s, f))
  <2>. DEFINE t == Append(s, f)
  <2>1. /\ Len(s) \in Nat /\ (s = <<>> => Len(s) = 0)
        /\ \A i \in 1..Len(t) : (i \in 1..Len(s) /\ t[i] = s[i]) \/ (i = Len(s) + 1 /\ t[i] = f)
    OBVIOUS
  <2>. HIDE DEF t
  <2>2. OnlyFirst(t)
    BY <1>1, <2>1 DEF OnlyFirst
  <2>. QED  BY <2>2 DEF t
<1>2. ASSUME s # <<>>
      PROVE  "WELCOME" \notin KindsOf(Tail(s))
  <2>. DEFINE t == Tail(s)
  <2>1. \A i \in 1..Len(t) : i + 1 \in 1..Len(s) /\ t[i] = s[i + 1] /\ i + 1 # 1
    BY <1>2
  <2>. HIDE DEF t
  <2>2. \A i \in 1..Len(t) : t[i].kind # "WELCOME"
    BY <2>1 DEF OnlyFirst
  <2>3. "WELCOME" \notin KindsOf(t)
    BY <2>2 DEF KindsOf, Within
  <2>. QED  BY <2>3 DEF t
<1>. QED  BY <1>1, <1>2

\* Where each handler is, seen from what it has sent.
HandlerBooks ==
    /\ \A e \in Conns : srv[e] \in {"none", "accepted"} => toClient[e] = <<>>
    /\ \A e \in Conns : KindsOf(toClient[e]) \subseteq {"WELCOME"} \cup Refusals \cup Confirmed
    /\ \A e \in Conns : KindsOf(toClient[e]) \cap Refusals # {} =>
           srv[e] = "closed" /\ \A p \in processed : p.conn # e
    /\ \A p \in processed : srv[p.conn] \in LoggedIn \ {"listed"}
    /\ \A e \in Conns : e \in serverEnd <=> srv[e] \notin {"none", "closed"}
    /\ \A e \in Conns : e \in broken => toServer[e] = <<>> /\ toClient[e] = <<>>
    /\ \A e \in Conns : e > epoch => srv[e] = "none" /\ toServer[e] = <<>>

\* What a handler does, in the order of its phases.
LEMMA HandlerMoves ==
    ASSUME Shape, NEW e \in Conns, ServerWorks(e) \/ OthersTalk(e) \/ Break(e)
    PROVE  /\ srv' \in [Conns -> HandlerPhases] /\ \A d \in Conns : d # e => srv'[d] = srv[d]
           /\ \/ /\ srv[e] = "accepted" /\ srv'[e] = "welcomed" /\ Arrived(toServer, e, "HELLO")
                 /\ toServer' = Advanced(toServer, e)
                 /\ ToClient(e, Control("WELCOME")) /\ UNCHANGED <<serverEnd, broken, processed>>
              \/ /\ srv[e] = "accepted" /\ srv'[e] = "closed" /\ ~Arrived(toServer, e, "HELLO")
                 /\ toServer[e] # <<>> \/ ClientHungUp(e)
                 /\ ToClient(e, Control("ERROR")) /\ serverEnd' = serverEnd \ {e}
                 /\ UNCHANGED <<broken, processed>>
              \/ /\ srv[e] = "welcomed" /\ srv'[e] = "listed" /\ Arrived(toServer, e, "AUTH")
                 /\ ~NicknameUsed /\ UNCHANGED <<toClient, serverEnd, broken, processed>>
              \/ /\ srv[e] = "welcomed" /\ srv'[e] = "closed" /\ Arrived(toServer, e, "AUTH")
                 /\ NicknameUsed
                 /\ ToClient(e, Control("INUSE")) /\ serverEnd' = serverEnd \ {e}
                 /\ UNCHANGED <<broken, processed>>
              \/ /\ srv[e] = "welcomed" /\ srv'[e] = "closed" /\ ~Arrived(toServer, e, "AUTH")
                 /\ toServer[e] # <<>> \/ ClientHungUp(e)
                 /\ ToClient(e, Control("ERROR")) /\ serverEnd' = serverEnd \ {e}
                 /\ UNCHANGED <<broken, processed>>
              \/ /\ srv[e] = "listed" /\ srv'[e] = "serving"
                 /\ ToClient(e, Control("INFO")) /\ UNCHANGED <<serverEnd, broken, processed>>
              \/ /\ srv[e] \in {"listed", "serving"} /\ srv'[e] = srv[e]
                 /\ ToClient(e, Control("TALK"))
                 /\ (srv[e] = "listed" => e \in overtaken')
                 /\ UNCHANGED <<serverEnd, broken, processed>>
              \/ /\ srv[e] = "serving" /\ srv'[e] = "serving"
                 /\ \E m \in Msgs : /\ ToClient(e, Frame("ACK", m))
                                    /\ processed' = processed \cup {[msg |-> m, conn |-> e]}
                 /\ UNCHANGED <<serverEnd, broken>>
              \/ /\ \/ srv[e] = "serving" /\ srv'[e] \in {"serving", "leaving"}
                    \/ srv[e] = "leaving" /\ srv'[e] = "removed"
                 /\ UNCHANGED <<toClient, serverEnd, broken, processed>>
              \/ /\ srv[e] = "removed" /\ srv'[e] = "closed" /\ serverEnd' = serverEnd \ {e}
                 /\ UNCHANGED <<toClient, broken, processed>>
              \/ /\ Break(e) /\ UNCHANGED <<srv, serverEnd, processed>> /\ faults' = faults + 1
                 /\ broken' = broken \cup {e} /\ toServer' = [toServer EXCEPT ![e] = <<>>]
                 /\ toClient' = [toClient EXCEPT ![e] = <<>>]
<1>. USE DEF netVars, worldVars, observedVars
<1>0. srv \in [Conns -> HandlerPhases] /\ srv' \in [Conns -> HandlerPhases]
  BY ServerKeepsShape DEF Shape, TypeOK
<1>1. \A p \in HandlerPhases : Handler(e, p) => /\ srv'[e] = p
                                                /\ \A d \in Conns : d # e => srv'[d] = srv[d]
  BY <1>0 DEF Handler
<1>2. {"welcomed", "listed", "serving", "leaving", "removed", "closed"} \subseteq HandlerPhases
  BY DEF HandlerPhases
<1>3. CASE ServerGreets(e)
  <2>1. Arrived(toServer, e, "HELLO") => toServer' = Advanced(toServer, e)
    BY <1>3 DEF ServerGreets, ServerTakes, Arrived, ClientHungUp
  <2>. QED  BY <1>0, <1>1, <1>2, <1>3, <2>1 DEF ServerGreets, ServerRefuses
<1>4. CASE ServerAuthenticates(e)
  BY <1>0, <1>1, <1>2, <1>4 DEF ServerAuthenticates, ServerRefuses
<1>5. CASE ServerConfirms(e)
  BY <1>0, <1>1, <1>2, <1>5 DEF ServerConfirms
<1>6. CASE OthersTalk(e)
  BY <1>0, <1>6 DEF OthersTalk
<1>7. CASE ServerServes(e)
  <2>1. /\ toServer[e] # <<>> /\ Head(toServer[e]).kind = "MSG" /\ srv[e] = "serving"
        /\ processed' = processed \cup {[msg |-> Head(toServer[e]).id, conn |-> e]}
        /\ ToClient(e, Frame("ACK", Head(toServer[e]).id)) /\ UNCHANGED <<serverEnd, broken, srv>>
    BY <1>7 DEF ServerServes, Arrived
  <2>2. Head(toServer[e]) \in Within(toServer[e])
    BY <2>1, StreamAdvances DEF Shape, TypeOK
  <2>3. Head(toServer[e]).id \in Msgs
    BY <2>1, <2>2 DEF Shape, MessagesNumbered
  <2>. QED  BY <1>0, <2>1, <2>3
<1>8. CASE ServerDrops(e)
  BY <1>0, <1>8 DEF ServerDrops
<1>9. CASE ServerHearsEnd(e) \/ ServerRemoves(e)
  BY <1>0, <1>1, <1>2, <1>9 DEF ServerHearsEnd, ServerRemoves
<1>10. CASE ServerCloses(e)
  BY <1>0, <1>1, <1>2, <1>10 DEF ServerCloses
<1>11. CASE Break(e)
  BY <1>0, <1>11 DEF Break
<1>. QED  BY <1>3, <1>4, <1>5, <1>6, <1>7, <1>8, <1>9, <1>10, <1>11 DEF ServerWorks


\* What the client does, but for making a connection: it sends on its own and
\* takes the first frame of its own.
ClientActs ==
    \/ SendHello \/ ReadWelcome \/ ReadAnswer \/ ReadNoAnswer \/ QuitJoined \/ CloseSock
    \/ ClearPendingState \/ TypeMessage \/ TypeNothing \/ TypeQuit \/ EndOfInput
    \/ ReceiverWorks \/ Scan \/ Resend \/ SendKills

LEMMA ClientMoves ==
    ASSUME Shape, ClientActs
    PROVE  /\ UNCHANGED <<epoch, srv, serverEnd, broken, processed, faults, overtaken>>
           /\ \/ toServer' = toServer
              \/ epoch \in Conns /\ \E f \in Frames : ToServer(epoch, f)
           /\ \/ toClient' = toClient
              \/ /\ epoch \in Conns /\ toClient[epoch] # <<>>
                 /\ toClient' = Advanced(toClient, epoch)
<1>. USE DEF mainVars, retryVars, netVars, worldVars, observedVars
<1>0. /\ TypeOK /\ MainBooks
      /\ (at # "connect" \/ rx = "reading" \/ sockOpen => epoch \in Conns)
  <2>1. TypeOK /\ MainBooks /\ MaxConns \in Nat
    BY ClientSessionAssumption DEF Shape
  <2>2. epoch \in 0..MaxConns /\ (at # "connect" \/ rx = "reading" => epoch > 0)
    BY <2>1 DEF TypeOK, MainBooks
  <2>3. sockOpen => epoch \in Conns
    BY <2>1 DEF TypeOK
  <2>. QED  BY <2>1, <2>2, <2>3 DEF Conns
<1>1. UNCHANGED <<epoch, srv, serverEnd, broken, processed, faults, overtaken>>
  BY DEF ClientActs, SendHello, ReadWelcome, ReadAnswer, ReadNoAnswer, QuitJoined, CloseSock,
     ClearPendingState, TypeMessage, TypeNothing, TypeQuit, EndOfInput, ReceiverWorks, Receive,
     ReceiveFails, Scan, Resend, SendKills, GiveUp
<1>2. CASE SendHello \/ TypeQuit
  <2>1. /\ epoch \in Conns /\ toClient' = toClient
        /\ \E k \in {"HELLO", "BYE"} : ToServer(epoch, Control(k))
    BY <1>0, <1>2 DEF SendHello, TypeQuit
  <2>. QED  BY <1>1, <2>1, ControlFrames
<1>3. CASE ReadWelcome
  <2>1. /\ epoch \in Conns
        /\ toServer' = toServer \/ ToServer(epoch, Control("AUTH"))
        /\ \/ toClient' = toClient
           \/ toClient[epoch] # <<>> /\ toClient' = Advanced(toClient, epoch)
    BY <1>0, <1>3 DEF ReadWelcome, Arrived
  <2>. QED  BY <1>1, <2>1, ControlFrames
<1>4. CASE TypeMessage
  <2>1. epoch \in Conns /\ toClient' = toClient /\ \E m \in Msgs : ToServer(epoch, Frame("MSG", m))
    BY <1>0, <1>4 DEF TypeMessage
  <2>. QED  BY <1>1, <2>1, ControlFrames
<1>5. CASE Resend
  <2>1. /\ toClient' = toClient
        /\ \/ toServer' = toServer
           \/ epoch \in Conns /\ \E m \in toResend : ToServer(epoch, Frame("MSG", m))
    BY <1>0, <1>5 DEF Resend
  <2>2. toResend \subseteq Msgs
    BY <1>0 DEF TypeOK
  <2>. QED  BY <1>1, <2>1, <2>2, ControlFrames
<1>6. CASE ReadAnswer \/ Receive
  <2>1. /\ epoch \in Conns /\ toServer' = toServer /\ toClient[epoch] # <<>>
        /\ toClient' = Advanced(toClient, epoch)
    BY <1>0, <1>6 DEF ReadAnswer, Receive
  <2>. QED  BY <1>1, <2>1
<1>7. CASE ReadNoAnswer \/ QuitJoined \/ CloseSock \/ ClearPendingState \/ TypeNothing
              \/ EndOfInput \/ ReceiveFails \/ Scan \/ SendKills
  <2>1. toServer' = toServer /\ toClient' = toClient
    BY <1>7 DEF ReadNoAnswer, QuitJoined, CloseSock, ClearPendingState, TypeNothing,
       EndOfInput, ReceiveFails, Scan, SendKills
  <2>. QED  BY <1>1, <2>1
<1>. QED  BY <1>2, <1>3, <1>4, <1>5, <1>6, <1>7 DEF ClientActs, ReceiverWorks

LEMMA ClientStreams ==
    ASSUME Shape, ClientActs
    PROVE  /\ \A d \in Conns : KindsOf(toClient'[d]) \subseteq KindsOf(toClient[d])
           /\ \A d \in Conns : toClient[d] = <<>> \/ d # epoch => toClient'[d] = toClient[d]
           /\ \A d \in Conns : toServer'[d] = toServer[d] \/ (d = epoch /\ Carries(d))
<1>0. TypeOK /\ toServer \in [Conns -> Seq(Frames)] /\ toClient \in [Conns -> Seq(Frames)]
  BY DEF Shape, TypeOK
<1>1. \A d \in Conns : toServer'[d] = toServer[d] \/ (d = epoch /\ Carries(d))
  <2>1. CASE toServer' = toServer
    BY <2>1
  <2>2. CASE epoch \in Conns /\ \E f \in Frames : ToServer(epoch, f)
    BY <1>0, <2>2, ServerStreamGrows
  <2>. QED  BY <2>1, <2>2, ClientMoves
<1>2. CASE toClient' = toClient
  BY <1>1, <1>2
<1>3. CASE epoch \in Conns /\ toClient[epoch] # <<>> /\ toClient' = Advanced(toClient, epoch)
  <2>1. \A d \in Conns : d # epoch => toClient'[d] = toClient[d]
    BY <1>0, <1>3 DEF Advanced
  <2>2. \A d \in Conns : KindsOf(toClient'[d]) \subseteq KindsOf(toClient[d])
    BY <1>0, <1>3, StreamAdvances
  <2>. QED  BY <1>1, <1>3, <2>1, <2>2
<1>. QED  BY <1>2, <1>3, ClientMoves

\* What a step of handler e does to the streams.
LEMMA HandlerStreams ==
    ASSUME Shape, HandlerBooks, NEW e \in Conns, ServerWorks(e) \/ OthersTalk(e) \/ Break(e)
    PROVE  /\ \A d \in Conns : d # e => toClient'[d] = toClient[d] /\ toServer'[d] = toServer[d]
           /\ \A d \in Conns : KindsOf(toServer'[d]) \subseteq KindsOf(toServer[d])
           /\ toServer[e] = <<>> => toServer'[e] = <<>>
<1>0. TypeOK /\ toServer \in [Conns -> Seq(Frames)] /\ toClient \in [Conns -> Seq(Frames)]
  BY DEF Shape, TypeOK
<1>1. /\ \A d \in Conns : d # e => toServer'[d] = toServer[d]
      /\ \A d \in Conns : KindsOf(toServer'[d]) \subseteq KindsOf(toServer[d])
      /\ toServer[e] = <<>> => toServer'[e] = <<>>
  <2>1. CASE toServer' = toServer
    BY <2>1
  <2>2. CASE toServer[e] # <<>> /\ toServer' = Advanced(toServer, e)
    <3>1. \A d \in Conns : d # e => toServer'[d] = toServer[d]
      BY <1>0, <2>2 DEF Advanced
    <3>2. \A d \in Conns : KindsOf(toServer'[d]) \subseteq KindsOf(toServer[d])
      BY <1>0, <2>2, StreamAdvances
    <3>. QED  BY <2>2, <3>1, <3>2
  <2>3. CASE toServer' = [toServer EXCEPT ![e] = <<>>]
    BY <1>0, <2>3, EmptyStream
  <2>. QED  BY <2>1, <2>2, <2>3, ServerStreams
<1>2. \A d \in Conns : d # e => toClient'[d] = toClient[d]
  <2>1. (\E k \in {"WELCOME", "ERROR", "INUSE", "INFO", "TALK"} : ToClient(e, Control(k)))
            => \A d \in Conns : d # e => toClient'[d] = toClient[d]
    BY <1>0, ClientStreamGrows, ControlFrames
  <2>2. (\E m \in Msgs : ToClient(e, Frame("ACK", m)))
            => \A d \in Conns : d # e => toClient'[d] = toClient[d]
    BY <1>0, ClientStreamGrows, ControlFrames
  <2>. QED  BY <1>0, <2>1, <2>2, HandlerMoves
<1>. QED  BY <1>1, <1>2

LEMMA HandlerBooksStep ==
    ASSUME Shape, HandlerBooks, [Next]_vars
    PROVE  HandlerBooks'
<1>0. /\ TypeOK /\ toServer \in [Conns -> Seq(Frames)] /\ toClient \in [Conns -> Seq(Frames)]
      /\ epoch \in Nat /\ Conns \subseteq Nat /\ srv \in [Conns -> HandlerPhases]
      /\ \A p \in processed : p.conn \in Conns
  <2>1. TypeOK /\ MaxConns \in Nat
    BY ClientSessionAssumption DEF Shape
  <2>2. epoch \in Nat /\ Conns \subseteq Nat
    <3>1. epoch \in 0..MaxConns
      BY <2>1 DEF TypeOK
    <3>. QED  BY <2>1, <3>1 DEF Conns
  <2>3. \A p \in processed : p.conn \in Conns
    BY <2>1 DEF TypeOK
  <2>. QED  BY <2>1, <2>2, <2>3 DEF TypeOK
<1>1. CASE Connect
  <2>1. /\ epoch' = epoch + 1 /\ epoch' \in Conns /\ serverEnd' = serverEnd \cup {epoch'}
        /\ srv' = [srv EXCEPT ![epoch'] = "accepted"]
        /\ UNCHANGED <<toServer, toClient, broken, processed>>
    <3>1. MaxConns \in Nat
      BY ClientSessionAssumption
    <3>. QED  BY <1>0, <1>1, <3>1 DEF Connect, Conns, observedVars
  <2>2. srv[epoch'] = "none" /\ toClient[epoch'] = <<>> /\ KindsOf(toClient[epoch']) = {}
    BY <1>0, <2>1, EmptyStream DEF HandlerBooks
  <2>3. /\ srv'[epoch'] = "accepted" /\ \A e \in Conns : e # epoch' => srv'[e] = srv[e]
        /\ \A e \in Conns : e > epoch' => e > epoch /\ e # epoch'
    BY <1>0, <2>1
  <2>4. \A p \in processed : p.conn # epoch'
    BY <2>2 DEF HandlerBooks, LoggedIn, InUse
  <2>. QED  BY <1>0, <2>1, <2>2, <2>3, <2>4 DEF HandlerBooks
<1>2. CASE ClientActs
  <2>1. UNCHANGED <<epoch, srv, serverEnd, broken, processed>>
    BY <1>2, ClientMoves
  <2>2. \A d \in Conns : d > epoch \/ d \in broken => toServer'[d] = toServer[d]
    BY <1>0, <1>2, ClientStreams DEF Carries
  <2>3. \A d \in Conns : KindsOf(toClient'[d]) \cap Refusals # {}
                             => KindsOf(toClient[d]) \cap Refusals # {}
    BY <1>2, ClientStreams
  <2>. QED  BY <1>0, <1>2, <2>1, <2>2, <2>3, ClientStreams DEF HandlerBooks
<1>3. ASSUME NEW e \in Conns, ServerWorks(e) \/ OthersTalk(e) \/ Break(e)
      PROVE  HandlerBooks'
  <2>1. /\ \A d \in Conns : d # e => toClient'[d] = toClient[d] /\ toServer'[d] = toServer[d]
        /\ toServer[e] = <<>> => toServer'[e] = <<>>
        /\ UNCHANGED epoch /\ \A d \in Conns : d # e => srv'[d] = srv[d]
    BY <1>3, HandlerStreams, HandlerMoves, ServerLeaves DEF ServerFrame
  <2>2. /\ processed \subseteq processed'
        /\ \A p \in processed' : p \in processed \/ (p.conn = e /\ srv[e] = "serving")
        /\ \A d \in Conns : d # e => (d \in serverEnd' <=> d \in serverEnd)
                                     /\ (d \in broken' <=> d \in broken)
    BY <1>3, HandlerMoves
  <2>3. \A p \in processed' : p.conn \in Conns
    BY <1>0, <2>2
  <2>4. srv[e] # "none"
    BY <1>3, HandlerMoves DEF Break, Carries, HandlerBooks
  <2>. DEFINE Own(k) == KindsOf(toClient'[e]) = KindsOf(toClient[e]) \cup (IF Carries(e) THEN {k} ELSE {})
  <2>5. /\ \A k \in {"WELCOME", "ERROR", "INUSE", "INFO", "TALK"} :
               ToClient(e, Control(k)) => Own(k) /\ (~Carries(e) => toClient'[e] = toClient[e])
        /\ \A m \in Msgs : ToClient(e, Frame("ACK", m)) =>
               Own("ACK") /\ (~Carries(e) => toClient'[e] = toClient[e])
    <3>1. ASSUME NEW f \in Frames, ToClient(e, f)
          PROVE  Own(f.kind) /\ (~Carries(e) => toClient'[e] = toClient[e])
      BY <1>0, <3>1, ClientStreamGrows
    <3>. HIDE DEF Own
    <3>2. ASSUME NEW k \in {"WELCOME", "ERROR", "INUSE", "INFO", "TALK"}, ToClient(e, Control(k))
          PROVE  Own(k) /\ (~Carries(e) => toClient'[e] = toClient[e])
      <4>1. Control(k) \in Frames /\ Control(k).kind = k
        BY ControlFrames
      <4>2. Own(Control(k).kind) /\ (~Carries(e) => toClient'[e] = toClient[e])
        BY <3>1, <3>2, <4>1
      <4>. QED  BY <4>1, <4>2
    <3>3. ASSUME NEW m \in Msgs, ToClient(e, Frame("ACK", m))
          PROVE  Own("ACK") /\ (~Carries(e) => toClient'[e] = toClient[e])
      <4>1. Frame("ACK", m) \in Frames /\ Frame("ACK", m).kind = "ACK"
        BY ControlFrames
      <4>2. Own(Frame("ACK", m).kind) /\ (~Carries(e) => toClient'[e] = toClient[e])
        BY <3>1, <3>3, <4>1
      <4>. QED  BY <4>1, <4>2
    <3>. QED  BY <3>2, <3>3
  <2>6. Break(e) => toClient'[e] = <<>> /\ toServer'[e] = <<>> /\ KindsOf(toClient'[e]) = {}
    BY <1>0, EmptyStream DEF Break
  <2>7. /\ srv'[e] # "none" /\ (srv'[e] = "accepted" => toClient'[e] = <<>>)
        /\ (e \in serverEnd' <=> srv'[e] \notin {"none", "closed"})
        /\ (\A p \in processed' : p.conn = e => srv'[e] \in LoggedIn \ {"listed"})
    <3>1. srv'[e] # "none" /\ (srv'[e] = "accepted" => Break(e))
      BY <1>3, <2>4, HandlerMoves
    <3>2. e \in serverEnd' <=> srv'[e] \notin {"none", "closed"}
      BY <1>3, <2>4, HandlerMoves DEF HandlerBooks
    <3>3. \A p \in processed : p.conn = e => srv[e] \in LoggedIn \ {"listed"}
      BY DEF HandlerBooks
    <3>4. srv[e] \in LoggedIn \ {"listed"} => srv'[e] \in LoggedIn \ {"listed"}
      BY <1>3, HandlerMoves DEF LoggedIn, InUse
    <3>5. \A p \in processed' : p.conn = e => srv'[e] \in LoggedIn \ {"listed"}
      <4>1. "serving" \in LoggedIn \ {"listed"}
        BY DEF LoggedIn, InUse
      <4>. QED  BY <2>2, <3>3, <3>4, <4>1
    <3>. QED  BY <2>6, <3>1, <3>2, <3>5
  <2>8. /\ e \in broken' => toServer'[e] = <<>> /\ toClient'[e] = <<>>
    <3>1. CASE Break(e)
      BY <2>6, <3>1
    <3>2. CASE ~Break(e)
      <4>1. broken' = broken
        BY <1>3, <3>2, HandlerMoves
      <4>2. e \in broken => toClient[e] = <<>> /\ toServer[e] = <<>> /\ ~Carries(e)
        BY DEF HandlerBooks, Carries
      <4>3. e \in broken => toClient'[e] = toClient[e]
        BY <1>3, <2>5, <3>2, <4>2, HandlerMoves
      <4>. QED  BY <2>1, <4>1, <4>2, <4>3
    <3>. QED  BY <3>1, <3>2
  <2>9. /\ KindsOf(toClient'[e]) \subseteq {"WELCOME"} \cup Refusals \cup Confirmed
        /\ KindsOf(toClient'[e]) \cap Refusals # {} =>
               srv'[e] = "closed" /\ \A p \in processed' : p.conn # e
    <3>1. /\ KindsOf(toClient[e]) \subseteq {"WELCOME"} \cup Refusals \cup Confirmed
          /\ KindsOf(toClient[e]) \cap Refusals # {} =>
               srv[e] = "closed" /\ \A p \in processed : p.conn # e
          /\ srv[e] \in {"accepted", "welcomed"} => \A p \in processed : p.conn # e
      BY DEF HandlerBooks, LoggedIn, InUse
    <3>2. CASE Break(e)
      BY <2>6, <3>2
    <3>3. CASE /\ srv[e] \in {"accepted", "welcomed"} /\ srv'[e] = "closed" /\ processed' = processed
               /\ \E k \in Refusals : ToClient(e, Control(k))
      BY <2>5, <3>1, <3>3 DEF Refusals
    <3>4. CASE srv[e] # "closed"
               /\ \/ \E k \in {"WELCOME", "INFO", "TALK"} : ToClient(e, Control(k))
                  \/ \E m \in Msgs : ToClient(e, Frame("ACK", m))
                  \/ toClient' = toClient
      <4>1. KindsOf(toClient'[e]) \subseteq KindsOf(toClient[e]) \cup {"WELCOME", "INFO", "TALK", "ACK"}
        BY <2>5, <3>4
      <4>2. KindsOf(toClient'[e]) \cap Refusals = {}
        BY <3>1, <3>4, <4>1 DEF Refusals
      <4>. QED  BY <3>1, <4>1, <4>2 DEF Confirmed
    <3>. QED  BY <1>3, <3>2, <3>3, <3>4, HandlerMoves DEF Refusals
  <2>10. ASSUME NEW d \in Conns, d # e
         PROVE  /\ srv'[d] \in {"none", "accepted"} => toClient'[d] = <<>>
                /\ KindsOf(toClient'[d]) \subseteq {"WELCOME"} \cup Refusals \cup Confirmed
                /\ KindsOf(toClient'[d]) \cap Refusals # {} =>
                       srv'[d] = "closed" /\ \A p \in processed' : p.conn # d
                /\ d \in serverEnd' <=> srv'[d] \notin {"none", "closed"}
                /\ d \in broken' => toServer'[d] = <<>> /\ toClient'[d] = <<>>
                /\ d > epoch => srv'[d] = "none" /\ toServer'[d] = <<>>
    BY <2>1, <2>2, <2>10 DEF HandlerBooks
  <2>11. \A p \in processed' : srv'[p.conn] \in LoggedIn \ {"listed"}
    BY <1>0, <2>1, <2>2, <2>3, <2>7 DEF HandlerBooks
  <2>12. ~(e > epoch)
    BY <2>4 DEF HandlerBooks
  <2>. QED
    BY <2>1, <2>7, <2>8, <2>9, <2>10, <2>11, <2>12 DEF HandlerBooks
<1>4. CASE ServerRestarts
  <2>1. /\ UNCHANGED <<epoch, toServer, toClient, broken, processed>> /\ serverEnd' = {}
        /\ \A d \in Conns : srv'[d] = IF srv[d] = "none" THEN "none" ELSE "closed"
    BY <1>4 DEF ServerRestarts, mainVars, observedVars
  <2>2. "closed" \in LoggedIn \ {"listed"}
    BY DEF LoggedIn, InUse
  <2>3. \A p \in processed : srv[p.conn] # "none"
    BY DEF HandlerBooks, LoggedIn, InUse
  <2>. QED  BY <1>0, <2>1, <2>2, <2>3 DEF HandlerBooks
<1>5. CASE UNCHANGED vars
  BY <1>5 DEF vars, HandlerBooks
<1>. QED
  BY <1>1, <1>2, <1>3, <1>4, <1>5 DEF Next, MainWorks, ClientActs

LEMMA HandlerBooksKept == Spec => []HandlerBooks
<1>1. Init => HandlerBooks
  <2>. SUFFICES ASSUME Init PROVE HandlerBooks
    OBVIOUS
  <2>1. /\ \A e \in Conns : srv[e] = "none" /\ toServer[e] = <<>> /\ toClient[e] = <<>>
        /\ processed = {} /\ serverEnd = {} /\ broken = {}
    BY DEF Init
  <2>2. \A e \in Conns : KindsOf(toClient[e]) = {}
    BY <2>1, EmptyStream
  <2>. QED  BY <2>1, <2>2 DEF HandlerBooks
<1>. QED  BY <1>1, HandlerBooksStep, ShapeKept, PTL DEF Spec

\* Before it has read WELCOME the client has sent no AUTH, so that the handler has
\* not looked at the nickname and has said WELCOME, if anything, first.
GreetingBooks ==
    /\ at \in {"connected", "waitWelcome"} =>
           /\ "AUTH" \notin KindsOf(toServer[epoch])
           /\ srv[epoch] \in {"accepted", "welcomed", "closed"}
           /\ KindsOf(toClient[epoch]) \subseteq {"WELCOME", "ERROR"}
           /\ OnlyFirst(toClient[epoch])
    /\ at = "waitAuth" =>
           /\ srv[epoch] \notin {"none", "accepted"}
           /\ "WELCOME" \notin KindsOf(toClient[epoch])

\* The facts about the connection in use that the steps below need.
LEMMA CurrentConnection ==
    ASSUME Shape
    PROVE  /\ TypeOK /\ MainBooks /\ epoch \in Nat /\ Conns \subseteq Nat
           /\ (at # "connect" => epoch \in Conns) /\ (sockOpen => epoch \in Conns)
           /\ toServer \in [Conns -> Seq(Frames)] /\ toClient \in [Conns -> Seq(Frames)]
           /\ (InHandshake => epoch \in clientEnd /\ rx # "reading")
<1>1. TypeOK /\ MainBooks /\ MaxConns \in Nat
  BY ClientSessionAssumption DEF Shape
<1>2. epoch \in 0..MaxConns /\ (at # "connect" => epoch > 0)
  BY <1>1 DEF TypeOK, MainBooks
<1>3. epoch \in Nat /\ Conns \subseteq Nat /\ (at # "connect" => epoch \in Conns)
  BY <1>1, <1>2 DEF Conns
<1>4. (sockOpen => epoch \in clientEnd /\ epoch \in Conns) /\ (InHandshake => sockOpen)
  BY <1>1 DEF TypeOK, MainBooks
<1>5. InHandshake => rx # "reading"
  BY <1>1 DEF MainBooks, InHandshake
<1>. QED  BY <1>1, <1>3, <1>4, <1>5 DEF TypeOK

\* The client makes no other step in a handshake that matters to it.
LEMMA HandshakeGoesOn ==
    ASSUME Shape, ClientActs, ~SendHello, ~ReadWelcome, InHandshake'
    PROVE  /\ at' = at /\ epoch \in Conns /\ toClient' = toClient /\ UNCHANGED leftover
           /\ \/ toServer' = toServer
              \/ \E m \in toResend : ToServer(epoch, Frame("MSG", m))
<1>1. MainBooks /\ (at # "connect" => epoch \in Conns)
  BY CurrentConnection
<1>2. CASE Resend
  BY <1>1, <1>2 DEF Resend, mainVars, observedVars, InHandshake
<1>3. CASE Scan
  BY <1>1, <1>3 DEF Scan, mainVars, netVars, observedVars, InHandshake
<1>4. CASE ReceiverWorks
  BY <1>1, <1>4 DEF ReceiverWorks, Receive, ReceiveFails, mainVars, MainBooks, InHandshake
<1>5. ASSUME ReadAnswer \/ ReadNoAnswer \/ QuitJoined \/ CloseSock \/ ClearPendingState
               \/ TypeMessage \/ TypeNothing \/ TypeQuit \/ EndOfInput \/ SendKills
      PROVE  FALSE
  BY <1>5 DEF SendKills, ReadAnswer, ReadNoAnswer, QuitJoined, CloseSock, ClearPendingState, TypeMessage,
     TypeNothing, TypeQuit, EndOfInput, GiveUp, AfterLine, InHandshake
<1>. QED  BY <1>2, <1>3, <1>4, <1>5 DEF ClientActs

LEMMA GreetingBooksStep ==
    ASSUME Shape, HandlerBooks, GreetingBooks, [Next]_vars
    PROVE  GreetingBooks'
<1>0. /\ TypeOK /\ MainBooks /\ epoch \in Nat /\ Conns \subseteq Nat
      /\ (at # "connect" => epoch \in Conns)
      /\ toServer \in [Conns -> Seq(Frames)] /\ toClient \in [Conns -> Seq(Frames)]
      /\ srv \in [Conns -> HandlerPhases]
  BY CurrentConnection DEF TypeOK
<1>1. CASE Connect
  <2>1. /\ epoch' = epoch + 1 /\ epoch' \in Conns /\ at' = "connected"
        /\ srv' = [srv EXCEPT ![epoch'] = "accepted"] /\ UNCHANGED <<toServer, toClient>>
    <3>1. MaxConns \in Nat
      BY ClientSessionAssumption
    <3>. QED  BY <1>0, <1>1, <3>1 DEF Connect, Conns
  <2>2. toClient[epoch'] = <<>> /\ toServer[epoch'] = <<>> /\ srv'[epoch'] = "accepted"
    BY <1>0, <2>1 DEF HandlerBooks
  <2>3. OnlyFirst(<<>>)
    BY DEF OnlyFirst
  <2>. QED  BY <2>1, <2>2, <2>3, EmptyStream DEF GreetingBooks
<1>2. CASE SendHello
  <2>1. /\ at = "connected" /\ at' = "waitWelcome" /\ ToServer(epoch, Control("HELLO"))
        /\ UNCHANGED <<epoch, srv, toClient>>
    BY <1>2 DEF SendHello, worldVars
  <2>2. Within(toServer'[epoch]) \subseteq Within(toServer[epoch]) \cup {Control("HELLO")}
    BY <1>0, <2>1, ServerStreamGrows, ControlFrames
  <2>3. Control("HELLO").kind = "HELLO"
    BY ControlFrames
  <2>4. "AUTH" \notin KindsOf(toServer'[epoch])
    BY <2>1, <2>2, <2>3 DEF GreetingBooks, KindsOf
  <2>. QED  BY <2>1, <2>4 DEF GreetingBooks
<1>3. CASE ReadWelcome
  <2>1. at = "waitWelcome" /\ epoch \in Conns /\ UNCHANGED <<epoch, srv>>
    BY <1>0, <1>3 DEF ReadWelcome, worldVars
  <2>2. CASE Arrived(toClient, epoch, "WELCOME")
    <3>1. at' = "waitAuth" /\ toClient[epoch] # <<>> /\ toClient'[epoch] = Tail(toClient[epoch])
      BY <1>0, <1>3, <2>1, <2>2 DEF ReadWelcome, Arrived, Advanced
    <3>2. "WELCOME" \notin KindsOf(toClient'[epoch])
      BY <1>0, <2>1, <3>1, OnlyFirstStays DEF GreetingBooks
    <3>. QED  BY <2>1, <3>1, <3>2 DEF GreetingBooks, HandlerBooks
  <2>3. CASE ~Arrived(toClient, epoch, "WELCOME")
    BY <1>3, <2>3 DEF ReadWelcome, GiveUp, GreetingBooks
  <2>. QED  BY <2>2, <2>3
<1>4. CASE ClientActs /\ ~SendHello /\ ~ReadWelcome
  <2>1. CASE ~InHandshake'
    BY <2>1 DEF InHandshake, GreetingBooks
  <2>2. CASE InHandshake'
    <3>1. /\ at' = at /\ epoch \in Conns /\ toClient' = toClient /\ UNCHANGED <<epoch, srv>>
          /\ \/ toServer' = toServer
             \/ \E m \in toResend : ToServer(epoch, Frame("MSG", m))
      BY <1>4, <2>2, HandshakeGoesOn, ClientMoves
    <3>2. toResend \subseteq 0..MaxMsg
      BY <1>0, ControlFrames DEF TypeOK
    <3>3. ASSUME NEW m \in toResend, ToServer(epoch, Frame("MSG", m))
          PROVE  \A f \in Within(toServer'[epoch]) : f \in Within(toServer[epoch]) \/ f.kind = "MSG"
      BY <1>0, <3>1, <3>2, <3>3, ServerStreamGrows, ControlFrames
    <3>4. "AUTH" \in KindsOf(toServer'[epoch]) => "AUTH" \in KindsOf(toServer[epoch])
      BY <3>1, <3>3 DEF KindsOf
    <3>. QED  BY <3>1, <3>4 DEF GreetingBooks
  <2>. QED  BY <2>1, <2>2
<1>5. ASSUME NEW e \in Conns, ServerWorks(e) \/ OthersTalk(e) \/ Break(e)
      PROVE  GreetingBooks'
  <2>1. /\ \A d \in Conns : d # e => toClient'[d] = toClient[d] /\ srv'[d] = srv[d]
        /\ \A d \in Conns : KindsOf(toServer'[d]) \subseteq KindsOf(toServer[d])
        /\ UNCHANGED <<at, epoch>>
    BY <1>5, HandlerStreams, HandlerMoves, ServerLeaves DEF ServerFrame
  <2>2. CASE e # epoch
    BY <1>0, <2>1, <2>2 DEF GreetingBooks
  <2>3. CASE e = epoch
    <3>1. ASSUME NEW f \in Frames, ToClient(e, f)
          PROVE  /\ toClient'[e] = toClient[e] \/ toClient'[e] = Append(toClient[e], f)
                 /\ KindsOf(toClient'[e]) \subseteq KindsOf(toClient[e]) \cup {f.kind}
      BY <1>0, <3>1, ClientStreamGrows
    <3>2. CASE at \in {"connected", "waitWelcome"}
      <4>1. ~Arrived(toServer, e, "AUTH")
        <5>1. Arrived(toServer, e, "AUTH") => "AUTH" \in KindsOf(toServer[e])
          BY <1>0, AdvancedStream DEF Arrived
        <5>. QED  BY <2>3, <3>2, <5>1 DEF GreetingBooks
      <4>2. srv[e] \in {"accepted", "welcomed", "closed"}
        BY <2>3, <3>2 DEF GreetingBooks
      <4>3. \/ srv[e] = "accepted" /\ srv'[e] = "welcomed" /\ ToClient(e, Control("WELCOME"))
            \/ srv'[e] = "closed" /\ ToClient(e, Control("ERROR"))
            \/ Break(e) /\ srv' = srv /\ toClient'[e] = <<>>
        BY <1>0, <1>5, <4>1, <4>2, HandlerMoves
      <4>4. srv[e] = "accepted" => toClient[e] = <<>>
        BY DEF HandlerBooks
      <4>5. OnlyFirst(toClient'[e]) /\ KindsOf(toClient'[e]) \subseteq {"WELCOME", "ERROR"}
        <5>1. OnlyFirst(toClient[e]) /\ KindsOf(toClient[e]) \subseteq {"WELCOME", "ERROR"}
          BY <2>3, <3>2 DEF GreetingBooks
        <5>0. \A f \in Frames : toClient[e] = <<>> \/ f.kind # "WELCOME"
                                  => OnlyFirst(Append(toClient[e], f))
          <6>1. toClient[e] \in Seq(Frames)
            BY <1>0
          <6>. QED  BY <5>1, <6>1, OnlyFirstStays
        <5>2. CASE srv[e] = "accepted" /\ ToClient(e, Control("WELCOME"))
          <6>1. Control("WELCOME") \in Frames /\ Control("WELCOME").kind = "WELCOME"
            BY ControlFrames
          <6>. QED  BY <3>1, <4>4, <5>0, <5>1, <5>2, <6>1
        <5>3. CASE ToClient(e, Control("ERROR"))
          <6>1. Control("ERROR") \in Frames /\ Control("ERROR").kind = "ERROR"
            BY ControlFrames
          <6>. QED  BY <3>1, <5>0, <5>1, <5>3, <6>1
        <5>4. CASE toClient'[e] = <<>>
          BY <5>4, EmptyStream DEF OnlyFirst
        <5>. QED  BY <4>3, <5>2, <5>3, <5>4
      <4>. QED  BY <2>1, <2>3, <3>2, <4>2, <4>3, <4>5 DEF GreetingBooks
    <3>3. CASE at = "waitAuth"
      <4>1. srv[e] \notin {"none", "accepted"} /\ "WELCOME" \notin KindsOf(toClient[e])
        BY <2>3, <3>3 DEF GreetingBooks
      <4>2. srv'[e] \notin {"none", "accepted"}
        BY <1>5, <4>1, HandlerMoves
      <4>3. \/ \E k \in {"ERROR", "INUSE", "INFO", "TALK"} : ToClient(e, Control(k))
            \/ \E m \in Msgs : ToClient(e, Frame("ACK", m))
            \/ toClient' = toClient
            \/ Break(e) /\ toClient'[e] = <<>>
        BY <1>0, <1>5, <4>1, HandlerMoves
      <4>4. "WELCOME" \notin KindsOf(toClient'[e])
        <5>1. CASE \/ \E k \in {"ERROR", "INUSE", "INFO", "TALK"} : ToClient(e, Control(k))
                   \/ \E m \in Msgs : ToClient(e, Frame("ACK", m))
          BY <3>1, <4>1, <5>1, ControlFrames
        <5>2. CASE toClient' = toClient \/ toClient'[e] = <<>>
          BY <4>1, <5>2, EmptyStream
        <5>. QED  BY <4>3, <5>1, <5>2
      <4>. QED  BY <2>1, <2>3, <3>3, <4>2, <4>4 DEF GreetingBooks
    <3>4. CASE ~InHandshake
      BY <2>1, <3>4 DEF GreetingBooks, InHandshake
    <3>. QED  BY <3>2, <3>3, <3>4 DEF InHandshake
  <2>. QED  BY <2>2, <2>3
<1>6. CASE ServerRestarts
  <2>1. /\ UNCHANGED <<at, epoch, toServer, toClient>>
        /\ \A d \in Conns : srv'[d] = IF srv[d] = "none" THEN "none" ELSE "closed"
    BY <1>6 DEF ServerRestarts, mainVars
  <2>. QED  BY <1>0, <2>1 DEF GreetingBooks
<1>7. CASE UNCHANGED vars
  BY <1>7 DEF vars, GreetingBooks
<1>. QED
  BY <1>1, <1>2, <1>3, <1>4, <1>5, <1>6, <1>7 DEF Next, MainWorks, ClientActs

LEMMA GreetingBooksKept == Spec => []GreetingBooks
<1>1. Init => GreetingBooks
  BY DEF Init, GreetingBooks
<1>. QED  BY <1>1, GreetingBooksStep, ShapeKept, HandlerBooksKept, PTL DEF Spec

-----------------------------------------------------------------------------
(* The nickname.                                                           *)

\* The nickname is in the list for one connection at most, and for none older than
\* the one that the client has last logged in with.
OldGone(e) == \A f \in Conns : f < e => srv[f] \notin InUse

NameBooks ==
    /\ \A e, f \in Conns : srv[e] \in InUse /\ srv[f] \in InUse => e = f
    /\ \A e \in Conns : e < epoch \/ (e = epoch /\ InSession) => srv[e] \in LoggedIn
    /\ \A e \in Conns : KindsOf(toClient[e]) \cap Confirmed # {} => srv[e] \in LoggedIn /\ OldGone(e)
    /\ InSession => OldGone(epoch)

\* A handler takes the nickname when nobody has it, and keeps its place in the
\* order of the phases.
LEMMA NameMoves ==
    ASSUME Shape, HandlerBooks, NameBooks,
           NEW e \in Conns, ServerWorks(e) \/ OthersTalk(e) \/ Break(e)
    PROVE  /\ srv[e] \in LoggedIn => srv'[e] \in LoggedIn
           /\ srv'[e] \in InUse => srv[e] \in InUse
                                   \/ (e >= epoch /\ \A d \in Conns : srv[d] \notin InUse)
           /\ \A d \in Conns : d <= epoch /\ OldGone(d) => OldGone(d)'
           /\ \A d \in Conns : srv[d] \in LoggedIn => srv'[d] \in LoggedIn
<1>0. epoch \in Nat /\ Conns \subseteq Nat /\ \A d \in Conns : d # e => srv'[d] = srv[d]
  BY CurrentConnection, HandlerMoves
<1>1. srv[e] \in LoggedIn => srv'[e] \in LoggedIn
  BY HandlerMoves DEF LoggedIn, InUse
<1>2. srv'[e] \in InUse => srv[e] \in InUse \/ (srv[e] = "welcomed" /\ ~NicknameUsed)
  BY HandlerMoves DEF InUse
<1>3. srv'[e] \in InUse => srv[e] \in InUse
                           \/ (e >= epoch /\ \A d \in Conns : srv[d] \notin InUse)
  <2>1. srv[e] = "welcomed" => ~(e < epoch)
    BY DEF NameBooks, LoggedIn, InUse
  <2>2. ~NicknameUsed => \A d \in Conns : srv[d] \notin InUse
    BY DEF NicknameUsed, InUse
  <2>. QED  BY <1>0, <1>2, <2>1, <2>2
<1>4. ASSUME NEW d \in Conns, d <= epoch, OldGone(d)
      PROVE  OldGone(d)'
  <2>1. e < d => srv'[e] \notin InUse
    BY <1>0, <1>3, <1>4 DEF OldGone
  <2>. QED  BY <1>0, <1>4, <2>1 DEF OldGone
<1>. QED  BY <1>0, <1>1, <1>3, <1>4

\* Where a session begins, and where one has been already.
LEMMA SessionsBegin ==
    ASSUME Shape, HandlerBooks, GreetingBooks, ClientActs, InSession'
    PROVE  \/ InSession
           \/ /\ at = "waitAuth" /\ at' = "prompt" /\ rx' = "reading" /\ running' = TRUE
              /\ epoch \in Conns /\ KindsOf(toClient[epoch]) \cap Confirmed # {}
<1>0. /\ toClient \in [Conns -> Seq(Frames)] /\ (at # "connect" => epoch \in Conns)
  BY CurrentConnection
<1>1. CASE ReadAnswer
  <2>1. /\ at = "waitAuth" /\ epoch \in Conns /\ toClient[epoch] # <<>>
        /\ \/ /\ IsLogin(Head(toClient[epoch]).kind)
              /\ at' = "prompt" /\ rx' = "reading" /\ running' = TRUE
           \/ at' \in {"nameInUse", "handshakeFailed", "unexpected"}
    BY <1>0, <1>1 DEF ReadAnswer, GiveUp
  <2>2. at' = "prompt" /\ IsLogin(Head(toClient[epoch]).kind)
    BY <2>1 DEF InSession
  <2>3. Head(toClient[epoch]).kind \in KindsOf(toClient[epoch])
    BY <1>0, <2>1, AdvancedStream
  <2>4. Head(toClient[epoch]).kind \in Confirmed
    BY <2>1, <2>2, <2>3 DEF IsLogin, GreetingBooks, HandlerBooks, Refusals, Confirmed
  <2>. QED  BY <2>1, <2>2, <2>3, <2>4
<1>2. CASE SendHello \/ ReadWelcome \/ ReadNoAnswer
  BY <1>2 DEF SendHello, ReadWelcome, ReadNoAnswer, GiveUp, InSession
<1>3. CASE QuitJoined \/ CloseSock \/ ClearPendingState \/ TypeMessage \/ TypeNothing
           \/ TypeQuit \/ EndOfInput
  BY <1>3 DEF QuitJoined, CloseSock, ClearPendingState, TypeMessage, TypeNothing, TypeQuit,
     EndOfInput, InSession
<1>4. CASE ReceiverWorks \/ Scan \/ Resend
  BY <1>4 DEF ReceiverWorks, Receive, ReceiveFails, Scan, Resend, mainVars, InSession
<1>5. CASE SendKills
  BY <1>5 DEF SendKills, GiveUp, InSession
<1>. QED  BY <1>1, <1>2, <1>3, <1>4, <1>5 DEF ClientActs

LEMMA NameBooksStep ==
    ASSUME Shape, HandlerBooks, GreetingBooks, NameBooks, [Next]_vars
    PROVE  NameBooks'
<1>0. /\ TypeOK /\ epoch \in Nat /\ Conns \subseteq Nat /\ (at # "connect" => epoch \in Conns)
      /\ toServer \in [Conns -> Seq(Frames)] /\ toClient \in [Conns -> Seq(Frames)]
      /\ srv \in [Conns -> HandlerPhases]
  BY CurrentConnection DEF TypeOK
<1>1. CASE Connect
  <2>1. /\ epoch' = epoch + 1 /\ epoch' \in Conns /\ at = "connect" /\ at' = "connected"
        /\ srv' = [srv EXCEPT ![epoch'] = "accepted"] /\ UNCHANGED <<toServer, toClient>>
    <3>1. MaxConns \in Nat
      BY ClientSessionAssumption
    <3>. QED  BY <1>0, <1>1, <3>1 DEF Connect, Conns
  <2>2. /\ srv'[epoch'] = "accepted" /\ \A d \in Conns : d # epoch' => srv'[d] = srv[d]
        /\ KindsOf(toClient'[epoch']) = {}
    BY <1>0, <2>1, EmptyStream DEF HandlerBooks
  <2>3. \A d \in Conns : srv'[d] \in InUse => srv[d] \in InUse
    BY <2>2 DEF InUse
  <2>4. InSession /\ ~InSession'
    BY <2>1 DEF InSession
  <2>5. \A d \in Conns : d < epoch' => d # epoch' /\ (d < epoch \/ d = epoch)
    BY <1>0, <2>1
  <2>6. \A d \in Conns : d < epoch' => srv'[d] \in LoggedIn
    BY <2>2, <2>4, <2>5 DEF NameBooks
  <2>7. \A d \in Conns : KindsOf(toClient'[d]) \cap Confirmed # {} =>
            srv'[d] \in LoggedIn /\ OldGone(d)'
    BY <2>1, <2>2, <2>3 DEF NameBooks, OldGone
  <2>8. \A d, f \in Conns : srv'[d] \in InUse /\ srv'[f] \in InUse => d = f
    BY <2>3 DEF NameBooks
  <2>9. \A d \in Conns : (d < epoch \/ (d = epoch /\ InSession))' => srv'[d] \in LoggedIn
    BY <2>4, <2>6
  <2>. QED  BY <2>4, <2>7, <2>8, <2>9 DEF NameBooks
<1>2. CASE ClientActs
  <2>1. UNCHANGED <<epoch, srv>>
    BY <1>2, ClientMoves
  <2>2. \A d \in Conns : KindsOf(toClient'[d]) \cap Confirmed # {}
                             => KindsOf(toClient[d]) \cap Confirmed # {}
    BY <1>2, ClientStreams
  <2>3. InSession' => (InSession \/ (epoch \in Conns /\ KindsOf(toClient[epoch]) \cap Confirmed # {}))
    BY <1>2, SessionsBegin
  <2>4. InSession' => OldGone(epoch) /\ (epoch \in Conns => srv[epoch] \in LoggedIn)
    BY <2>3 DEF NameBooks
  <2>. QED  BY <2>1, <2>2, <2>4 DEF NameBooks, OldGone
<1>3. ASSUME NEW e \in Conns, ServerWorks(e) \/ OthersTalk(e) \/ Break(e)
      PROVE  NameBooks'
  <2>1. /\ \A d \in Conns : d # e => toClient'[d] = toClient[d] /\ srv'[d] = srv[d]
        /\ UNCHANGED <<at, epoch>>
    BY <1>3, HandlerStreams, HandlerMoves, ServerLeaves DEF ServerFrame
  <2>2. /\ srv'[e] \in InUse => srv[e] \in InUse \/ \A d \in Conns : srv[d] \notin InUse
        /\ \A d \in Conns : d <= epoch /\ OldGone(d) => OldGone(d)'
        /\ \A d \in Conns : srv[d] \in LoggedIn => srv'[d] \in LoggedIn
    BY <1>3, NameMoves
  <2>3. \A d, f \in Conns : srv'[d] \in InUse /\ srv'[f] \in InUse => d = f
    BY <2>1, <2>2 DEF NameBooks
  <2>4. \A d \in Conns : d < epoch \/ (d = epoch /\ InSession) => srv'[d] \in LoggedIn
    BY <2>2 DEF NameBooks
  <2>5. InSession => \A f \in Conns : f < epoch => srv'[f] \notin InUse
    <3>1. CASE epoch \in Conns
      <4>1. \A d \in Conns : d <= epoch /\ OldGone(d) =>
                \A f \in Conns : f < d => srv'[f] \notin InUse
        BY <2>2 DEF OldGone
      <4>2. epoch <= epoch
        BY <1>0
      <4>3. OldGone(epoch) => \A f \in Conns : f < epoch => srv'[f] \notin InUse
        BY <3>1, <4>1, <4>2
      <4>. QED  BY <4>3 DEF NameBooks
    <3>2. CASE epoch \notin Conns
      <4>1. epoch \in 0..MaxConns /\ MaxConns \in Nat
        BY <1>0, ClientSessionAssumption DEF TypeOK
      <4>. QED  BY <3>2, <4>1 DEF Conns
    <3>. QED  BY <3>1, <3>2
  <2>6. ASSUME NEW d \in Conns, d # e, KindsOf(toClient'[d]) \cap Confirmed # {}
        PROVE  srv'[d] \in LoggedIn /\ OldGone(d)'
    <3>1. KindsOf(toClient[d]) \cap Confirmed # {}
      BY <2>1, <2>6
    <3>2. toClient[d] # <<>>
      BY <3>1, EmptyStream
    <3>3. d <= epoch
      BY <1>0, <3>2 DEF HandlerBooks
    <3>. QED  BY <2>2, <3>1, <3>3 DEF NameBooks
  <2>7. ASSUME KindsOf(toClient'[e]) \cap Confirmed # {}
        PROVE  srv'[e] \in LoggedIn /\ OldGone(e)'
    <3>1. ASSUME NEW f \in Frames, ToClient(e, f)
          PROVE  KindsOf(toClient'[e]) \subseteq KindsOf(toClient[e]) \cup {f.kind}
      BY <1>0, <3>1, ClientStreamGrows
    <3>2. CASE srv[e] \in InUse
      <4>1. \A d \in Conns : d # e => srv'[d] \notin InUse
        BY <2>1, <3>2 DEF NameBooks
      <4>2. srv[e] \in LoggedIn
        BY <3>2 DEF LoggedIn
      <4>. QED  BY <1>0, <2>2, <4>1, <4>2 DEF OldGone
    <3>3. CASE srv[e] \notin InUse
      <4>1. \/ \E k \in {"WELCOME", "ERROR", "INUSE"} : ToClient(e, Control(k))
            \/ toClient' = toClient
            \/ Break(e) /\ toClient'[e] = <<>>
        BY <1>0, <1>3, <3>3, HandlerMoves DEF InUse
      <4>2. KindsOf(toClient'[e]) \subseteq KindsOf(toClient[e]) \cup {"WELCOME", "ERROR", "INUSE"}
        <5>1. CASE \E k \in {"WELCOME", "ERROR", "INUSE"} : ToClient(e, Control(k))
          BY <3>1, <5>1, ControlFrames
        <5>2. CASE toClient' = toClient \/ toClient'[e] = <<>>
          BY <5>2, EmptyStream
        <5>. QED  BY <4>1, <5>1, <5>2
      <4>3. KindsOf(toClient[e]) \cap Confirmed # {}
        BY <2>7, <4>2 DEF Confirmed
      <4>4. \A d \in Conns : d < e => d # e
        BY <1>0
      <4>. QED  BY <2>1, <2>2, <4>3, <4>4 DEF NameBooks, OldGone
    <3>. QED  BY <3>2, <3>3
  <2>8. (InSession' <=> InSession) /\ epoch' = epoch
    BY <2>1 DEF InSession
  <2>. QED  BY <2>3, <2>4, <2>5, <2>6, <2>7, <2>8 DEF NameBooks, OldGone
<1>4. CASE ServerRestarts
  <2>1. /\ UNCHANGED <<at, epoch, toServer, toClient>>
        /\ \A d \in Conns : srv'[d] = IF srv[d] = "none" THEN "none" ELSE "closed"
    BY <1>4 DEF ServerRestarts, mainVars
  <2>2. /\ \A d \in Conns : srv'[d] \notin InUse
        /\ \A d \in Conns : srv[d] \in LoggedIn => srv'[d] \in LoggedIn
    BY <2>1 DEF InUse, LoggedIn
  <2>. QED  BY <1>0, <2>1, <2>2 DEF NameBooks, OldGone, InSession
<1>5. CASE UNCHANGED vars
  BY <1>5 DEF vars, NameBooks, OldGone, InSession
<1>. QED
  BY <1>1, <1>2, <1>3, <1>4, <1>5 DEF Next, MainWorks, ClientActs

LEMMA NameBooksKept == Spec => []NameBooks
<1>1. Init => NameBooks
  <2>. SUFFICES ASSUME Init PROVE NameBooks
    OBVIOUS
  <2>1. epoch = 0 /\ \A e \in Conns : srv[e] = "none" /\ toClient[e] = <<>>
    BY DEF Init
  <2>2. \A e \in Conns : ~(e < 0) /\ e # 0 /\ KindsOf(toClient[e]) = {}
    BY <2>1, EmptyStream, ClientSessionAssumption DEF Conns
  <2>3. OldGone(epoch)
    BY <2>1, <2>2 DEF OldGone
  <2>. QED  BY <2>1, <2>2, <2>3 DEF NameBooks, InUse
<1>. QED  BY <1>1, NameBooksStep, ShapeKept, HandlerBooksKept, GreetingBooksKept, PTL DEF Spec

\* What `lost' says of the connections that were before: after a session that the
\* server ended, no handler of them has the nickname any more.
FreedByServer ==
    lost \in {"", "server"} /\ at \notin {"quitting", "exited", "killed"} =>
        \A e \in Conns :
            e < epoch \/ (e = epoch /\ InSession /\ rx # "reading") => srv[e] \notin InUse

LossBooks ==
    /\ FreedByServer
    /\ at \in {"prompt", "joining"} /\ ~running /\ rx = "reading" =>
           lost = "self" \/ epoch \in broken \/ epoch \notin serverEnd
    /\ InHandshake /\ "INUSE" \in KindsOf(toClient[epoch]) => lost \in {"network", "self"}
    /\ NameFreeAfterServerClose

LEMMA LossBooksStep ==
    ASSUME Shape, HandlerBooks, GreetingBooks, NameBooks, LossBooks, [Next]_vars
    PROVE  LossBooks'
<1>. USE DEF mainVars, retryVars, netVars, worldVars, observedVars
<1>0. /\ TypeOK /\ MainBooks /\ epoch \in Nat /\ Conns \subseteq Nat
      /\ (at # "connect" => epoch \in Conns)
      /\ toServer \in [Conns -> Seq(Frames)] /\ toClient \in [Conns -> Seq(Frames)]
      /\ srv \in [Conns -> HandlerPhases]
  BY CurrentConnection DEF TypeOK
<1>00. lost \in {"", "server", "network", "self"} /\ running \in BOOLEAN
  BY <1>0 DEF TypeOK
<1>1. CASE Connect
  <2>1. /\ epoch' = epoch + 1 /\ epoch' \in Conns /\ at = "connect" /\ at' = "connected"
        /\ srv' = [srv EXCEPT ![epoch'] = "accepted"] /\ UNCHANGED <<toServer, toClient, lost, rx>>
    <3>1. MaxConns \in Nat
      BY ClientSessionAssumption
    <3>. QED  BY <1>0, <1>1, <3>1 DEF Connect, Conns
  <2>2. /\ \A d \in Conns : d # epoch' => srv'[d] = srv[d]
        /\ KindsOf(toClient'[epoch']) = {}
    <3>1. toClient'[epoch'] = <<>>
      BY <1>0, <2>1 DEF HandlerBooks
    <3>. QED  BY <1>0, <2>1, <3>1, EmptyStream
  <2>3. \A d \in Conns : d < epoch' => d # epoch' /\ (d < epoch \/ d = epoch)
    BY <1>0, <2>1
  <2>4. InSession /\ ~InSession' /\ rx # "reading"
    BY <1>0, <2>1 DEF InSession, MainBooks
  <2>5. FreedByServer'
    BY <2>1, <2>2, <2>3, <2>4 DEF LossBooks, FreedByServer
  <2>. QED  BY <2>1, <2>2, <2>5 DEF LossBooks, NameFreeAfterServerClose
\* Steps that leave the sessions alone.
<1>2. ASSUME UNCHANGED <<epoch, srv, lost, serverEnd, broken>>, rx' = rx \/ rx' = "reading",
             at \in {"quitting", "exited", "killed"} => at' \in {"quitting", "exited", "killed"},
             \/ at' \in {"quitting", "exited", "killed"}
             \/ InSession' => InSession \/ rx' = "reading"
      PROVE  FreedByServer'
  <2>1. ASSUME NEW e \in Conns, lost \in {"", "server"},
               at' \notin {"quitting", "exited", "killed"},
               e < epoch \/ (e = epoch /\ InSession' /\ rx' # "reading")
        PROVE  srv[e] \notin InUse
    <3>1. at \notin {"quitting", "exited", "killed"}
      BY <1>2, <2>1
    <3>. QED  BY <1>2, <2>1, <3>1 DEF LossBooks, FreedByServer
  <2>. QED  BY <1>2, <2>1 DEF FreedByServer
<1>3. CASE SendHello \/ ReadWelcome \/ ReadNoAnswer
  <2>1. /\ UNCHANGED <<epoch, srv, lost, serverEnd, broken, rx>>
        /\ at' \in {"waitWelcome", "waitAuth", "handshakeFailed"} /\ InHandshake
    BY <1>3 DEF SendHello, ReadWelcome, ReadNoAnswer, GiveUp, InHandshake
  <2>2. epoch \in Conns /\ KindsOf(toClient'[epoch]) \subseteq KindsOf(toClient[epoch])
    BY <1>0, <1>3, <2>1, ClientStreams DEF InHandshake, ClientActs
  <2>3. FreedByServer'
    <3>1. ~InSession' /\ at \notin {"quitting", "exited", "killed"}
      BY <2>1 DEF InSession, InHandshake
    <3>. QED  BY <1>2, <2>1, <3>1
  <2>. QED  BY <2>1, <2>2, <2>3 DEF LossBooks, NameFreeAfterServerClose
<1>4. CASE ReadAnswer
  <2>1. /\ UNCHANGED <<epoch, srv, lost, serverEnd, broken>> /\ at = "waitAuth"
        /\ epoch \in Conns /\ toClient[epoch] # <<>>
        /\ \/ at' = "prompt" /\ rx' = "reading" /\ running' = TRUE
           \/ at' = "nameInUse" /\ rx' = rx /\ Arrived(toClient, epoch, "INUSE")
           \/ at' \in {"handshakeFailed", "unexpected"} /\ rx' = rx
    BY <1>0, <1>4 DEF ReadAnswer, GiveUp
  <2>2. FreedByServer'
    <3>1. CASE at' = "prompt" /\ rx' = "reading"
      BY <1>2, <2>1, <3>1
    <3>2. CASE at' # "prompt" /\ rx' = rx
      <4>1. ~InSession' /\ at \notin {"quitting", "exited", "killed"}
        BY <2>1, <3>2 DEF InSession
      <4>. QED  BY <1>2, <2>1, <3>2, <4>1
    <3>. QED  BY <2>1, <3>1, <3>2
  <2>3. Arrived(toClient, epoch, "INUSE") => "INUSE" \in KindsOf(toClient[epoch])
    <3>1. toClient[epoch] \in Seq(Frames) /\ toClient[epoch] # <<>>
      BY <1>0, <2>1
    <3>2. Head(toClient[epoch]).kind \in KindsOf(toClient[epoch])
      BY <3>1, AdvancedStream
    <3>. QED  BY <3>2 DEF Arrived
  <2>4. NameFreeAfterServerClose'
    BY <2>1, <2>3 DEF LossBooks, InHandshake, NameFreeAfterServerClose
  <2>. QED  BY <2>1, <2>2, <2>4 DEF LossBooks, InHandshake
<1>5. CASE TypeMessage \/ TypeNothing
  <2>1. /\ UNCHANGED <<epoch, srv, lost, serverEnd, broken, rx>> /\ at = "prompt"
        /\ at' \in {"prompt", "joining"}
    BY <1>5 DEF TypeMessage, TypeNothing, AfterLine
  <2>2. running' = running \/ ~Carries(epoch)
    BY <1>00, <1>5 DEF TypeMessage, TypeNothing
  <2>3. epoch \in clientEnd
    BY <1>0, <2>1 DEF MainBooks, TypeOK
  <2>4. FreedByServer'
    BY <1>2, <2>1 DEF InSession
  <2>. QED
    BY <2>1, <2>2, <2>3, <2>4 DEF LossBooks, InHandshake, NameFreeAfterServerClose, Carries
<1>6. CASE EndOfInput
  <2>1. /\ UNCHANGED <<epoch, srv, serverEnd, broken, rx>> /\ at = "prompt"
        /\ at' = "joining" /\ lost' = IF rx = "done" THEN lost ELSE "self"
    BY <1>6 DEF EndOfInput, AfterLine
  <2>2. FreedByServer'
    BY <2>1 DEF LossBooks, FreedByServer, InSession
  <2>. QED  BY <2>1, <2>2 DEF LossBooks, InHandshake, NameFreeAfterServerClose
<1>7. CASE TypeQuit \/ QuitJoined \/ CloseSock \/ ClearPendingState
  <2>1. /\ UNCHANGED <<epoch, srv, lost, serverEnd, broken, rx>>
        /\ InSession /\ at' \in {"quitting", "exited", "closed", "connect"}
        /\ at = "quitting" => at' = "exited"
        /\ at \notin {"exited", "killed"}
    BY <1>7 DEF TypeQuit, QuitJoined, CloseSock, ClearPendingState, InSession
  <2>2. FreedByServer'
    BY <1>2, <2>1
  <2>. QED  BY <2>1, <2>2 DEF LossBooks, InHandshake, NameFreeAfterServerClose
<1>8. CASE Scan \/ Resend
  <2>1. UNCHANGED <<epoch, srv, lost, serverEnd, broken, rx, at, running, toClient>>
    BY <1>8 DEF Scan, Resend
  <2>. QED
    BY <2>1 DEF LossBooks, FreedByServer, InSession, InHandshake, NameFreeAfterServerClose
<1>9. CASE Receive
  <2>1. /\ UNCHANGED <<epoch, srv, lost, serverEnd, broken, at, running>>
        /\ rx = "reading" /\ toClient[epoch] # <<>>
        /\ rx' = rx \/ (~running /\ rx' = "done")
    BY <1>9 DEF Receive, ReceiverEnds
  <2>2. at \in {"prompt", "joining", "quitting"} /\ epoch \in Conns
    BY <1>0, <2>1 DEF MainBooks
  <2>3. CASE rx' = rx
    <3>1. FreedByServer'
      BY <1>2, <2>1, <2>3 DEF InSession
    <3>. QED
      BY <2>1, <2>2, <2>3, <3>1 DEF LossBooks, InHandshake, NameFreeAfterServerClose
  <2>4. CASE ~running /\ rx' = "done"
    <3>1. epoch \notin broken
      BY <2>1, <2>2 DEF HandlerBooks
    <3>2. epoch \notin serverEnd => srv[epoch] \notin InUse
      BY <2>2 DEF HandlerBooks, InUse
    <3>3. at \in {"prompt", "joining"} /\ lost # "self" => srv[epoch] \notin InUse
      BY <2>1, <2>4, <3>1, <3>2 DEF LossBooks
    <3>4. FreedByServer'
      BY <2>1, <2>2, <3>3 DEF LossBooks, FreedByServer, InSession
    <3>. QED
      BY <2>1, <2>2, <2>4, <3>4 DEF LossBooks, InHandshake, NameFreeAfterServerClose
  <2>. QED  BY <2>1, <2>3, <2>4
<1>10. CASE ReceiveFails
  <2>1. /\ UNCHANGED <<epoch, srv, serverEnd, broken, at>> /\ rx = "reading" /\ rx' = "done"
        /\ lost' = IF epoch \notin serverEnd THEN "server" ELSE "network"
    BY <1>10 DEF ReceiveFails, ReceiverEnds
  <2>2. at \in {"prompt", "joining", "quitting"} /\ epoch \in Conns
    BY <1>0, <2>1 DEF MainBooks
  <2>3. \A d \in Conns : d < epoch => srv[d] \notin InUse
    BY <2>2 DEF NameBooks, OldGone, InSession
  <2>4. epoch \notin serverEnd => srv[epoch] \notin InUse
    BY <2>2 DEF HandlerBooks, InUse
  <2>5. FreedByServer'
    BY <2>1, <2>3, <2>4 DEF FreedByServer
  <2>. QED  BY <2>1, <2>2, <2>5 DEF LossBooks, InHandshake, NameFreeAfterServerClose
<1>11. ASSUME NEW e \in Conns, ServerWorks(e) \/ OthersTalk(e) \/ Break(e)
       PROVE  LossBooks'
  <2>1. /\ \A d \in Conns : d # e => toClient'[d] = toClient[d] /\ srv'[d] = srv[d]
        /\ UNCHANGED <<at, epoch, lost, rx, running>>
    BY <1>11, HandlerStreams, HandlerMoves, ServerLeaves DEF ServerFrame
  <2>2. broken \subseteq broken' /\ serverEnd' \subseteq serverEnd
    BY <1>11, HandlerMoves
  <2>3. ASSUME NEW d \in Conns, srv'[d] \in InUse, d < epoch \/ (d = epoch /\ InSession)
        PROVE  srv[d] \in InUse
    <3>1. srv[d] \in LoggedIn
      BY <2>3 DEF NameBooks
    <3>2. srv[e] = "welcomed" => d # e
      BY <3>1 DEF LoggedIn, InUse
    <3>3. srv'[e] \in InUse => srv[e] \in InUse \/ srv[e] = "welcomed"
      BY <1>11, HandlerMoves DEF InUse
    <3>. QED  BY <2>1, <2>3, <3>2, <3>3
  <2>4. FreedByServer'
    BY <2>1, <2>3 DEF LossBooks, FreedByServer, InSession
  <2>5. ASSUME InHandshake, "INUSE" \in KindsOf(toClient'[epoch])
        PROVE  lost \in {"network", "self"}
    <3>1. CASE "INUSE" \in KindsOf(toClient[epoch])
      BY <2>5, <3>1 DEF LossBooks
    <3>2. CASE "INUSE" \notin KindsOf(toClient[epoch])
      <4>1. e = epoch
        BY <1>0, <2>1, <2>5, <3>2 DEF InHandshake
      <4>2. ASSUME NEW f \in Frames, ToClient(e, f), f.kind # "INUSE"
            PROVE  "INUSE" \notin KindsOf(toClient'[e])
        <5>1. KindsOf(toClient'[e]) \subseteq KindsOf(toClient[e]) \cup {f.kind}
          BY <1>0, <4>2, ClientStreamGrows
        <5>. QED  BY <3>2, <4>1, <4>2, <5>1
      <4>3. ~(\E k \in {"WELCOME", "ERROR", "INFO", "TALK"} : ToClient(e, Control(k)))
            /\ ~(\E m \in Msgs : ToClient(e, Frame("ACK", m)))
            /\ toClient' # toClient /\ toClient'[e] # <<>>
        BY <2>5, <3>2, <4>1, <4>2, ControlFrames, EmptyStream
      <4>4. srv[e] = "welcomed" /\ NicknameUsed
        BY <1>0, <1>11, <4>3, HandlerMoves
      <4>5. PICK f \in Conns : srv[f] \in InUse
        BY <4>4 DEF NicknameUsed, InUse
      <4>6. f < epoch
        <5>1. ~(f > epoch) /\ f # epoch
          BY <4>1, <4>4, <4>5 DEF HandlerBooks, InUse
        <5>. QED  BY <1>0, <5>1
      <4>7. lost \notin {"", "server"}
        BY <2>5, <4>5, <4>6 DEF LossBooks, FreedByServer, InHandshake
      <4>. QED  BY <1>00, <4>7
    <3>. QED  BY <3>1, <3>2
  <2>6. NameFreeAfterServerClose'
    BY <2>1 DEF LossBooks, NameFreeAfterServerClose
  <2>. QED  BY <2>1, <2>2, <2>4, <2>5, <2>6 DEF LossBooks, InHandshake
<1>12. CASE ServerRestarts
  <2>1. /\ UNCHANGED <<at, epoch, lost, rx, running, toClient, broken>> /\ serverEnd' = {}
        /\ \A d \in Conns : srv'[d] = IF srv[d] = "none" THEN "none" ELSE "closed"
    BY <1>12 DEF ServerRestarts
  <2>2. \A d \in Conns : srv'[d] \notin InUse
    BY <2>1 DEF InUse
  <2>. QED
    BY <2>1, <2>2 DEF LossBooks, FreedByServer, InHandshake, NameFreeAfterServerClose
<1>13. CASE UNCHANGED vars
  BY <1>13 DEF vars, LossBooks, FreedByServer, InSession, InHandshake, NameFreeAfterServerClose
<1>14. CASE SendKills
  <2>1. at' = "killed"
    BY <1>14 DEF SendKills, GiveUp
  <2>. QED
    BY <2>1 DEF LossBooks, FreedByServer, InHandshake, NameFreeAfterServerClose
<1>. QED
  BY <1>1, <1>3, <1>4, <1>5, <1>6, <1>7, <1>8, <1>9, <1>10, <1>11, <1>12, <1>13, <1>14
  DEF Next, MainWorks, ReceiverWorks

\* A client whose session the server ended, or a restart of the server, finds its
\* nickname free, for any number of sessions and faults.
THEOREM NameIsFree == Spec => []NameFreeAfterServerClose
<1>1. Init => LossBooks
  <2>. SUFFICES ASSUME Init PROVE LossBooks
    OBVIOUS
  <2>1. at = "connect" /\ \A e \in Conns : srv[e] = "none"
    BY DEF Init
  <2>. QED  BY <2>1 DEF LossBooks, FreedByServer, InUse, InHandshake, NameFreeAfterServerClose
<1>2. LossBooks => NameFreeAfterServerClose
  BY DEF LossBooks
<1>. QED
  BY <1>1, <1>2, LossBooksStep, ShapeKept, HandlerBooksKept, GreetingBooksKept, NameBooksKept,
     PTL DEF Spec

-----------------------------------------------------------------------------
(* What client and server think of a login.                                *)

\* While the client waits for the answer to AUTH nobody takes it away: what comes
\* first is a verdict, unless a broadcast was sent before the confirmation.
VerdictBooks ==
    /\ at = "waitAuth" /\ toClient[epoch] # <<>> =>
           /\ Head(toClient[epoch]).kind # "ACK"
           /\ Head(toClient[epoch]).kind = "TALK" => epoch \in overtaken
    /\ at = "waitAuth" /\ srv[epoch] \in {"serving", "leaving", "removed"} =>
           epoch \in broken \/ toClient[epoch] # <<>>
    /\ at = "unexpected" => lab = 4 /\ epoch \in overtaken
    /\ at = "nameInUse" => srv[epoch] = "closed"

LEMMA FirstFrame ==
    ASSUME NEW S, NEW s \in Seq(S), NEW f \in S
    PROVE  /\ Append(s, f) # <<>>
           /\ s # <<>> => Head(Append(s, f)) = Head(s)
           /\ s = <<>> => Head(Append(s, f)) = f /\ Append(s, f) = <<f>> /\ Tail(Append(s, f)) = <<>>
<1>1. s # <<>> => Head(Append(s, f)) = Head(s)
  OBVIOUS
<1>2. Append(s, f) # <<>>
  BY AppendedStream
<1>3. s = <<>> => Append(s, f) = <<f>>
  OBVIOUS
<1>4. Head(<<f>>) = f /\ Tail(<<f>>) = <<>>
  OBVIOUS
<1>. QED  BY <1>1, <1>2, <1>3, <1>4

LEMMA VerdictBooksStep ==
    ASSUME Shape, HandlerBooks, GreetingBooks, VerdictBooks, [Next]_vars
    PROVE  VerdictBooks'
<1>. USE DEF mainVars, retryVars, netVars, worldVars, observedVars
<1>0. /\ TypeOK /\ MainBooks /\ epoch \in Nat /\ Conns \subseteq Nat
      /\ (at # "connect" => epoch \in Conns)
      /\ toServer \in [Conns -> Seq(Frames)] /\ toClient \in [Conns -> Seq(Frames)]
      /\ srv \in [Conns -> HandlerPhases]
  BY CurrentConnection DEF TypeOK
<1>1. CASE Connect \/ SendHello
  <2>1. at' \in {"connected", "waitWelcome"}
    BY <1>1 DEF Connect, SendHello
  <2>. QED  BY <2>1 DEF VerdictBooks
<1>2. CASE ReadWelcome
  <2>1. at = "waitWelcome" /\ epoch \in Conns /\ UNCHANGED <<epoch, srv>>
        /\ srv[epoch] \in {"accepted", "welcomed", "closed"}
    BY <1>0, <1>2 DEF ReadWelcome, GreetingBooks
  <2>2. CASE at' = "waitAuth"
    <3>1. toClient[epoch] # <<>> /\ toClient'[epoch] = Tail(toClient[epoch])
      BY <1>0, <1>2, <2>1, <2>2 DEF ReadWelcome, Arrived, Advanced, GiveUp
    <3>2. KindsOf(toClient'[epoch]) \subseteq {"WELCOME", "ERROR"}
          /\ toClient'[epoch] \in Seq(Frames)
      BY <1>0, <2>1, <3>1, AdvancedStream DEF GreetingBooks
    <3>3. toClient'[epoch] # <<>> => Head(toClient'[epoch]).kind \in {"WELCOME", "ERROR"}
      BY <3>2, AdvancedStream
    <3>. QED  BY <2>1, <2>2, <3>3 DEF VerdictBooks
  <2>3. CASE at' = "handshakeFailed"
    BY <2>3 DEF VerdictBooks
  <2>. QED  BY <1>2, <2>2, <2>3 DEF ReadWelcome, GiveUp
<1>3. CASE ReadAnswer
  <2>1. /\ at = "waitAuth" /\ epoch \in Conns /\ toClient[epoch] # <<>>
        /\ UNCHANGED <<epoch, srv, lab, overtaken>>
    BY <1>0, <1>3 DEF ReadAnswer
  <2>. DEFINE kind == Head(toClient[epoch]).kind
  <2>2. kind \in KindsOf(toClient[epoch])
    BY <1>0, <2>1, AdvancedStream
  <2>3. /\ kind \in Refusals \cup Confirmed /\ kind # "ACK"
        /\ kind = "TALK" => epoch \in overtaken
    BY <2>1, <2>2 DEF HandlerBooks, GreetingBooks, VerdictBooks
  <2>4. kind = "INUSE" => srv[epoch] = "closed"
    BY <2>1, <2>2 DEF HandlerBooks, Refusals
  <2>5. \/ at' \in {"prompt", "handshakeFailed"}
        \/ at' = "nameInUse" /\ kind = "INUSE"
        \/ at' = "unexpected" /\ ~IsLogin(kind) /\ kind \notin {"INUSE", "ERROR"}
    BY <1>3, <2>1 DEF ReadAnswer, GiveUp, Arrived
  <2>. HIDE DEF kind
  <2>6. at' = "unexpected" => lab = 4 /\ kind = "TALK"
    BY <2>3, <2>5 DEF IsLogin, Refusals, Confirmed
  <2>. QED  BY <2>1, <2>3, <2>4, <2>5, <2>6 DEF VerdictBooks
<1>4. CASE ClientActs /\ ~SendHello /\ ~ReadWelcome /\ ~ReadAnswer
  <2>1. UNCHANGED <<epoch, srv, lab, overtaken, broken>>
    <3>1. UNCHANGED lab
      BY <1>4 DEF ClientActs, ReadNoAnswer, QuitJoined, CloseSock, ClearPendingState, TypeMessage,
         TypeNothing, TypeQuit, EndOfInput, ReceiverWorks, Receive, ReceiveFails, Scan, Resend,
         SendKills
    <3>. QED  BY <1>4, <3>1, ClientMoves
  <2>2. CASE InHandshake'
    <3>1. at' = at /\ toClient' = toClient
      BY <1>4, <2>2, HandshakeGoesOn
    <3>. QED  BY <2>1, <3>1 DEF VerdictBooks
  <2>3. CASE ~InHandshake'
    <3>1. at' \in {"unexpected", "nameInUse"} => at' = at
      BY <1>4 DEF ClientActs, ReadNoAnswer, QuitJoined, CloseSock, ClearPendingState, TypeMessage,
         TypeNothing, TypeQuit, EndOfInput, ReceiverWorks, Receive, ReceiveFails, Scan, Resend,
         SendKills, GiveUp, AfterLine
    <3>2. at' # "waitAuth"
      BY <2>3 DEF InHandshake
    <3>. QED  BY <2>1, <3>1, <3>2 DEF VerdictBooks
  <2>. QED  BY <2>2, <2>3
<1>5. ASSUME NEW e \in Conns, ServerWorks(e) \/ OthersTalk(e) \/ Break(e)
      PROVE  VerdictBooks'
  <2>1. /\ \A d \in Conns : d # e => toClient'[d] = toClient[d] /\ srv'[d] = srv[d]
        /\ UNCHANGED <<at, epoch, lab>>
    BY <1>5, HandlerStreams, HandlerMoves, ServerLeaves DEF ServerFrame
  <2>2. overtaken \subseteq overtaken' /\ broken \subseteq broken'
    <3>1. overtaken \subseteq overtaken'
      BY <1>5 DEF ServerWorks, OthersTalk, Break, ServerGreets, ServerAuthenticates,
         ServerConfirms, ServerServes, ServerDrops, ServerHearsEnd, ServerRemoves, ServerCloses
    <3>. QED  BY <1>5, <3>1, HandlerMoves
  <2>3. srv[e] = "closed" => srv'[e] = "closed"
    BY <1>5, HandlerMoves
  <2>4. CASE at # "waitAuth"
    <3>1. at = "nameInUse" => srv'[epoch] = "closed"
      BY <1>0, <2>1, <2>3 DEF VerdictBooks
    <3>. QED  BY <2>1, <2>2, <2>4, <3>1 DEF VerdictBooks
  <2>5. CASE at = "waitAuth" /\ e # epoch
    BY <1>0, <2>1, <2>2, <2>5 DEF VerdictBooks
  <2>6. CASE at = "waitAuth" /\ e = epoch
    <3>1. e \in clientEnd /\ toClient[e] \in Seq(Frames)
          /\ (srv[e] \notin {"none", "closed"} => e \in serverEnd)
      BY <1>0, <2>6, CurrentConnection DEF InHandshake, HandlerBooks
    <3>2. ASSUME NEW f \in Frames, ToClient(e, f)
          PROVE  /\ toClient'[e] = IF Carries(e) THEN Append(toClient[e], f) ELSE toClient[e]
                 /\ toClient[e] # <<>> =>
                        toClient'[e] # <<>> /\ Head(toClient'[e]) = Head(toClient[e])
                 /\ toClient[e] = <<>> /\ toClient'[e] # <<>> =>
                        Carries(e) /\ Head(toClient'[e]) = f
      <4>1. toClient'[e] = IF Carries(e) THEN Append(toClient[e], f) ELSE toClient[e]
        BY <1>0, <3>2, ClientStreamGrows
      <4>2. /\ Append(toClient[e], f) # <<>>
            /\ toClient[e] # <<>> => Head(Append(toClient[e], f)) = Head(toClient[e])
            /\ toClient[e] = <<>> => Head(Append(toClient[e], f)) = f
        BY <3>1, FirstFrame
      <4>. QED  BY <4>1, <4>2
    <3>3. ASSUME toClient'[e] # <<>>
          PROVE  /\ Head(toClient'[e]).kind # "ACK"
                 /\ Head(toClient'[e]).kind = "TALK" => e \in overtaken'
      <4>1. srv[e] = "serving" /\ Carries(e) => toClient[e] # <<>>
        BY <2>6 DEF VerdictBooks, Carries
      <4>2. toClient[e] # <<>> => Head(toClient[e]).kind # "ACK"
                                  /\ (Head(toClient[e]).kind = "TALK" => e \in overtaken)
        BY <2>6 DEF VerdictBooks
      <4>3. CASE \E k \in {"WELCOME", "ERROR", "INUSE", "INFO"} : ToClient(e, Control(k))
        <5>1. PICK k \in {"WELCOME", "ERROR", "INUSE", "INFO"} : ToClient(e, Control(k))
          BY <4>3
        <5>2. Control(k) \in Frames /\ Control(k).kind = k
          BY ControlFrames
        <5>. QED  BY <2>2, <3>2, <3>3, <4>2, <5>1, <5>2
      <4>4. CASE /\ srv[e] \in {"listed", "serving"} /\ ToClient(e, Control("TALK"))
                 /\ (srv[e] = "listed" => e \in overtaken')
        <5>1. Control("TALK") \in Frames /\ Control("TALK").kind = "TALK"
          BY ControlFrames
        <5>. QED  BY <2>2, <3>2, <3>3, <4>1, <4>2, <4>4, <5>1
      <4>5. CASE srv[e] = "serving" /\ \E m \in Msgs : ToClient(e, Frame("ACK", m))
        <5>1. PICK m \in Msgs : ToClient(e, Frame("ACK", m))
          BY <4>5
        <5>2. Frame("ACK", m) \in Frames
          BY ControlFrames
        <5>. QED  BY <2>2, <3>2, <3>3, <4>1, <4>2, <4>5, <5>1, <5>2
      <4>6. CASE toClient' = toClient
        BY <2>2, <3>3, <4>2, <4>6
      <4>7. CASE Break(e)
        BY <1>0, <3>3, <4>7 DEF Break
      <4>. QED  BY <1>5, <4>3, <4>4, <4>5, <4>6, <4>7, HandlerMoves
    <3>4. ASSUME srv'[e] \in {"serving", "leaving", "removed"}
          PROVE  e \in broken' \/ toClient'[e] # <<>>
      <4>1. srv[e] \in {"serving", "leaving", "removed"} => e \in broken \/ toClient[e] # <<>>
        BY <2>6 DEF VerdictBooks
      <4>2. CASE srv[e] = "listed" /\ ToClient(e, Control("INFO"))
        <5>1. Control("INFO") \in Frames
          BY ControlFrames
        <5>2. e \in broken \/ Carries(e)
          BY <3>1, <4>2 DEF Carries
        <5>3. Append(toClient[e], Control("INFO")) # <<>>
          BY <3>1, <5>1, FirstFrame
        <5>4. toClient'[e] = IF Carries(e) THEN Append(toClient[e], Control("INFO")) ELSE toClient[e]
          BY <3>2, <4>2, <5>1
        <5>. QED  BY <2>2, <5>2, <5>3, <5>4
      <4>3. CASE /\ srv[e] \in {"serving", "leaving"}
                 /\ \/ ToClient(e, Control("TALK"))
                    \/ \E m \in Msgs : ToClient(e, Frame("ACK", m))
        <5>1. \E f \in Frames : ToClient(e, f)
          BY <4>3, ControlFrames
        <5>. QED  BY <2>2, <3>2, <4>1, <4>3, <5>1
      <4>4. CASE srv[e] \in {"serving", "leaving"} /\ toClient' = toClient
        BY <2>2, <4>1, <4>4
      <4>5. CASE Break(e)
        BY <4>5 DEF Break
      <4>. QED  BY <1>5, <3>4, <4>2, <4>3, <4>4, <4>5, HandlerMoves
    <3>. QED  BY <2>1, <2>6, <3>3, <3>4 DEF VerdictBooks
  <2>. QED  BY <2>4, <2>5, <2>6
<1>6. CASE ServerRestarts
  <2>1. /\ UNCHANGED <<at, epoch, lab, toClient, broken, overtaken>>
        /\ \A d \in Conns : srv'[d] = IF srv[d] = "none" THEN "none" ELSE "closed"
    BY <1>6 DEF ServerRestarts
  <2>. QED  BY <1>0, <2>1 DEF VerdictBooks
<1>7. CASE UNCHANGED vars
  BY <1>7 DEF vars, VerdictBooks
<1>. QED
  BY <1>1, <1>2, <1>3, <1>4, <1>5, <1>6, <1>7 DEF Next, MainWorks, ClientActs

LEMMA VerdictBooksKept == Spec => []VerdictBooks
<1>1. Init => VerdictBooks
  BY DEF Init, VerdictBooks
<1>. QED
  BY <1>1, VerdictBooksStep, ShapeKept, HandlerBooksKept, GreetingBooksKept, PTL DEF Spec

\* Without faults a handler in the handshake has in its stream what it waits for,
\* or nothing while the client has not sent it, and ends the connection only for a
\* message that the retry thread kept from an earlier session.
Faultless ==
    /\ broken = {}
    /\ InHandshake =>
        /\ epoch \notin serverEnd =>
               toClient[epoch] # <<>> /\ (at # "waitAuth" => "ERROR" \in KindsOf(toClient[epoch]))
        /\ "ERROR" \in KindsOf(toClient[epoch]) => leftover # {}
        /\ srv[epoch] = "accepted" /\ leftover = {} =>
               \/ at = "connected" /\ toServer[epoch] = <<>>
               \/ at = "waitWelcome" /\ toServer[epoch] = <<Control("HELLO")>>
        /\ srv[epoch] = "welcomed" /\ leftover = {} =>
               \/ at = "waitWelcome" /\ toServer[epoch] = <<>>
               \/ at = "waitAuth" /\ toServer[epoch] = <<Control("AUTH")>>
    /\ at = "handshakeFailed" =>
           srv[epoch] = "closed" /\ leftover # {} /\ \A p \in processed : p.conn # epoch

FaultlessBooks == faults = 0 => Faultless

\* The client's steps.
LEMMA ClientKeepsFaultless ==
    ASSUME Shape, HandlerBooks, GreetingBooks, MessageBooks, faults = 0, Faultless,
           Connect \/ ClientActs
    PROVE  Faultless'
<1>. USE DEF mainVars, retryVars, netVars, worldVars, observedVars
<1>0. /\ TypeOK /\ MainBooks /\ epoch \in Nat /\ Conns \subseteq Nat
      /\ (at # "connect" => epoch \in Conns)
      /\ toServer \in [Conns -> Seq(Frames)] /\ toClient \in [Conns -> Seq(Frames)]
      /\ srv \in [Conns -> HandlerPhases]
  BY CurrentConnection DEF TypeOK
<1>1. CASE Connect
  <2>1. /\ epoch' = epoch + 1 /\ epoch' \in Conns /\ at' = "connected"
        /\ srv' = [srv EXCEPT ![epoch'] = "accepted"]
        /\ serverEnd' = serverEnd \cup {epoch'} /\ UNCHANGED <<toServer, toClient, broken>>
    <3>1. MaxConns \in Nat
      BY ClientSessionAssumption
    <3>. QED  BY <1>0, <1>1, <3>1 DEF Connect, Conns
  <2>2. toClient'[epoch'] = <<>> /\ toServer'[epoch'] = <<>> /\ srv'[epoch'] = "accepted"
    BY <1>0, <2>1 DEF HandlerBooks
  <2>3. KindsOf(toClient'[epoch']) = {}
    BY <2>2, EmptyStream
  <2>. QED  BY <2>1, <2>2, <2>3 DEF Faultless
\* What the client says now is carried to a handler that is still there.
<1>2. ASSUME NEW f \in Frames, ToServer(epoch, f), InHandshake,
             srv[epoch] \notin {"none", "closed"}, toServer[epoch] = <<>>
      PROVE  toServer'[epoch] = <<f>>
  <2>1. epoch \in Conns /\ Carries(epoch)
    BY <1>0, <1>2, CurrentConnection DEF Carries, InHandshake, HandlerBooks, Faultless
  <2>2. toServer'[epoch] = Append(toServer[epoch], f)
    BY <1>0, <1>2, <2>1, ServerStreamGrows
  <2>3. toServer[epoch] \in Seq(Frames)
    BY <1>0, <2>1
  <2>. QED  BY <1>2, <2>2, <2>3, FirstFrame
<1>3. CASE SendHello
  <2>1. /\ at = "connected" /\ at' = "waitWelcome" /\ ToServer(epoch, Control("HELLO"))
        /\ UNCHANGED <<epoch, srv, toClient, serverEnd, broken, leftover>>
    BY <1>3 DEF SendHello
  <2>2. srv[epoch] = "accepted" /\ leftover = {} => toServer'[epoch] = <<Control("HELLO")>>
    BY <1>2, <2>1, ControlFrames DEF Faultless, InHandshake
  <2>3. ~(srv[epoch] = "welcomed" /\ leftover = {})
    BY <2>1 DEF Faultless, InHandshake
  <2>4. InHandshake /\ InHandshake'
    BY <2>1 DEF InHandshake
  <2>. QED  BY <2>1, <2>2, <2>3, <2>4 DEF Faultless
<1>4. CASE ReadWelcome
  <2>1. at = "waitWelcome" /\ epoch \in Conns /\ InHandshake /\ toClient[epoch] \in Seq(Frames)
        /\ UNCHANGED <<epoch, srv, serverEnd, broken, leftover, processed>>
    BY <1>0, <1>4 DEF ReadWelcome, InHandshake
  <2>2. CASE Arrived(toClient, epoch, "WELCOME")
    <3>1. /\ at' = "waitAuth" /\ toClient[epoch] # <<>> /\ toClient'[epoch] = Tail(toClient[epoch])
          /\ Head(toClient[epoch]).kind = "WELCOME" /\ ToServer(epoch, Control("AUTH"))
      BY <1>0, <1>4, <2>1, <2>2 DEF ReadWelcome, Arrived, Advanced
    <3>2. KindsOf(toClient[epoch]) = {"WELCOME"} \cup KindsOf(toClient'[epoch])
      BY <2>1, <3>1, AdvancedStream
    <3>3. epoch \notin serverEnd => toClient'[epoch] # <<>>
      BY <2>1, <3>2, EmptyStream DEF Faultless
    <3>4. srv[epoch] # "accepted"
      BY <2>1, <3>1 DEF HandlerBooks
    <3>5. srv[epoch] = "welcomed" /\ leftover = {} => toServer'[epoch] = <<Control("AUTH")>>
      BY <1>2, <2>1, <3>1, ControlFrames DEF Faultless
    <3>6. "ERROR" \in KindsOf(toClient'[epoch]) => leftover # {}
      BY <2>1, <3>2 DEF Faultless
    <3>. QED  BY <2>1, <3>1, <3>3, <3>4, <3>5, <3>6 DEF Faultless, InHandshake
  <2>3. CASE ~Arrived(toClient, epoch, "WELCOME")
    <3>1. at' = "handshakeFailed" /\ (toClient[epoch] # <<>> \/ ServerHungUp(epoch))
      BY <1>4, <2>3 DEF ReadWelcome, GiveUp
    <3>2. "ERROR" \in KindsOf(toClient[epoch])
      <4>1. CASE toClient[epoch] # <<>>
        <5>1. Head(toClient[epoch]).kind \in KindsOf(toClient[epoch])
          BY <2>1, <4>1, AdvancedStream
        <5>. QED  BY <2>1, <2>3, <4>1, <5>1 DEF GreetingBooks, Arrived
      <4>2. CASE toClient[epoch] = <<>> /\ ServerHungUp(epoch)
        BY <2>1, <4>2 DEF ServerHungUp, Faultless
      <4>. QED  BY <3>1, <4>1, <4>2
    <3>3. srv[epoch] = "closed" /\ leftover # {} /\ \A p \in processed : p.conn # epoch
      BY <2>1, <3>2 DEF HandlerBooks, Refusals, Faultless
    <3>. QED  BY <1>4, <2>1, <2>3, <3>1, <3>3 DEF Faultless, InHandshake, ReadWelcome, GiveUp
  <2>. QED  BY <2>2, <2>3
<1>5. CASE ReadAnswer
  <2>1. /\ at = "waitAuth" /\ epoch \in Conns /\ toClient[epoch] # <<>> /\ InHandshake
        /\ UNCHANGED <<epoch, srv, serverEnd, broken, leftover, processed>>
        /\ toClient[epoch] \in Seq(Frames)
    BY <1>0, <1>5 DEF ReadAnswer, InHandshake
  <2>2. Head(toClient[epoch]).kind \in KindsOf(toClient[epoch])
    BY <2>1, AdvancedStream
  <2>3. \/ at' \in {"prompt", "nameInUse", "unexpected"}
        \/ at' = "handshakeFailed" /\ Head(toClient[epoch]).kind = "ERROR"
    BY <1>5 DEF ReadAnswer, GiveUp, Arrived
  <2>4. at' = "handshakeFailed" =>
            srv[epoch] = "closed" /\ leftover # {} /\ \A p \in processed : p.conn # epoch
    BY <2>1, <2>2, <2>3 DEF HandlerBooks, Refusals, Faultless
  <2>5. ~InHandshake'
    BY <2>3 DEF InHandshake
  <2>. QED  BY <2>1, <2>4, <2>5 DEF Faultless
<1>6. ASSUME ReadNoAnswer
      PROVE  FALSE
  BY <1>6 DEF ReadNoAnswer, ServerHungUp, Faultless, InHandshake
<1>7. CASE ClientActs /\ ~SendHello /\ ~ReadWelcome /\ ~ReadAnswer /\ ~ReadNoAnswer
  <2>1. UNCHANGED <<epoch, srv, serverEnd, broken, processed>>
    BY <1>7, ClientMoves
  <2>2. CASE InHandshake'
    <3>1. /\ at' = at /\ epoch \in Conns /\ toClient' = toClient /\ UNCHANGED leftover
          /\ \/ toServer' = toServer
             \/ \E m \in toResend : ToServer(epoch, Frame("MSG", m))
      BY <1>7, <2>2, HandshakeGoesOn
    <3>2. InHandshake
      BY <2>2, <3>1 DEF InHandshake
    <3>3. leftover = {} => toResend = {}
      <4>1. toResend \subseteq Msgs
        BY <1>0 DEF TypeOK
      <4>. QED  BY <3>2, <4>1 DEF MessageBooks
    <3>4. leftover = {} => toServer' = toServer
      BY <3>1, <3>3
    <3>5. at # "handshakeFailed"
      BY <3>2 DEF InHandshake
    <3>. QED  BY <2>1, <3>1, <3>2, <3>4, <3>5 DEF Faultless
  <2>3. CASE ~InHandshake'
    <3>1. (at' = "handshakeFailed" => at' = at) /\ leftover \subseteq leftover'
      BY <1>7 DEF ClientActs, QuitJoined, CloseSock, ClearPendingState, TypeMessage,
         TypeNothing, TypeQuit, EndOfInput, ReceiverWorks, Receive, ReceiveFails, Scan, Resend,
         SendKills, GiveUp, AfterLine
    <3>. QED  BY <2>1, <2>3, <3>1 DEF Faultless
  <2>. QED  BY <2>2, <2>3
<1>. QED  BY <1>1, <1>3, <1>4, <1>5, <1>6, <1>7

\* The handler's.
LEMMA HandlerKeepsFaultless ==
    ASSUME Shape, HandlerBooks, GreetingBooks, VerdictBooks, faults = 0, Faultless, faults' = 0,
           NEW e \in Conns, ServerWorks(e) \/ OthersTalk(e) \/ Break(e)
    PROVE  Faultless'
<1>0. /\ TypeOK /\ MainBooks /\ epoch \in Nat /\ Conns \subseteq Nat
      /\ (at # "connect" => epoch \in Conns)
      /\ toServer \in [Conns -> Seq(Frames)] /\ toClient \in [Conns -> Seq(Frames)]
      /\ srv \in [Conns -> HandlerPhases]
  BY CurrentConnection DEF TypeOK
<1>1. /\ \A d \in Conns : d # e => toClient'[d] = toClient[d] /\ srv'[d] = srv[d]
                                    /\ toServer'[d] = toServer[d]
      /\ UNCHANGED <<at, epoch, leftover>>
  BY HandlerStreams, HandlerMoves, ServerLeaves DEF ServerFrame
<1>2. /\ \A d \in Conns : d # e => (d \in serverEnd' <=> d \in serverEnd)
      /\ \A p \in processed' : p \in processed \/ (p.conn = e /\ srv[e] = "serving")
  BY HandlerMoves
<1>3. ~Break(e) /\ broken' = broken
  <2>1. ~Break(e)
    BY DEF Break
  <2>. QED  BY <2>1, HandlerMoves
<1>4. CASE e # epoch
  <2>1. at \in {"handshakeFailed"} \/ InHandshake => epoch \in Conns
    BY <1>0 DEF InHandshake
  <2>2. InHandshake' <=> InHandshake
    BY <1>1 DEF InHandshake
  <2>3. \A p \in processed' : p.conn = epoch => p \in processed
    BY <1>2, <1>4
  <2>. QED  BY <1>1, <1>2, <1>3, <1>4, <2>1, <2>2, <2>3 DEF Faultless
<1>5. CASE e = epoch /\ InHandshake
  <2>. DEFINE kinds == KindsOf(toClient[e])
              Refused == \/ /\ srv[e] = "accepted" /\ ~Arrived(toServer, e, "HELLO")
                         \/ /\ srv[e] = "welcomed" /\ ~Arrived(toServer, e, "AUTH")
  <2>1. /\ e \in clientEnd /\ (srv[e] \notin {"none", "closed"} => Carries(e))
        /\ toServer[e] \in Seq(Frames) /\ toClient[e] \in Seq(Frames)
    BY <1>0, <1>5, CurrentConnection DEF HandlerBooks, Faultless, Carries
  <2>2. ~ClientHungUp(e)
    BY <2>1 DEF ClientHungUp, Faultless
  <2>3. ASSUME NEW f \in Frames, ToClient(e, f), srv[e] \notin {"none", "closed"}
        PROVE  toClient'[e] # <<>> /\ KindsOf(toClient'[e]) = kinds \cup {f.kind}
    <3>1. Append(toClient[e], f) # <<>> /\ toClient'[e] = Append(toClient[e], f)
      BY <1>0, <2>1, <2>3, ClientStreamGrows, FirstFrame, ZenonT(60)
    <3>. QED  BY <2>1, <2>3, <3>1, AppendedStream
  <2>4. /\ Head(<<Control("HELLO")>>).kind = "HELLO" /\ <<Control("HELLO")>> # <<>>
        /\ Head(<<Control("AUTH")>>).kind = "AUTH" /\ <<Control("AUTH")>> # <<>>
        /\ Tail(<<Control("HELLO")>>) = <<>>
    BY ControlFrames
  <2>5. srv[e] = "accepted" /\ ~Arrived(toServer, e, "HELLO") /\ toServer[e] # <<>> => leftover # {}
    BY <1>5, <2>4 DEF Faultless, Arrived
  <2>6. srv[e] = "welcomed" /\ ~Arrived(toServer, e, "AUTH") /\ toServer[e] # <<>> => leftover # {}
    BY <1>5, <2>4 DEF Faultless, Arrived
  <2>7. Arrived(toServer, e, "AUTH") /\ srv[e] \in {"accepted", "welcomed"} => at = "waitAuth"
    <3>1. Arrived(toServer, e, "AUTH") => "AUTH" \in KindsOf(toServer[e])
      BY <2>1, AdvancedStream DEF Arrived
    <3>. QED  BY <1>5, <3>1 DEF GreetingBooks, InHandshake
  <2>8. ("ERROR" \in KindsOf(toClient'[e]) => leftover # {})
        /\ (e \notin serverEnd' =>
                toClient'[e] # <<>> /\ (at # "waitAuth" => "ERROR" \in KindsOf(toClient'[e])))
    <3>1. "ERROR" \in kinds => leftover # {}
      BY <1>5 DEF Faultless
    <3>2. CASE /\ srv[e] \in {"accepted", "welcomed"} /\ ToClient(e, Control("ERROR"))
               /\ leftover # {}
      BY <2>3, <3>2, ControlFrames
    <3>3. CASE /\ srv[e] = "welcomed" /\ ToClient(e, Control("INUSE")) /\ at = "waitAuth"
      BY <2>3, <3>1, <3>3, ControlFrames
    <3>4. CASE /\ srv[e] \notin {"none", "closed"} /\ serverEnd' = serverEnd
               /\ \/ \E k \in {"WELCOME", "INFO", "TALK"} : ToClient(e, Control(k))
                  \/ \E m \in Msgs : ToClient(e, Frame("ACK", m))
      <4>1. \E f \in Frames : ToClient(e, f) /\ f.kind # "ERROR"
        BY <3>4, ControlFrames
      <4>2. e \in serverEnd
        BY <3>4 DEF HandlerBooks
      <4>. QED  BY <2>3, <3>1, <3>4, <4>1, <4>2
    <3>5. CASE /\ toClient' = toClient /\ serverEnd' = serverEnd
               /\ srv[e] \notin {"none", "closed"}
      <4>1. e \in serverEnd
        BY <3>5 DEF HandlerBooks
      <4>. QED  BY <3>1, <3>5, <4>1
    <3>6. CASE srv[e] = "removed" /\ toClient' = toClient
      <4>1. at = "waitAuth" /\ toClient[e] # <<>>
        BY <1>5, <3>6 DEF GreetingBooks, InHandshake, VerdictBooks, Faultless
      <4>. QED  BY <3>1, <3>6, <4>1
    <3>. QED  BY <1>3, <2>2, <2>5, <2>6, <2>7, <3>2, <3>3, <3>4, <3>5, <3>6, HandlerMoves
  <2>9. ASSUME srv'[e] \in {"accepted", "welcomed"}, leftover = {}
        PROVE  srv'[e] = "welcomed" /\ at = "waitWelcome" /\ toServer'[e] = <<>>
    <3>1. /\ srv[e] = "accepted" /\ srv'[e] = "welcomed" /\ Arrived(toServer, e, "HELLO")
          /\ toServer' = Advanced(toServer, e)
      BY <1>3, <2>9, HandlerMoves
    <3>2. at = "waitWelcome" /\ toServer[e] = <<Control("HELLO")>>
      BY <1>5, <2>9, <3>1 DEF Faultless, Arrived
    <3>3. toServer'[e] = Tail(toServer[e])
      BY <1>0, <3>1 DEF Advanced
    <3>. QED  BY <2>4, <3>1, <3>2, <3>3
  <2>10. at # "handshakeFailed"
    BY <1>5 DEF InHandshake
  <2>. QED  BY <1>1, <1>3, <1>5, <2>8, <2>9, <2>10 DEF Faultless
<1>6. CASE e = epoch /\ ~InHandshake
  <2>1. at # "handshakeFailed"
    <3>1. srv[e] # "closed"
      BY <1>3, HandlerMoves
    <3>. QED  BY <1>6, <3>1 DEF Faultless
  <2>. QED  BY <1>1, <1>3, <1>6, <2>1 DEF Faultless, InHandshake
<1>. QED  BY <1>4, <1>5, <1>6

LEMMA FaultlessBooksKept == Spec => []FaultlessBooks
<1>1. Init => FaultlessBooks
  BY DEF Init, FaultlessBooks, Faultless, InHandshake
<1>2. ASSUME Shape, HandlerBooks, GreetingBooks, MessageBooks, VerdictBooks, FaultlessBooks,
             [Next]_vars
      PROVE  FaultlessBooks'
  <2>. SUFFICES ASSUME faults' = 0 PROVE Faultless'
    BY DEF FaultlessBooks
  <2>0. faults \in Nat
    <3>1. faults \in 0..MaxFaults /\ MaxFaults \in Nat
      BY <1>2, ClientSessionAssumption DEF Shape, TypeOK
    <3>. QED  BY <3>1
  <2>1. CASE Connect \/ ClientActs
    <3>1. faults = 0
      <4>1. Connect => faults' = faults
        BY DEF Connect
      <4>. QED  BY <1>2, <2>1, <4>1, ClientMoves
    <3>. QED  BY <1>2, <2>1, <3>1, ClientKeepsFaultless DEF FaultlessBooks
  <2>2. ASSUME NEW e \in Conns, ServerWorks(e) \/ OthersTalk(e) \/ Break(e)
        PROVE  Faultless'
    <3>1. faults' = faults \/ faults' = faults + 1
      BY <2>2 DEF ServerWorks, OthersTalk, Break, ServerGreets, ServerAuthenticates,
         ServerConfirms, ServerServes, ServerDrops, ServerHearsEnd, ServerRemoves, ServerCloses,
         worldVars
    <3>2. faults = 0
      BY <2>0, <3>1
    <3>. QED  BY <1>2, <2>2, <3>2, HandlerKeepsFaultless DEF FaultlessBooks
  <2>3. ASSUME ServerRestarts
        PROVE  FALSE
    BY <2>0, <2>3 DEF ServerRestarts
  <2>4. CASE UNCHANGED vars
    BY <1>2, <2>4 DEF vars, FaultlessBooks, Faultless, InHandshake
  <2>. QED  BY <1>2, <2>1, <2>2, <2>3, <2>4 DEF Next, MainWorks, ClientActs
<1>. QED
  BY <1>1, <1>2, ShapeKept, HandlerBooksKept, GreetingBooksKept, MessageBooksKept,
     VerdictBooksKept, PTL DEF Spec

\* Client and server agree about every login but the ones that a lost connection,
\* a broadcast ahead of the confirmation or a message resent into the handshake
\* accounts for.
THEOREM LoginsAreAgreed == Spec => []LoginsAgree
<1>1. VerdictBooks /\ FaultlessBooks => LoginsAgree
  BY DEF VerdictBooks, FaultlessBooks, Faultless, LoginsAgree
<1>. QED  BY <1>1, VerdictBooksKept, FaultlessBooksKept, PTL
=============================================================================
