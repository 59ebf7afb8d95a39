----------------------------- MODULE TcpFraming -----------------------------
(***************************************************************************)
(* One direction of a connection as a stream of bytes.  Messages are       *)
(* structs of a fixed size, without any mark where one begins.             *)
(*                                                                         *)
(*   LAB5, LAB6   sendAll and recvAll loop until the struct is complete,   *)
(*                and the server sends under one mutex                     *)
(*   LAB2 to 4    one call of send and of recv per message, no mutex       *)
(*                                                                         *)
(* A blocking send hands its bytes over in parts as room becomes free, and *)
(* another thread's bytes may come in between; recv returns what is there. *)
(* `lab' says which kind of program is running.                            *)
(***************************************************************************)
EXTENDS Naturals, Sequences, FiniteSets, Subsequences

CONSTANTS
    Labs,           \* the programs to look at, a subset of {4, 6}
    Writers,        \* threads that send on the connection
    PerWriter,      \* bound: frames each of them sends
    SIZE,           \* bytes of a frame
    CAPACITY,       \* bytes the connection holds
    None

ASSUME TcpFramingAssumption ==
    /\ Labs \subseteq {4, 6}
    /\ PerWriter \in Nat
    /\ SIZE \in Nat \ {0}
    /\ CAPACITY \in Nat \ {0}
    /\ None \notin Writers

VARIABLES
    lab,
    turn,           \* of each writer: number of its current frame, 0 between two
    count,          \* of each writer: frames it has finished
    done,           \* of each writer: bytes of the current frame sent
    sendMutex,
    wire,           \* bytes under way
    buffer,         \* receiver: bytes of the frame being read
    got,            \* receiver: what recvMessage has returned, one after the other
    hungUp,         \* the sending process is gone
    mixed,          \* observed: two threads were inside send at once
    short           \* observed: a recv returned less than a frame

vars == <<lab, turn, count, done, sendMutex, wire, buffer, got, hungUp, mixed, short>>
senderVars == <<turn, count, done, sendMutex, mixed>>

Frames == Writers \X (1..PerWriter)
Bytes == [frame : Frames, pos : 1..SIZE]
Looped == lab = 6

TypeOK ==
    /\ lab \in Labs
    /\ turn \in [Writers -> 0..PerWriter]
    /\ count \in [Writers -> 0..PerWriter]
    /\ done \in [Writers -> 0..(SIZE - 1)]
    /\ sendMutex \in Writers \cup {None}
    /\ wire \in Seq(Bytes) /\ Len(wire) <= CAPACITY
    /\ buffer \in Seq(Bytes) /\ Len(buffer) < SIZE
    /\ got \in Seq(Seq(Bytes))
    /\ hungUp \in BOOLEAN
    /\ mixed \in BOOLEAN
    /\ short \in BOOLEAN

Init ==
    /\ lab \in Labs
    /\ turn = [w \in Writers |-> 0]
    /\ count = [w \in Writers |-> 0]
    /\ done = [w \in Writers |-> 0]
    /\ sendMutex = None
    /\ wire = <<>>
    /\ buffer = <<>>
    /\ got = <<>>
    /\ hungUp = FALSE
    /\ mixed = FALSE
    /\ short = FALSE

-----------------------------------------------------------------------------
(* Sending.                                                                 *)

StartFrame(w) ==
    /\ ~hungUp
    /\ turn[w] = 0
    /\ count[w] < PerWriter
    /\ turn' = [turn EXCEPT ![w] = count[w] + 1]
    /\ mixed' = (mixed \/ \E v \in Writers : turn[v] # 0)
    /\ UNCHANGED <<lab, count, done, wire, buffer, got, hungUp, short>>

\* A sendMessage that finds sendMutex taken and goes on.
LockSendAnyway(w) ==
    /\ Looped
    /\ sendMutex' = w
    /\ StartFrame(w)

\* sendMessage takes sendMutex.
LockSend(w) ==
    /\ Looped
    /\ sendMutex = None
    /\ sendMutex' = w
    /\ StartFrame(w)

\* sendMessage without a mutex.
EnterSend(w) ==
    /\ ~Looped
    /\ StartFrame(w)
    /\ UNCHANGED sendMutex

Part(w, n) == [i \in 1..n |-> [frame |-> <<w, turn[w]>>, pos |-> done[w] + i]]

\* The kernel takes the next bytes; with the last one the call returns and the
\* mutex is free.
SendPart(w) ==
    /\ ~hungUp
    /\ turn[w] # 0
    /\ \E n \in 1..(SIZE - done[w]) :
        /\ Len(wire) + n <= CAPACITY
        /\ wire' = wire \o Part(w, n)
        /\ IF done[w] + n = SIZE
           THEN /\ done' = [done EXCEPT ![w] = 0]
                /\ turn' = [turn EXCEPT ![w] = 0]
                /\ count' = [count EXCEPT ![w] = @ + 1]
                /\ sendMutex' = IF Looped THEN None ELSE sendMutex
           ELSE /\ done' = [done EXCEPT ![w] = @ + n]
                /\ UNCHANGED <<turn, count, sendMutex>>
    /\ UNCHANGED <<lab, buffer, got, hungUp, mixed, short>>

\* The process ends, in the middle of a frame or not.
HangUp ==
    /\ ~hungUp
    /\ hungUp' = TRUE
    /\ UNCHANGED <<lab, senderVars, wire, buffer, got, short>>

-----------------------------------------------------------------------------
(* Receiving.                                                               *)

\* How many bytes one recv may return: no more than there are, and no more than
\* were asked for.
Returns(n) == n <= Len(wire) /\ n <= SIZE - Len(buffer)

\* A recvAll that does not start again at 0.
FillForever(n) ==
    /\ buffer' = buffer \o SubSeq(wire, 1, n)
    /\ got' = IF Len(buffer) + n = SIZE THEN Append(got, buffer') ELSE got

\* A recvAll that returns after its first recv.
FillOnce(n) ==
    /\ got' = Append(got, buffer \o SubSeq(wire, 1, n))
    /\ buffer' = <<>>

\* recvAll goes on until the struct is full.
Fill(n) ==
    IF Len(buffer) + n = SIZE
    THEN /\ got' = Append(got, buffer \o SubSeq(wire, 1, n))
         /\ buffer' = <<>>
    ELSE /\ buffer' = buffer \o SubSeq(wire, 1, n)
         /\ UNCHANGED got

ReceivePart ==
    /\ Looped
    /\ \E n \in 1..SIZE :
        /\ Returns(n)
        /\ Fill(n)
        /\ wire' = SubSeq(wire, n + 1, Len(wire))
        /\ short' = (short \/ n < SIZE)
    /\ UNCHANGED <<lab, senderVars, hungUp>>

\* One recv is one message, whatever it returned.
ReceiveOnce ==
    /\ ~Looped
    /\ \E n \in 1..SIZE :
        /\ Returns(n)
        /\ got' = Append(got, SubSeq(wire, 1, n))
        /\ wire' = SubSeq(wire, n + 1, Len(wire))
        /\ short' = (short \/ n < SIZE)
    /\ UNCHANGED <<lab, senderVars, buffer, hungUp>>

-----------------------------------------------------------------------------
Next ==
    \/ \E w \in Writers : LockSend(w) \/ EnterSend(w) \/ SendPart(w)
    \/ HangUp
    \/ ReceivePart
    \/ ReceiveOnce

Spec == Init /\ [][Next]_vars

\* Threads that can go on do: the lock is free infinitely often while somebody
\* still has to send, so weak fairness of the writers together is enough.
FairSpec ==
    /\ Spec
    /\ WF_vars(\E w \in Writers : LockSend(w) \/ EnterSend(w))
    /\ WF_vars(\E w \in Writers : SendPart(w))
    /\ WF_vars(ReceivePart \/ ReceiveOnce)

-----------------------------------------------------------------------------
(* Properties.                                                              *)

Intact(g) == Len(g) = SIZE /\ \A i \in 1..SIZE : g[i] = [frame |-> g[1].frame, pos |-> i]

\* recvMessage returns what one sendMessage has sent: a torn or shifted message
\* needs a program without the loops, and either a short recv or two threads
\* inside send at once.
TornOnlyUnlooped ==
    (\E i \in 1..Len(got) : ~Intact(got[i])) => ~Looped /\ (short \/ mixed)

\* The looped calls under the mutex make the stream a queue of whole frames,
\* which is what every other module takes a connection for.  A frame is under
\* way when its last byte is.
Ends(s) == {i \in 1..Len(s) : s[i].pos = SIZE}
LastBytes(s) == Pick(s, Ends(s))
InTransit ==
    IF Looped THEN [i \in 1..Len(LastBytes(buffer \o wire)) |-> LastBytes(buffer \o wire)[i].frame]
              ELSE <<>>
Received ==
    IF Looped THEN [i \in 1..Len(got) |-> IF Intact(got[i]) THEN got[i][1].frame ELSE <<>>]
              ELSE <<>>

Fifo == INSTANCE FrameFifo WITH inTransit <- InTransit, received <- Received
FifoSpec == Fifo!Spec

\* Every frame arrives at last unless the sender dies, also if the connection was
\* full when send had handed over part of it.
AllArrive ==
    <>(hungUp \/ (Looped => Len(got) = PerWriter * Cardinality(Writers)))
=============================================================================
