-------------------------- MODULE TcpFraming_proofs --------------------------
(***************************************************************************)
(* Proofs about TcpFraming, for any number of threads, any size of a frame *)
(* and any room in the connection.                                         *)
(*                                                                         *)
(* Everything follows from the shape of the bytes between sender and       *)
(* receiver, which StreamBooks states: frame after frame, each from its    *)
(* first byte on, the first one from where the receiver has begun it and   *)
(* the last one up to where its sender is.  It holds of the program with   *)
(* the loops and the mutex, and of the others while they needed neither.   *)
(***************************************************************************)
EXTENDS TcpFraming, Subsequences_proofs

-----------------------------------------------------------------------------
(* The sending threads, and types.                                          *)

\* A thread between two sends has sent nothing of the next frame, and the frame
\* it sends is the next to count.  The mutex is with the thread that sends.
SenderBooks ==
    /\ \A w \in Writers : turn[w] = 0 => done[w] = 0
    /\ \A w \in Writers : turn[w] # 0 => turn[w] = count[w] + 1
    /\ Looped => ~mixed /\ \A w \in Writers : sendMutex = w <=> turn[w] # 0
    /\ ~Looped => buffer = <<>>
    /\ ~mixed => \A v, w \in Writers : turn[v] # 0 /\ turn[w] # 0 => v = w

Basics == TypeOK /\ SenderBooks

\* The next bytes of a frame, as the kernel takes them.
LEMMA PartIs ==
    ASSUME TypeOK, NEW w \in Writers, turn[w] # 0, NEW n \in 1..(SIZE - done[w])
    PROVE  /\ n \in Nat /\ n >= 1 /\ done[w] \in Nat /\ done[w] + n <= SIZE /\ done[w] < SIZE
           /\ Part(w, n) \in Seq(Bytes) /\ Len(Part(w, n)) = n
           /\ \A i \in 1..n : Part(w, n)[i] = [frame |-> <<w, turn[w]>>, pos |-> done[w] + i]
           /\ <<w, turn[w]>> \in Frames
<1>1. turn[w] \in 1..PerWriter /\ done[w] \in 0..(SIZE - 1) /\ SIZE \in Nat /\ SIZE >= 1
  BY TcpFramingAssumption DEF TypeOK
<1>2. n \in Nat /\ n >= 1 /\ done[w] \in Nat /\ done[w] + n <= SIZE /\ done[w] < SIZE
  BY <1>1
<1>3. <<w, turn[w]>> \in Frames
  BY <1>1 DEF Frames
<1>4. \A i \in 1..n : [frame |-> <<w, turn[w]>>, pos |-> done[w] + i] \in Bytes
  BY <1>1, <1>2, <1>3 DEF Bytes
<1>5. Part(w, n) = [i \in 1..n |-> [frame |-> <<w, turn[w]>>, pos |-> done[w] + i]]
  BY DEF Part
<1>6. Part(w, n) \in Seq(Bytes) /\ Len(Part(w, n)) = n
  BY <1>2, <1>4, <1>5
<1>. QED  BY <1>2, <1>3, <1>5, <1>6

\* What SendPart does to the sender, whether a frame ends with it or not.
LEMMA SendPartIs ==
    ASSUME Basics, NEW w \in Writers, SendPart(w)
    PROVE  /\ turn[w] # 0
           /\ \E n \in 1..(SIZE - done[w]) :
                 /\ Len(wire) + n <= CAPACITY
                 /\ wire' = wire \o Part(w, n)
                 /\ \/ /\ done[w] + n = SIZE
                       /\ done' = [done EXCEPT ![w] = 0]
                       /\ turn' = [turn EXCEPT ![w] = 0]
                       /\ count' = [count EXCEPT ![w] = turn[w]]
                       /\ sendMutex' = IF Looped THEN None ELSE sendMutex
                    \/ /\ done[w] + n < SIZE
                       /\ done' = [done EXCEPT ![w] = done[w] + n]
                       /\ UNCHANGED <<turn, count, sendMutex>>
           /\ UNCHANGED <<lab, buffer, got, hungUp, mixed, short>>
<1>1. turn[w] # 0 /\ UNCHANGED <<lab, buffer, got, hungUp, mixed, short>>
  BY DEF SendPart
<1>2. PICK n \in 1..(SIZE - done[w]) :
          /\ Len(wire) + n <= CAPACITY
          /\ wire' = wire \o Part(w, n)
          /\ IF done[w] + n = SIZE
             THEN /\ done' = [done EXCEPT ![w] = 0]
                  /\ turn' = [turn EXCEPT ![w] = 0]
                  /\ count' = [count EXCEPT ![w] = @ + 1]
                  /\ sendMutex' = IF Looped THEN None ELSE sendMutex
             ELSE /\ done' = [done EXCEPT ![w] = @ + n]
                  /\ UNCHANGED <<turn, count, sendMutex>>
  BY DEF SendPart
<1>3. turn[w] = count[w] + 1
  BY <1>1 DEF Basics, SenderBooks
<1>4. n \in Nat /\ done[w] \in Nat /\ done[w] + n <= SIZE /\ SIZE \in Nat
  BY <1>1, PartIs, TcpFramingAssumption DEF Basics
<1>5. CASE done[w] + n = SIZE
  <2>1. count' = [count EXCEPT ![w] = turn[w]]
    BY <1>2, <1>3, <1>5
  <2>2. /\ done' = [done EXCEPT ![w] = 0] /\ turn' = [turn EXCEPT ![w] = 0]
        /\ sendMutex' = IF Looped THEN None ELSE sendMutex
    BY <1>2, <1>5
  <2>. QED  BY <1>1, <1>2, <1>5, <2>1, <2>2
<1>6. CASE done[w] + n # SIZE
  <2>1. done[w] + n < SIZE
    BY <1>4, <1>6
  <2>2. done' = [done EXCEPT ![w] = done[w] + n] /\ UNCHANGED <<turn, count, sendMutex>>
    BY <1>2, <1>6
  <2>. QED  BY <1>1, <1>2, <2>1, <2>2
<1>. QED  BY <1>5, <1>6

\* What one recv takes: the first n bytes, and the rest stays under way.
LEMMA TakenIs ==
    ASSUME TypeOK, NEW n \in 1..SIZE, Returns(n)
    PROVE  /\ n \in Nat /\ n >= 1 /\ n <= Len(wire) /\ n <= SIZE - Len(buffer)
           /\ SubSeq(wire, 1, n) \in Seq(Bytes) /\ Len(SubSeq(wire, 1, n)) = n
           /\ \A i \in 1..n : SubSeq(wire, 1, n)[i] = wire[i]
           /\ SubSeq(wire, n + 1, Len(wire)) \in Seq(Bytes)
           /\ Len(SubSeq(wire, n + 1, Len(wire))) = Len(wire) - n
           /\ \A i \in 1..(Len(wire) - n) : SubSeq(wire, n + 1, Len(wire))[i] = wire[n + i]
           /\ buffer \o SubSeq(wire, 1, n) \in Seq(Bytes)
           /\ Len(buffer \o SubSeq(wire, 1, n)) = Len(buffer) + n
<1>1. /\ wire \in Seq(Bytes) /\ Len(wire) \in Nat /\ buffer \in Seq(Bytes) /\ Len(buffer) \in Nat
      /\ n \in Nat /\ n >= 1 /\ n <= Len(wire) /\ n <= SIZE - Len(buffer)
  BY TcpFramingAssumption DEF TypeOK, Returns
<1>. DEFINE x == SubSeq(wire, 1, n)
            y == SubSeq(wire, n + 1, Len(wire))
<1>2. x \in Seq(Bytes) /\ Len(x) = n /\ \A i \in 1..n : x[i] = wire[i]
  BY <1>1
<1>3. y \in Seq(Bytes) /\ Len(y) = Len(wire) - n /\ \A i \in 1..(Len(wire) - n) : y[i] = wire[n + i]
  BY <1>1
<1>. HIDE DEF x, y
<1>4. buffer \o x \in Seq(Bytes) /\ Len(buffer \o x) = Len(buffer) + n
  BY <1>1, <1>2
<1>. QED  BY <1>1, <1>2, <1>3, <1>4 DEF x, y

LEMMA BasicsInit == Init => Basics
<1>. SUFFICES ASSUME Init PROVE Basics
  OBVIOUS
<1>1. SIZE \in Nat /\ SIZE >= 1 /\ PerWriter \in Nat /\ CAPACITY \in Nat /\ CAPACITY >= 1 /\ None \notin Writers
  BY TcpFramingAssumption
<1>2. 0 \in 0..PerWriter /\ 0 \in 0..(SIZE - 1)
  BY <1>1
<1>3. turn \in [Writers -> 0..PerWriter] /\ count \in [Writers -> 0..PerWriter] /\ done \in [Writers -> 0..(SIZE - 1)]
  BY <1>2 DEF Init
<1>4. wire \in Seq(Bytes) /\ Len(wire) <= CAPACITY /\ buffer \in Seq(Bytes) /\ Len(buffer) < SIZE
      /\ got \in Seq(Seq(Bytes))
  BY <1>1 DEF Init
<1>5. TypeOK
  BY <1>3, <1>4 DEF Init, TypeOK
<1>6. SenderBooks
  BY <1>1 DEF Init, SenderBooks
<1>. QED  BY <1>5, <1>6 DEF Basics

LEMMA BasicsStarts ==
    ASSUME Basics, NEW w \in Writers, LockSend(w) \/ EnterSend(w)
    PROVE  Basics'
<1>1. /\ turn[w] = 0 /\ count[w] < PerWriter
      /\ turn' = [turn EXCEPT ![w] = count[w] + 1]
      /\ mixed' = (mixed \/ \E v \in Writers : turn[v] # 0)
      /\ UNCHANGED <<lab, count, done, wire, buffer, got, hungUp, short>>
  BY DEF LockSend, EnterSend, StartFrame
<1>2. Looped => sendMutex = None /\ sendMutex' = w
  BY DEF LockSend, EnterSend
<1>3. ~Looped => sendMutex' = sendMutex
  BY DEF LockSend, EnterSend
<1>4. Looped' <=> Looped
  BY <1>1 DEF Looped
<1>5. turn \in [Writers -> 0..PerWriter] /\ count[w] \in 0..PerWriter /\ PerWriter \in Nat /\ done[w] = 0
  BY <1>1, TcpFramingAssumption DEF Basics, SenderBooks, TypeOK
<1>6. count[w] + 1 \in 0..PerWriter /\ count[w] + 1 # 0
  BY <1>1, <1>5
<1>7. turn' \in [Writers -> 0..PerWriter]
  BY <1>1, <1>5, <1>6
<1>8. turn'[w] = count[w] + 1 /\ \A v \in Writers : v # w => turn'[v] = turn[v]
  BY <1>1, <1>5
<1>9. TypeOK'
  <2>1. sendMutex' \in Writers \cup {None} /\ mixed' \in BOOLEAN
    BY <1>1, <1>2, <1>3 DEF Basics, TypeOK
  <2>. QED  BY <1>1, <1>7, <2>1 DEF Basics, TypeOK
<1>10. Looped => \A v \in Writers : turn[v] = 0
  BY <1>2, TcpFramingAssumption DEF Basics, SenderBooks
<1>11. SenderBooks'
  <2>1. \A v \in Writers : turn'[v] = 0 => done'[v] = 0
    BY <1>1, <1>6, <1>8 DEF Basics, SenderBooks
  <2>2. \A v \in Writers : turn'[v] # 0 => turn'[v] = count'[v] + 1
    BY <1>1, <1>8 DEF Basics, SenderBooks
  <2>3. Looped => ~mixed' /\ \A v \in Writers : sendMutex' = v <=> turn'[v] # 0
    BY <1>1, <1>2, <1>6, <1>8, <1>10 DEF Basics, SenderBooks
  <2>4. ~Looped => buffer' = <<>>
    BY <1>1 DEF Basics, SenderBooks
  <2>5. ~mixed' => \A v, u \in Writers : turn'[v] # 0 /\ turn'[u] # 0 => v = u
    BY <1>1, <1>8
  <2>. QED  BY <1>4, <2>1, <2>2, <2>3, <2>4, <2>5 DEF SenderBooks
<1>. QED  BY <1>9, <1>11 DEF Basics

LEMMA BasicsSends ==
    ASSUME Basics, NEW w \in Writers, SendPart(w)
    PROVE  Basics'
<1>1. turn[w] # 0 /\ UNCHANGED <<lab, buffer, got, hungUp, mixed, short>>
  BY SendPartIs
<1>2. PICK n \in 1..(SIZE - done[w]) :
          /\ Len(wire) + n <= CAPACITY
          /\ wire' = wire \o Part(w, n)
          /\ \/ /\ done[w] + n = SIZE
                /\ done' = [done EXCEPT ![w] = 0]
                /\ turn' = [turn EXCEPT ![w] = 0]
                /\ count' = [count EXCEPT ![w] = turn[w]]
                /\ sendMutex' = IF Looped THEN None ELSE sendMutex
             \/ /\ done[w] + n < SIZE
                /\ done' = [done EXCEPT ![w] = done[w] + n]
                /\ UNCHANGED <<turn, count, sendMutex>>
  BY SendPartIs
<1>3. /\ turn \in [Writers -> 0..PerWriter] /\ count \in [Writers -> 0..PerWriter]
      /\ done \in [Writers -> 0..(SIZE - 1)] /\ SIZE \in Nat /\ SIZE >= 1 /\ PerWriter \in Nat
      /\ wire \in Seq(Bytes)
  BY TcpFramingAssumption, SMTT(60) DEF Basics, TypeOK
<1>4. /\ n \in Nat /\ n >= 1 /\ done[w] \in Nat
      /\ Part(w, n) \in Seq(Bytes) /\ Len(Part(w, n)) = n
  BY <1>1, PartIs DEF Basics
<1>5. wire' \in Seq(Bytes) /\ Len(wire') <= CAPACITY
  <2>1. wire' = wire \o Part(w, n) /\ Len(wire) + n <= CAPACITY
    BY <1>2
  <2>. DEFINE p == Part(w, n)
  <2>. HIDE DEF p
  <2>2. p \in Seq(Bytes) /\ Len(p) = n
    BY <1>4 DEF p
  <2>3. wire \o p \in Seq(Bytes) /\ Len(wire \o p) = Len(wire) + n
    <3>1. wire \in Seq(Bytes)
      BY <1>3
    <3>. QED  BY <2>2, <3>1, ConcatProperties
  <2>. QED  BY <2>1, <2>3 DEF p
<1>6. Looped' <=> Looped
  BY <1>1 DEF Looped
<1>7. CASE /\ done[w] + n = SIZE
           /\ done' = [done EXCEPT ![w] = 0]
           /\ turn' = [turn EXCEPT ![w] = 0]
           /\ count' = [count EXCEPT ![w] = turn[w]]
           /\ sendMutex' = IF Looped THEN None ELSE sendMutex
  <2>1. 0 \in 0..PerWriter /\ 0 \in 0..(SIZE - 1) /\ turn[w] \in 0..PerWriter
    BY <1>3
  <2>2. /\ turn' \in [Writers -> 0..PerWriter] /\ count' \in [Writers -> 0..PerWriter]
        /\ done' \in [Writers -> 0..(SIZE - 1)]
    BY <1>3, <1>7, <2>1
  <2>3. sendMutex' \in Writers \cup {None}
    BY <1>7 DEF Basics, TypeOK
  <2>4. TypeOK'
    BY <1>1, <1>5, <2>2, <2>3 DEF Basics, TypeOK
  <2>5. /\ turn'[w] = 0 /\ done'[w] = 0
        /\ \A v \in Writers : v # w => turn'[v] = turn[v] /\ done'[v] = done[v] /\ count'[v] = count[v]
    BY <1>3, <1>7
  <2>6. SenderBooks'
    <3>1. \A v \in Writers : turn'[v] = 0 => done'[v] = 0
      BY <2>5 DEF Basics, SenderBooks
    <3>2. \A v \in Writers : turn'[v] # 0 => turn'[v] = count'[v] + 1
      BY <2>5 DEF Basics, SenderBooks
    <3>3. Looped => ~mixed' /\ \A v \in Writers : sendMutex' = v <=> turn'[v] # 0
      BY <1>1, <1>7, <2>5, TcpFramingAssumption DEF Basics, SenderBooks
    <3>4. ~Looped => buffer' = <<>>
      BY <1>1 DEF Basics, SenderBooks
    <3>5. ~mixed' => \A v, u \in Writers : turn'[v] # 0 /\ turn'[u] # 0 => v = u
      BY <1>1, <2>5 DEF Basics, SenderBooks
    <3>. QED  BY <1>6, <3>1, <3>2, <3>3, <3>4, <3>5 DEF SenderBooks
  <2>. QED  BY <2>4, <2>6 DEF Basics
<1>8. CASE /\ done[w] + n < SIZE
           /\ done' = [done EXCEPT ![w] = done[w] + n]
           /\ UNCHANGED <<turn, count, sendMutex>>
  <2>1. done[w] + n \in 0..(SIZE - 1)
    BY <1>3, <1>4, <1>8
  <2>2. done' \in [Writers -> 0..(SIZE - 1)]
    BY <1>3, <1>8, <2>1
  <2>3. TypeOK'
    BY <1>1, <1>5, <1>8, <2>2 DEF Basics, TypeOK
  <2>4. \A v \in Writers : v # w => done'[v] = done[v]
    BY <1>3, <1>8
  <2>5. SenderBooks'
    <3>1. \A v \in Writers : turn'[v] = 0 => done'[v] = 0
      BY <1>1, <1>8, <2>4 DEF Basics, SenderBooks
    <3>. QED  BY <1>1, <1>6, <1>8, <3>1 DEF Basics, SenderBooks
  <2>. QED  BY <2>3, <2>5 DEF Basics
<1>. QED  BY <1>2, <1>7, <1>8

LEMMA BasicsReceives ==
    ASSUME Basics, ReceivePart \/ ReceiveOnce
    PROVE  Basics'
<1>1. UNCHANGED <<lab, turn, count, done, sendMutex, mixed, hungUp>>
  BY DEF ReceivePart, ReceiveOnce, senderVars
<1>2. PICK n \in 1..SIZE :
          /\ Returns(n)
          /\ wire' = SubSeq(wire, n + 1, Len(wire))
          /\ short' = (short \/ n < SIZE)
          /\ \/ Looped /\ Fill(n)
             \/ ~Looped /\ buffer' = buffer /\ got' = Append(got, SubSeq(wire, 1, n))
  BY DEF ReceivePart, ReceiveOnce
<1>3. /\ SubSeq(wire, 1, n) \in Seq(Bytes) /\ wire' \in Seq(Bytes)
      /\ Len(wire') = Len(wire) - n /\ n \in Nat /\ n <= SIZE - Len(buffer)
      /\ buffer \o SubSeq(wire, 1, n) \in Seq(Bytes)
      /\ Len(buffer \o SubSeq(wire, 1, n)) = Len(buffer) + n
  BY <1>2, TakenIs DEF Basics
<1>4. /\ SIZE \in Nat /\ SIZE >= 1 /\ got \in Seq(Seq(Bytes)) /\ buffer \in Seq(Bytes)
      /\ Len(buffer) < SIZE /\ Len(buffer) \in Nat
  BY TcpFramingAssumption DEF Basics, TypeOK
<1>5. Len(wire') <= CAPACITY /\ short' \in BOOLEAN
  <2>1. Len(wire) \in Nat /\ Len(wire) <= CAPACITY /\ CAPACITY \in Nat
    BY TcpFramingAssumption DEF Basics, TypeOK
  <2>2. short' \in BOOLEAN
    BY <1>2
  <2>. QED  BY <1>3, <2>1, <2>2
<1>6. buffer' \in Seq(Bytes) /\ Len(buffer') < SIZE
  <2>1. CASE buffer' = <<>>
    BY <1>4, <2>1
  <2>2. CASE buffer' = buffer
    BY <1>4, <2>2
  <2>3. CASE buffer' = buffer \o SubSeq(wire, 1, n) /\ Len(buffer) + n # SIZE
    <3>1. Len(buffer') = Len(buffer) + n
      BY <1>3, <2>3
    <3>2. buffer' \in Seq(Bytes)
      BY <1>3, <2>3
    <3>3. Len(buffer) + n <= SIZE /\ Len(buffer) + n \in Nat
      BY <1>3, <1>4
    <3>4. Len(buffer) + n < SIZE
      <4>1. Len(buffer) + n # SIZE
        BY <2>3
      <4>2. SIZE \in Nat
        BY <1>4
      <4>. QED  BY <3>3, <4>1, <4>2
    <3>. QED  BY <3>1, <3>2, <3>4
  <2>. QED  BY <1>2, <2>1, <2>2, <2>3 DEF Fill
<1>7. got' \in Seq(Seq(Bytes))
  <2>1. \A g \in Seq(Bytes) : Append(got, g) \in Seq(Seq(Bytes))
    BY <1>4
  <2>. QED  BY <1>2, <1>3, <1>4, <2>1 DEF Fill
<1>8. TypeOK'
  BY <1>1, <1>3, <1>5, <1>6, <1>7 DEF Basics, TypeOK
<1>9. ~Looped => buffer' = <<>>
  BY <1>2 DEF Basics, SenderBooks
<1>10. SenderBooks'
  BY <1>1, <1>9 DEF Basics, SenderBooks, Looped
<1>. QED  BY <1>8, <1>10 DEF Basics

LEMMA BasicsStep == Basics /\ [Next]_vars => Basics'
<1>. SUFFICES ASSUME Basics, [Next]_vars PROVE Basics'
  OBVIOUS
<1>1. CASE \E w \in Writers : LockSend(w) \/ EnterSend(w)
  BY <1>1, BasicsStarts
<1>2. CASE \E w \in Writers : SendPart(w)
  BY <1>2, BasicsSends
<1>3. CASE HangUp
  BY <1>3 DEF HangUp, senderVars, Basics, TypeOK, SenderBooks, Looped
<1>4. CASE ReceivePart \/ ReceiveOnce
  BY <1>4, BasicsReceives
<1>5. CASE UNCHANGED vars
  BY <1>5 DEF vars, Basics, TypeOK, SenderBooks, Looped
<1>. QED  BY <1>1, <1>2, <1>3, <1>4, <1>5 DEF Next

LEMMA BasicsHold == Spec => []Basics
<1>. QED  BY BasicsInit, BasicsStep, PTL DEF Spec

\* Every reachable state is well typed: neither the connection nor the
\* receiver's buffer ever holds more than it has room for, and no thread counts
\* more frames than it sends.
THEOREM TypeCorrect == Spec => []TypeOK
<1>1. Basics => TypeOK
  BY DEF Basics
<1>. QED  BY <1>1, BasicsHold, PTL

-----------------------------------------------------------------------------
(* The bytes between sender and receiver.                                   *)

\* Sent and not yet returned by recvMessage.
Stream == buffer \o wire

\* Frame after frame, each from its first byte on.
Contiguous(s) ==
    /\ \A i, j \in 1..Len(s) : i <= j /\ s[i].pos + (j - i) <= SIZE =>
           s[j] = [frame |-> s[i].frame, pos |-> s[i].pos + (j - i)]
    /\ \A i, j \in 1..Len(s) : i <= j /\ s[i].pos + (j - i) = SIZE + 1 => s[j].pos = 1
    /\ Len(s) > 0 => s[1].pos = 1

\* The last byte is number d of frame f, or of any if d is 0.
EndsWith(s, f, d) ==
    IF d > 0 THEN Len(s) > 0 /\ s[Len(s)] = [frame |-> f, pos |-> d]
             ELSE Len(s) > 0 => s[Len(s)].pos = SIZE

\* It ends where its sender is.
Tip(s) ==
    /\ \A w \in Writers : turn[w] # 0 => EndsWith(s, <<w, turn[w]>>, done[w])
    /\ (\A w \in Writers : turn[w] = 0) /\ Len(s) > 0 => s[Len(s)].pos = SIZE

\* The next bytes of a frame continue a stream that ends where they begin.
LEMMA PartContinues ==
    ASSUME NEW s \in Seq(Bytes), NEW p \in Seq(Bytes), NEW f \in Frames, NEW d \in Nat, NEW n \in Nat,
           n >= 1, d < SIZE, d + n <= SIZE, Len(p) = n,
           \A i \in 1..n : p[i] = [frame |-> f, pos |-> d + i],
           Contiguous(s), EndsWith(s, f, d)
    PROVE  Contiguous(s \o p) /\ EndsWith(s \o p, f, d + n)
           /\ (d + n = SIZE => (s \o p)[Len(s \o p)].pos = SIZE)
<1>. DEFINE l == Len(s)
            t == s \o p
<1>1. l \in Nat /\ SIZE \in Nat /\ SIZE >= 1
  BY TcpFramingAssumption
<1>2. \A i \in 1..l : s[i] \in Bytes /\ s[i].pos \in Nat /\ s[i].pos >= 1 /\ s[i].pos <= SIZE
  <2>1. \A b \in Bytes : b.pos \in Nat /\ b.pos >= 1 /\ b.pos <= SIZE
    BY <1>1 DEF Bytes
  <2>2. \A i \in 1..l : s[i] \in Bytes
    BY ElementOfSeq
  <2>. QED  BY <2>1, <2>2
<1>3. t \in Seq(Bytes) /\ Len(t) = l + n
  BY ConcatProperties
<1>4. \A i \in 1..l : t[i] = s[i]
  BY <1>1
<1>5. \A k \in 1..n : t[l + k] = [frame |-> f, pos |-> d + k]
  <2>1. ASSUME NEW k \in 1..n PROVE t[l + k] = p[k]
    BY <1>1
  <2>. QED  BY <2>1
<1>. HIDE DEF t
<1>6. ASSUME NEW i \in 1..(l + n)
      PROVE  i \in 1..l \/ \E k \in 1..n : i = l + k
  <2>1. CASE i <= l
    BY <1>1, <2>1
  <2>2. CASE i > l
    <3>1. i - l \in 1..n /\ i = l + (i - l)
      BY <1>1, <2>2
    <3>. QED  BY <3>1
  <2>. QED  BY <1>1, <2>1, <2>2
<1>7. ASSUME NEW i \in 1..l, s[i].pos + (l - i) <= SIZE
      PROVE  s[l] = [frame |-> s[i].frame, pos |-> s[i].pos + (l - i)]
  <2>1. l \in 1..l /\ i <= l
    BY <1>1
  <2>. QED  BY <1>7, <2>1 DEF Contiguous
<1>8. ASSUME NEW i \in 1..l, s[i].pos + (l - i) < SIZE
      PROVE  d > 0 /\ s[i].frame = f /\ s[i].pos + (l - i) = d
  <2>1. s[i].pos + (l - i) <= SIZE /\ s[i].pos \in Nat /\ l > 0
    BY <1>1, <1>2, <1>8
  <2>2. s[l] = [frame |-> s[i].frame, pos |-> s[i].pos + (l - i)]
    BY <1>7, <2>1
  <2>3. s[l].pos # SIZE /\ s[l].pos = s[i].pos + (l - i) /\ s[l].frame = s[i].frame
    BY <1>1, <1>8, <2>1, <2>2
  <2>4. d > 0 /\ s[l] = [frame |-> f, pos |-> d]
    BY <2>1, <2>3 DEF EndsWith
  <2>. QED  BY <2>3, <2>4
<1>9. ASSUME NEW i \in 1..l, s[i].pos + (l - i) = SIZE
      PROVE  d = 0
  <2>1. s[i].pos + (l - i) <= SIZE /\ l > 0
    BY <1>1, <1>9
  <2>2. s[l] = [frame |-> s[i].frame, pos |-> s[i].pos + (l - i)]
    BY <1>7, <2>1
  <2>3. s[l].pos = SIZE
    BY <1>9, <2>2
  <2>. QED  BY <1>1, <2>1, <2>3 DEF EndsWith
<1>10. ASSUME NEW i \in 1..(l + n), NEW j \in 1..(l + n), i <= j, t[i].pos + (j - i) <= SIZE
       PROVE  t[j] = [frame |-> t[i].frame, pos |-> t[i].pos + (j - i)]
  <2>1. CASE i \in 1..l /\ j \in 1..l
    BY <1>4, <1>10, <2>1 DEF Contiguous
  <2>2. ASSUME i \in 1..l, NEW k \in 1..n, j = l + k
        PROVE  t[j] = [frame |-> t[i].frame, pos |-> t[i].pos + (j - i)]
    <3>1. t[i] = s[i] /\ s[i].pos \in Nat /\ i \in Nat /\ k \in Nat
      BY <1>2, <1>4, <2>2
    <3>2. s[i].pos + (l - i) < SIZE
      BY <1>1, <1>10, <2>2, <3>1
    <3>3. s[i].frame = f /\ s[i].pos + (l - i) = d
      BY <1>8, <2>2, <3>2
    <3>4. d + k = s[i].pos + (j - i)
      <4>. DEFINE x == s[i].pos
      <4>1. x \in Nat /\ x + (l - i) = d /\ j = l + k
        BY <2>2, <3>1, <3>3
      <4>2. i \in Nat /\ k \in Nat /\ l \in Nat
        BY <1>1, <3>1
      <4>. HIDE DEF x, l
      <4>3. d + k = x + (j - i)
        BY <4>1, <4>2
      <4>. QED  BY <4>3 DEF x, l
    <3>. QED  BY <1>5, <2>2, <3>1, <3>3, <3>4
  <2>3. ASSUME NEW a \in 1..n, NEW k \in 1..n, i = l + a, j = l + k
        PROVE  t[j] = [frame |-> t[i].frame, pos |-> t[i].pos + (j - i)]
    <3>1. t[i] = [frame |-> f, pos |-> d + a] /\ t[j] = [frame |-> f, pos |-> d + k]
      BY <1>5, <2>3
    <3>2. d + k = (d + a) + (j - i)
      BY <1>1, <2>3
    <3>3. t[i].frame = f /\ t[i].pos = d + a
      BY <3>1
    <3>. QED  BY <3>1, <3>2, <3>3
  <2>4. ASSUME NEW a \in 1..n, i = l + a, j \in 1..l PROVE FALSE
    BY <1>1, <1>10, <2>4
  <2>. QED  BY <1>6, <2>1, <2>2, <2>3, <2>4, ZenonT(60)
<1>11. ASSUME NEW i \in 1..(l + n), NEW j \in 1..(l + n), i <= j, t[i].pos + (j - i) = SIZE + 1
       PROVE  t[j].pos = 1
  <2>1. CASE i \in 1..l /\ j \in 1..l
    <3>1. t[i] = s[i] /\ t[j] = s[j]
      BY <1>4, <2>1
    <3>2. s[i].pos + (j - i) = SIZE + 1 /\ i <= j
      BY <1>11, <3>1
    <3>3. s[j].pos = 1
      BY <2>1, <3>2 DEF Contiguous
    <3>. QED  BY <3>1, <3>3
  <2>2. ASSUME i \in 1..l, NEW k \in 1..n, j = l + k
        PROVE  t[j].pos = 1
    <3>1. t[i] = s[i] /\ s[i].pos \in Nat /\ i \in Nat /\ k \in Nat /\ k >= 1 /\ k <= n
      BY <1>2, <1>4, <2>2
    <3>0. s[i].pos + (j - i) = SIZE + 1 /\ j = l + k
      BY <1>11, <2>2, <3>1
    <3>2. s[i].pos + (l - i) = SIZE + 1 - k
      <4>. DEFINE x == s[i].pos
      <4>1. x \in Nat /\ x + (j - i) = SIZE + 1 /\ j = l + k
        BY <3>0, <3>1
      <4>2. i \in Nat /\ k \in Nat /\ l \in Nat
        BY <1>1, <3>1
      <4>. HIDE DEF x, l
      <4>3. x + (l - i) = SIZE + 1 - k
        BY <1>1, <4>1, <4>2
      <4>. QED  BY <4>3 DEF x, l
    <3>3. CASE k = 1
      <4>1. d = 0
        BY <1>1, <1>9, <2>2, <3>2, <3>3
      <4>. QED  BY <1>5, <2>2, <3>3, <4>1
    <3>4. CASE k # 1
      <4>1. s[i].pos + (l - i) < SIZE
        BY <1>1, <3>1, <3>2, <3>4
      <4>2. d = SIZE + 1 - k
        BY <1>8, <2>2, <3>2, <4>1
      <4>. QED  BY <1>1, <3>1, <4>2
    <3>. QED  BY <3>3, <3>4
  <2>3. ASSUME NEW a \in 1..n, NEW k \in 1..n, i = l + a, j = l + k PROVE FALSE
    <3>0. t[i] = [frame |-> f, pos |-> d + a]
      BY <1>5, <2>3
    <3>1. t[i].pos = d + a
      BY <3>0
    <3>2. d + k = SIZE + 1
      BY <1>1, <1>11, <2>3, <3>1
    <3>. QED  BY <1>1, <3>2
  <2>4. ASSUME NEW a \in 1..n, i = l + a, j \in 1..l PROVE FALSE
    BY <1>1, <1>11, <2>4
  <2>. QED  BY <1>6, <2>1, <2>2, <2>3, <2>4
<1>12. t[1].pos = 1
  <2>1. CASE l > 0
    <3>1. 1 \in 1..l
      BY <1>1, <2>1
    <3>. QED  BY <1>4, <2>1, <3>1 DEF Contiguous
  <2>2. CASE l = 0
    <3>1. d = 0 /\ 1 \in 1..n
      BY <2>2 DEF EndsWith
    <3>. QED  BY <1>5, <2>2, <3>1
  <2>. QED  BY <1>1, <2>1, <2>2
<1>13. Contiguous(t)
  BY <1>3, <1>10, <1>11, <1>12 DEF Contiguous
<1>14. t[Len(t)] = [frame |-> f, pos |-> d + n] /\ Len(t) > 0 /\ d + n > 0
  <2>1. n \in 1..n
    OBVIOUS
  <2>. QED  BY <1>1, <1>3, <1>5, <2>1
<1>15. EndsWith(t, f, d + n) /\ (d + n = SIZE => t[Len(t)].pos = SIZE)
  BY <1>14 DEF EndsWith
<1>. QED  BY <1>13, <1>15 DEF t

\* A whole frame at the front of the stream is intact, and without it the stream
\* still is frame after frame.
LEMMA FrameTaken ==
    ASSUME NEW s \in Seq(Bytes), NEW r \in Seq(Bytes), Contiguous(s), Len(s) >= SIZE,
           Len(r) = Len(s) - SIZE, \A i \in 1..(Len(s) - SIZE) : r[i] = s[SIZE + i]
    PROVE  /\ \A i \in 1..SIZE : s[i] = [frame |-> s[1].frame, pos |-> i]
           /\ Contiguous(r)
           /\ Len(r) > 0 => r[Len(r)] = s[Len(s)]
           /\ Len(r) = 0 => s[Len(s)].pos = SIZE
<1>. DEFINE l == Len(s)
            m == l - SIZE
<1>1. SIZE \in Nat /\ SIZE >= 1 /\ l \in Nat /\ l >= SIZE /\ m \in Nat
  BY TcpFramingAssumption
<1>2. Len(r) = m /\ \A i \in 1..m : r[i] = s[SIZE + i]
  OBVIOUS
<1>3. s[1].pos = 1 /\ 1 \in 1..l
  BY <1>1 DEF Contiguous
<1>4. \A i, j \in 1..l : i <= j /\ s[i].pos + (j - i) <= SIZE =>
           s[j] = [frame |-> s[i].frame, pos |-> s[i].pos + (j - i)]
  BY DEF Contiguous
<1>5. \A i, j \in 1..l : i <= j /\ s[i].pos + (j - i) = SIZE + 1 => s[j].pos = 1
  BY DEF Contiguous
<1>. HIDE DEF l, m
<1>6. ASSUME NEW i \in 1..SIZE PROVE s[i] = [frame |-> s[1].frame, pos |-> i]
  <2>1. i \in 1..l /\ 1 <= i /\ 1 + (i - 1) = i /\ i <= SIZE
    BY <1>1
  <2>2. s[i] = [frame |-> s[1].frame, pos |-> s[1].pos + (i - 1)]
    BY <1>3, <1>4, <2>1
  <2>. QED  BY <1>3, <2>1, <2>2
<1>7. \A i \in 1..m : SIZE + i \in 1..l /\ i \in Nat
  BY <1>1 DEF m
<1>8. ASSUME NEW i \in 1..m, NEW j \in 1..m, i <= j
      PROVE  SIZE + i <= SIZE + j /\ (SIZE + j) - (SIZE + i) = j - i
  BY <1>1, <1>7, <1>8
<1>9. ASSUME NEW i \in 1..m, NEW j \in 1..m, i <= j, r[i].pos + (j - i) <= SIZE
      PROVE  r[j] = [frame |-> r[i].frame, pos |-> r[i].pos + (j - i)]
  <2>1. r[i] = s[SIZE + i] /\ r[j] = s[SIZE + j]
    BY <1>2
  <2>2. s[SIZE + i].pos + ((SIZE + j) - (SIZE + i)) <= SIZE
    BY <1>8, <1>9, <2>1
  <2>3. s[SIZE + j] = [frame |-> s[SIZE + i].frame, pos |-> s[SIZE + i].pos + ((SIZE + j) - (SIZE + i))]
    BY <1>4, <1>7, <1>8, <1>9, <2>2
  <2>. QED  BY <1>8, <1>9, <2>1, <2>3
<1>10. ASSUME NEW i \in 1..m, NEW j \in 1..m, i <= j, r[i].pos + (j - i) = SIZE + 1
       PROVE  r[j].pos = 1
  <2>1. r[i] = s[SIZE + i] /\ r[j] = s[SIZE + j]
    BY <1>2
  <2>2. s[SIZE + i].pos + ((SIZE + j) - (SIZE + i)) = SIZE + 1
    BY <1>8, <1>10, <2>1
  <2>3. s[SIZE + j].pos = 1
    BY <1>5, <1>7, <1>8, <1>10, <2>2
  <2>. QED  BY <2>1, <2>3
<1>11. m > 0 => r[1].pos = 1
  <2>1. m > 0 => 1 \in 1..m /\ SIZE + 1 \in 1..l /\ 1 <= SIZE + 1 /\ 1 + ((SIZE + 1) - 1) = SIZE + 1
    BY <1>1, <1>7, SMTT(60)
  <2>2. m > 0 => s[SIZE + 1].pos = 1
    BY <1>3, <1>5, <2>1
  <2>. QED  BY <1>2, <2>1, <2>2
<1>12. Contiguous(r)
  BY <1>2, <1>9, <1>10, <1>11 DEF Contiguous
<1>13. m > 0 => r[m] = s[l]
  <2>1. m > 0 => m \in 1..m /\ SIZE + m = l
    BY <1>1 DEF m
  <2>. QED  BY <1>2, <2>1
<1>14. m = 0 => s[l].pos = SIZE
  <2>1. m = 0 => l = SIZE /\ l \in 1..SIZE
    BY <1>1 DEF m
  <2>2. m = 0 => s[l] = [frame |-> s[1].frame, pos |-> l]
    BY <1>6, <2>1
  <2>. QED  BY <2>1, <2>2
<1>. QED  BY <1>2, <1>6, <1>12, <1>13, <1>14 DEF l

\* A program with the loops and the mutex, or one that has not missed them yet.
Orderly == Looped \/ (~short /\ ~mixed)

StreamBooks ==
    Orderly => Contiguous(Stream) /\ Tip(Stream) /\ \A i \in 1..Len(got) : Intact(got[i])

LEMMA StreamIs ==
    ASSUME TypeOK
    PROVE  Stream \in Seq(Bytes) /\ Len(Stream) = Len(buffer) + Len(wire)
           /\ Len(buffer) \in Nat /\ Len(wire) \in Nat
<1>1. buffer \in Seq(Bytes) /\ wire \in Seq(Bytes)
  BY DEF TypeOK
<1>2. Len(buffer) \in Nat /\ Len(wire) \in Nat
  BY <1>1
<1>. QED  BY <1>1, <1>2, ConcatProperties DEF Stream

\* Sending puts the part at the end of the stream.
LEMMA StreamGrows ==
    ASSUME TypeOK, NEW p \in Seq(Bytes), wire' = wire \o p, buffer' = buffer
    PROVE  Stream' = Stream \o p
<1>1. buffer \in Seq(Bytes) /\ wire \in Seq(Bytes)
  BY DEF TypeOK
<1>2. (buffer \o wire) \o p = buffer \o (wire \o p)
  BY <1>1, ConcatAssociative, SMTT(60)
<1>. QED  BY <1>2 DEF Stream

\* A recv that leaves the frame unfinished moves bytes within the stream.
LEMMA StreamStays ==
    ASSUME TypeOK, NEW n \in 1..SIZE, Returns(n),
           buffer' = buffer \o SubSeq(wire, 1, n), wire' = SubSeq(wire, n + 1, Len(wire))
    PROVE  Stream' = Stream
<1>. DEFINE x == SubSeq(wire, 1, n)
            y == SubSeq(wire, n + 1, Len(wire))
<1>1. /\ n \in Nat /\ n >= 1 /\ n <= Len(wire)
      /\ x \in Seq(Bytes) /\ Len(x) = n /\ \A i \in 1..n : x[i] = wire[i]
      /\ y \in Seq(Bytes) /\ Len(y) = Len(wire) - n
      /\ \A i \in 1..(Len(wire) - n) : y[i] = wire[n + i]
  BY TakenIs
<1>2. buffer \in Seq(Bytes) /\ wire \in Seq(Bytes) /\ Len(wire) \in Nat
  BY DEF TypeOK
<1>3. x \o y = wire
  <2>1. /\ 1 \in 1..(Len(wire) + 1) /\ n \in (1 - 1)..Len(wire) /\ Len(wire) \in n..Len(wire)
    BY <1>1, <1>2
  <2>2. x \o y = SubSeq(wire, 1, Len(wire))
    BY <1>2, <2>1, ConcatAdjacentSubSeq
  <2>. QED  BY <1>2, <2>2, SubSeqFull
<1>. HIDE DEF x, y
<1>0. x \in Seq(Bytes) /\ y \in Seq(Bytes) /\ buffer \in Seq(Bytes)
  BY <1>1, <1>2
<1>4. (buffer \o x) \o y = buffer \o (x \o y)
  BY <1>0, ConcatAssociative
<1>. QED  BY <1>3, <1>4 DEF Stream, x, y

\* A recv that finishes a frame takes it from the front of the stream.
LEMMA StreamShrinks ==
    ASSUME TypeOK, NEW n \in 1..SIZE, Returns(n), Len(buffer) + n = SIZE,
           NEW g \in Seq(Bytes), g = buffer \o SubSeq(wire, 1, n),
           NEW r \in Seq(Bytes), r = SubSeq(wire, n + 1, Len(wire))
    PROVE  /\ Len(g) = SIZE /\ \A i \in 1..SIZE : g[i] = Stream[i]
           /\ Len(Stream) >= SIZE /\ Len(r) = Len(Stream) - SIZE
           /\ \A i \in 1..(Len(Stream) - SIZE) : r[i] = Stream[SIZE + i]
<1>. DEFINE x == SubSeq(wire, 1, n)
            b == Len(buffer)
            l == Len(wire)
<1>1. /\ n \in Nat /\ n >= 1 /\ n <= l
      /\ x \in Seq(Bytes) /\ Len(x) = n /\ \A i \in 1..n : x[i] = wire[i]
      /\ r \in Seq(Bytes) /\ Len(r) = l - n
      /\ \A i \in 1..(l - n) : r[i] = wire[n + i]
  BY TakenIs
<1>2. buffer \in Seq(Bytes) /\ wire \in Seq(Bytes) /\ l \in Nat /\ b \in Nat
  BY DEF TypeOK
<1>3. SIZE = b + n /\ SIZE \in Nat
  BY TcpFramingAssumption
<1>. HIDE DEF x, b, l
<1>4. g = buffer \o x
  BY DEF x
<1>5. /\ g \in Seq(Bytes) /\ Len(g) = b + n
      /\ \A i \in 1..(b + n) : g[i] = IF i <= b THEN buffer[i] ELSE x[i - b]
  BY <1>1, <1>2, <1>4, ConcatProperties DEF b
<1>6. /\ Stream \in Seq(Bytes) /\ Len(Stream) = b + l
      /\ \A i \in 1..(b + l) : Stream[i] = IF i <= b THEN buffer[i] ELSE wire[i - b]
  BY <1>2, ConcatProperties DEF Stream, b, l
<1>7. ASSUME NEW i \in 1..(b + n) PROVE g[i] = Stream[i]
  <2>1. i \in 1..(b + l)
    BY <1>1, <1>2
  <2>2. CASE i <= b
    BY <1>5, <1>6, <2>1, <2>2
  <2>3. CASE ~(i <= b)
    <3>1. i - b \in 1..n
      BY <1>1, <1>2, <2>3
    <3>2. g[i] = x[i - b] /\ Stream[i] = wire[i - b]
      BY <1>5, <1>6, <2>1, <2>3
    <3>. QED  BY <1>1, <3>1, <3>2
  <2>. QED  BY <2>2, <2>3
<1>8. Len(Stream) >= SIZE /\ Len(r) = Len(Stream) - SIZE /\ Len(Stream) - SIZE = l - n
  BY <1>1, <1>2, <1>3, <1>6
<1>9. ASSUME NEW i \in 1..(l - n) PROVE r[i] = Stream[SIZE + i]
  <2>1. SIZE + i \in 1..(b + l) /\ ~(SIZE + i <= b) /\ (SIZE + i) - b = n + i
    BY <1>1, <1>2, <1>3
  <2>2. Stream[SIZE + i] = wire[n + i]
    BY <1>6, <2>1
  <2>. QED  BY <1>1, <2>2
<1>. QED  BY <1>1, <1>3, <1>5, <1>7, <1>8, <1>9

\* In an orderly program one thread at most is inside send.
LEMMA OneSends ==
    ASSUME Basics, Orderly
    PROVE  ~mixed /\ \A v, w \in Writers : turn[v] # 0 /\ turn[w] # 0 => v = w
BY DEF Basics, SenderBooks, Orderly

LEMMA StreamBooksInit == Init => StreamBooks
<1>. SUFFICES ASSUME Init PROVE StreamBooks
  OBVIOUS
<1>1. Stream = <<>> /\ Len(got) = 0
  BY DEF Init, Stream
<1>2. \A w \in Writers : turn[w] = 0
  BY DEF Init
<1>3. Contiguous(Stream) /\ \A i \in 1..Len(got) : Intact(got[i])
  BY <1>1 DEF Contiguous
<1>4. Tip(Stream)
  BY <1>1, <1>2 DEF Tip
<1>. QED  BY <1>3, <1>4 DEF StreamBooks

LEMMA StreamStarts ==
    ASSUME Basics, StreamBooks, NEW w \in Writers, LockSend(w) \/ EnterSend(w)
    PROVE  StreamBooks'
<1>. SUFFICES ASSUME Orderly' PROVE Contiguous(Stream)' /\ Tip(Stream)' /\ (\A i \in 1..Len(got) : Intact(got[i]))'
  BY DEF StreamBooks
<1>1. /\ turn' = [turn EXCEPT ![w] = count[w] + 1]
      /\ mixed' = (mixed \/ \E v \in Writers : turn[v] # 0)
      /\ UNCHANGED <<lab, count, done, wire, buffer, got, hungUp, short>>
  BY DEF LockSend, EnterSend, StartFrame
<1>2. Orderly /\ \A v \in Writers : turn[v] = 0
  <2>1. CASE Looped
    <3>1. sendMutex = None
      BY <2>1 DEF LockSend, EnterSend
    <3>. QED  BY <2>1, <3>1, TcpFramingAssumption DEF Orderly, Basics, SenderBooks
  <2>2. CASE ~Looped
    <3>1. ~short' /\ ~mixed'
      BY <1>1, <2>2 DEF Orderly, Looped
    <3>. QED  BY <1>1, <3>1 DEF Orderly
  <2>. QED  BY <2>1, <2>2
<1>3. Contiguous(Stream) /\ Tip(Stream) /\ \A i \in 1..Len(got) : Intact(got[i])
  BY <1>2 DEF StreamBooks
<1>4. Stream' = Stream
  BY <1>1 DEF Stream
<1>5. Len(Stream) > 0 => Stream[Len(Stream)].pos = SIZE
  BY <1>2, <1>3 DEF Tip
<1>6. \A v \in Writers : done'[v] = 0
  BY <1>1, <1>2 DEF Basics, SenderBooks
<1>7. \A v \in Writers : EndsWith(Stream, <<v, turn'[v]>>, done'[v])
  BY <1>5, <1>6 DEF EndsWith
<1>8. Tip(Stream)'
  BY <1>4, <1>5, <1>7 DEF Tip, EndsWith
<1>9. Contiguous(Stream)'
  BY <1>3, <1>4 DEF Contiguous
<1>. QED  BY <1>1, <1>3, <1>8, <1>9 DEF Intact

LEMMA StreamSends ==
    ASSUME Basics, StreamBooks, NEW w \in Writers, SendPart(w)
    PROVE  StreamBooks'
<1>. SUFFICES ASSUME Orderly' PROVE Contiguous(Stream)' /\ Tip(Stream)' /\ (\A i \in 1..Len(got) : Intact(got[i]))'
  BY DEF StreamBooks
<1>1. turn[w] # 0 /\ UNCHANGED <<lab, buffer, got, hungUp, mixed, short>>
  BY SendPartIs
<1>2. Orderly
  BY <1>1 DEF Orderly, Looped
<1>3. Contiguous(Stream) /\ Tip(Stream) /\ \A i \in 1..Len(got) : Intact(got[i])
  BY <1>2 DEF StreamBooks
<1>4. PICK n \in 1..(SIZE - done[w]) :
          /\ wire' = wire \o Part(w, n)
          /\ \/ /\ done[w] + n = SIZE
                /\ done' = [done EXCEPT ![w] = 0]
                /\ turn' = [turn EXCEPT ![w] = 0]
             \/ /\ done[w] + n < SIZE
                /\ done' = [done EXCEPT ![w] = done[w] + n]
                /\ turn' = turn
  BY SendPartIs
<1>. DEFINE p == Part(w, n)
            f == <<w, turn[w]>>
            d == done[w]
<1>5. /\ n \in Nat /\ n >= 1 /\ d \in Nat /\ d + n <= SIZE /\ d < SIZE
      /\ p \in Seq(Bytes) /\ Len(p) = n
      /\ \A i \in 1..n : p[i] = [frame |-> f, pos |-> d + i]
      /\ f \in Frames
  BY <1>1, PartIs DEF Basics
<1>6. EndsWith(Stream, f, d)
  BY <1>1, <1>3 DEF Tip
<1>7. Stream \in Seq(Bytes)
  BY StreamIs DEF Basics
<1>8. Stream' = Stream \o p
  BY <1>1, <1>4, <1>5, StreamGrows DEF Basics
<1>. HIDE DEF p, f, d
<1>9. /\ Contiguous(Stream \o p) /\ EndsWith(Stream \o p, f, d + n)
      /\ d + n = SIZE => (Stream \o p)[Len(Stream \o p)].pos = SIZE
  BY <1>3, <1>5, <1>6, <1>7, PartContinues
<1>10. Contiguous(Stream)'
  BY <1>8, <1>9 DEF Contiguous
<1>11. \A v \in Writers : v # w => turn[v] = 0
  BY <1>1, <1>2, OneSends
<1>12. turn \in [Writers -> 0..PerWriter] /\ done \in [Writers -> 0..(SIZE - 1)]
  BY DEF Basics, TypeOK
<1>. DEFINE t == Stream \o p
<1>. HIDE DEF t
<1>13. CASE /\ d + n = SIZE
            /\ done' = [done EXCEPT ![w] = 0]
            /\ turn' = [turn EXCEPT ![w] = 0]
  <2>1. \A v \in Writers : turn'[v] = 0
    BY <1>11, <1>12, <1>13
  <2>2. t[Len(t)].pos = SIZE
    BY <1>9, <1>13 DEF t
  <2>3. Stream' = t
    BY <1>8 DEF t
  <2>. QED  BY <1>1, <1>3, <1>10, <2>1, <2>2, <2>3 DEF Tip, Intact
<1>14. CASE /\ d + n < SIZE
            /\ done' = [done EXCEPT ![w] = d + n]
            /\ turn' = turn
  <2>1. turn'[w] = turn[w] /\ done'[w] = d + n
    BY <1>12, <1>14
  <2>2. EndsWith(t, <<w, turn'[w]>>, done'[w])
    BY <1>9, <2>1 DEF t, f
  <2>3. \A v \in Writers : turn'[v] # 0 => EndsWith(t, <<v, turn'[v]>>, done'[v])
    BY <1>11, <1>14, <2>2
  <2>4. Stream' = t /\ turn'[w] # 0
    BY <1>1, <1>8, <2>1 DEF t
  <2>5. Tip(Stream)'
    BY <2>3, <2>4 DEF Tip, EndsWith
  <2>. QED  BY <1>1, <1>3, <1>10, <2>5 DEF Intact
<1>. QED  BY <1>4, <1>13, <1>14 DEF d

\* What a recv does to the stream of an orderly program.
LEMMA RecvIs ==
    ASSUME Basics, ReceivePart \/ ReceiveOnce, Orderly'
    PROVE  /\ Orderly /\ UNCHANGED <<lab, turn, count, done, mixed>>
           /\ \/ Looped /\ Stream' = Stream /\ got' = got
              \/ \E g \in Seq(Bytes) :
                    /\ got' = Append(got, g) /\ buffer' = <<>> /\ Stream' = wire'
                    /\ Len(g) = SIZE /\ \A i \in 1..SIZE : g[i] = Stream[i]
                    /\ wire' \in Seq(Bytes) /\ Len(Stream) >= SIZE /\ Len(wire') = Len(Stream) - SIZE
                    /\ \A i \in 1..(Len(Stream) - SIZE) : wire'[i] = Stream[SIZE + i]
<1>1. UNCHANGED <<lab, turn, count, done, mixed>>
  BY DEF ReceivePart, ReceiveOnce, senderVars
<1>2. PICK n \in 1..SIZE :
          /\ Returns(n)
          /\ wire' = SubSeq(wire, n + 1, Len(wire))
          /\ short' = (short \/ n < SIZE)
          /\ \/ Looped /\ Fill(n)
             \/ ~Looped /\ buffer' = buffer /\ got' = Append(got, SubSeq(wire, 1, n))
  BY DEF ReceivePart, ReceiveOnce
<1>3. Orderly
  BY <1>1, <1>2 DEF Orderly, Looped
<1>. DEFINE g == buffer \o SubSeq(wire, 1, n)
<1>4. CASE Len(buffer) + n = SIZE /\ buffer' = <<>> /\ got' = Append(got, g)
  <2>1. /\ g \in Seq(Bytes) /\ Len(g) = SIZE /\ \A i \in 1..SIZE : g[i] = Stream[i]
        /\ wire' \in Seq(Bytes) /\ Len(Stream) >= SIZE /\ Len(wire') = Len(Stream) - SIZE
        /\ \A i \in 1..(Len(Stream) - SIZE) : wire'[i] = Stream[SIZE + i]
    <3>. DEFINE r == SubSeq(wire, n + 1, Len(wire))
    <3>1. /\ g \in Seq(Bytes) /\ Len(g) = SIZE /\ \A i \in 1..SIZE : g[i] = Stream[i]
          /\ r \in Seq(Bytes) /\ Len(Stream) >= SIZE /\ Len(r) = Len(Stream) - SIZE
          /\ \A i \in 1..(Len(Stream) - SIZE) : r[i] = Stream[SIZE + i]
      <4>1. TypeOK /\ Returns(n) /\ Len(buffer) + n = SIZE
        BY <1>2, <1>4 DEF Basics
      <4>2. g = buffer \o SubSeq(wire, 1, n) /\ r = SubSeq(wire, n + 1, Len(wire))
        OBVIOUS
      <4>3. g \in Seq(Bytes) /\ r \in Seq(Bytes)
        BY <4>1, TakenIs
      <4>. HIDE DEF g, r
      <4>. QED  BY <4>1, <4>2, <4>3, StreamShrinks, ZenonT(60)
    <3>2. wire' = r
      BY <1>2
    <3>. HIDE DEF g, r
    <3>. QED  BY <3>1, <3>2
  <2>2. Stream' = wire'
    BY <1>4, <2>1, ConcatEmptySeq DEF Stream
  <2>. HIDE DEF g
  <2>. QED  BY <1>1, <1>3, <1>4, <2>1, <2>2
<1>5. CASE Looped /\ Fill(n) /\ Len(buffer) + n # SIZE
  <2>1. buffer' = g /\ got' = got
    BY <1>5 DEF Fill
  <2>2. Stream' = Stream
    BY <1>2, <2>1, StreamStays DEF Basics
  <2>. QED  BY <1>1, <1>3, <1>5, <2>1, <2>2
<1>6. CASE ~Looped /\ buffer' = buffer /\ got' = Append(got, SubSeq(wire, 1, n))
  <2>1. buffer = <<>> /\ Len(buffer) = 0
    BY <1>6 DEF Basics, SenderBooks
  <2>2. ~short'
    BY <1>1, <1>6 DEF Orderly, Looped
  <2>3. SIZE \in Nat /\ n \in Nat /\ n <= SIZE /\ ~(n < SIZE)
    <3>1. ~(n < SIZE)
      BY <1>2, <2>2, Zenon
    <3>. QED  BY <3>1, TcpFramingAssumption
  <2>4. n = SIZE
    BY <2>3
  <2>5. SubSeq(wire, 1, n) \in Seq(Bytes)
    BY <1>2, TakenIs DEF Basics
  <2>6. g = SubSeq(wire, 1, n)
    BY <2>1, <2>5, ConcatEmptySeq
  <2>. QED  BY <1>4, <1>6, <2>1, <2>3, <2>4, <2>6, SMTT(60)
<1>7. CASE Looped /\ Fill(n) /\ Len(buffer) + n = SIZE
  BY <1>4, <1>7 DEF Fill
<1>. QED  BY <1>2, <1>5, <1>6, <1>7

LEMMA StreamReceives ==
    ASSUME Basics, StreamBooks, ReceivePart \/ ReceiveOnce
    PROVE  StreamBooks'
<1>. SUFFICES ASSUME Orderly' PROVE Contiguous(Stream)' /\ Tip(Stream)' /\ (\A i \in 1..Len(got) : Intact(got[i]))'
  BY DEF StreamBooks
<1>1. Orderly /\ UNCHANGED <<lab, turn, count, done, mixed>>
  BY RecvIs
<1>2. Contiguous(Stream) /\ Tip(Stream) /\ \A i \in 1..Len(got) : Intact(got[i])
  BY <1>1 DEF StreamBooks
<1>3. CASE Stream' = Stream /\ got' = got
  BY <1>1, <1>2, <1>3 DEF Contiguous, Tip, EndsWith, Intact
<1>4. ASSUME NEW g \in Seq(Bytes),
             got' = Append(got, g) /\ buffer' = <<>> /\ Stream' = wire',
             Len(g) = SIZE /\ \A i \in 1..SIZE : g[i] = Stream[i],
             wire' \in Seq(Bytes) /\ Len(Stream) >= SIZE /\ Len(wire') = Len(Stream) - SIZE,
             \A i \in 1..(Len(Stream) - SIZE) : wire'[i] = Stream[SIZE + i]
      PROVE  Contiguous(Stream)' /\ Tip(Stream)' /\ (\A i \in 1..Len(got) : Intact(got[i]))'
  <2>. DEFINE s == Stream
              r == wire'
  <2>1. s \in Seq(Bytes) /\ r \in Seq(Bytes) /\ Len(r) \in Nat /\ SIZE \in Nat /\ SIZE >= 1
    BY <1>4, StreamIs, TcpFramingAssumption DEF Basics
  <2>2. /\ \A i \in 1..SIZE : s[i] = [frame |-> s[1].frame, pos |-> i]
        /\ Contiguous(r)
        /\ Len(r) > 0 => r[Len(r)] = s[Len(s)]
        /\ Len(r) = 0 => s[Len(s)].pos = SIZE
    BY <1>2, <1>4, <2>1, FrameTaken
  <2>3. Contiguous(Stream)'
    BY <1>4, <2>2 DEF Contiguous
  <2>4. Intact(g)
    <3>1. 1 \in 1..SIZE
      BY <2>1
    <3>2. g[1] = s[1]
      BY <1>4, <3>1
    <3>3. \A i \in 1..SIZE : g[i] = [frame |-> g[1].frame, pos |-> i]
      BY <1>4, <2>2, <3>2
    <3>. QED  BY <1>4, <3>3 DEF Intact
  <2>5. (\A i \in 1..Len(got) : Intact(got[i]))'
    <3>1. got \in Seq(Seq(Bytes))
      BY DEF Basics, TypeOK
    <3>2. /\ Len(got') = Len(got) + 1 /\ got'[Len(got) + 1] = g
          /\ \A i \in 1..Len(got) : got'[i] = got[i]
      BY <1>4, <3>1
    <3>3. \A i \in 1..(Len(got) + 1) : i \in 1..Len(got) \/ i = Len(got) + 1
      BY <3>1
    <3>4. \A i \in 1..Len(got') : Intact(got'[i])
      BY <1>2, <2>4, <3>2, <3>3
    <3>. QED  BY <3>4 DEF Intact
  <2>6. \A w \in Writers : turn[w] # 0 => EndsWith(r, <<w, turn[w]>>, done[w])
    <3>1. SUFFICES ASSUME NEW w \in Writers, turn[w] # 0 PROVE EndsWith(r, <<w, turn[w]>>, done[w])
      OBVIOUS
    <3>2. EndsWith(s, <<w, turn[w]>>, done[w])
      BY <1>2, <3>1 DEF Tip
    <3>3. done[w] \in Nat /\ done[w] < SIZE
      BY <2>1 DEF Basics, TypeOK
    <3>4. CASE Len(r) > 0
      <4>1. Len(s) > 0
        BY <1>4, <2>1
      <4>. QED  BY <2>2, <3>2, <3>4, <4>1 DEF EndsWith
    <3>5. CASE Len(r) = 0
      <4>1. ~(done[w] > 0)
        <5>1. SUFFICES ASSUME done[w] > 0 PROVE FALSE
          OBVIOUS
        <5>2. s[Len(s)] = [frame |-> <<w, turn[w]>>, pos |-> done[w]]
          BY <3>2, <5>1 DEF EndsWith
        <5>3. s[Len(s)].pos = done[w] /\ s[Len(s)].pos = SIZE
          BY <2>2, <3>5, <5>2
        <5>. QED  BY <2>1, <3>3, <5>3
      <4>. QED  BY <3>5, <4>1 DEF EndsWith
    <3>. QED  BY <2>1, <3>4, <3>5
  <2>7. (\A w \in Writers : turn[w] = 0) /\ Len(r) > 0 => r[Len(r)].pos = SIZE
    <3>1. Len(r) > 0 => Len(s) > 0
      BY <1>4, <2>1
    <3>. QED  BY <1>2, <2>2, <3>1 DEF Tip
  <2>8. Tip(Stream)'
    <3>1. turn' = turn /\ done' = done /\ Stream' = r
      BY <1>1, <1>4
    <3>. HIDE DEF r
    <3>. QED  BY <2>6, <2>7, <3>1 DEF Tip, EndsWith
  <2>. QED  BY <2>3, <2>5, <2>8
<1>. QED  BY <1>3, <1>4, RecvIs

LEMMA StreamBooksStep == Basics /\ StreamBooks /\ [Next]_vars => StreamBooks'
<1>. SUFFICES ASSUME Basics, StreamBooks, [Next]_vars PROVE StreamBooks'
  OBVIOUS
<1>1. CASE \E w \in Writers : LockSend(w) \/ EnterSend(w)
  BY <1>1, StreamStarts
<1>2. CASE \E w \in Writers : SendPart(w)
  BY <1>2, StreamSends
<1>3. CASE HangUp \/ UNCHANGED vars
  <2>1. UNCHANGED <<lab, turn, count, done, wire, buffer, got, mixed, short>>
    BY <1>3 DEF HangUp, senderVars, vars
  <2>. QED  BY <2>1, ZenonT(60) DEF StreamBooks, Orderly, Looped, Stream, Contiguous, Tip, EndsWith, Intact
<1>4. CASE ReceivePart \/ ReceiveOnce
  BY <1>4, StreamReceives
<1>. QED  BY <1>1, <1>2, <1>3, <1>4 DEF Next

LEMMA StreamBooksHold == Spec => [](Basics /\ StreamBooks)
<1>1. Init => Basics /\ StreamBooks
  BY BasicsInit, StreamBooksInit
<1>2. Basics /\ StreamBooks /\ [Next]_vars => (Basics /\ StreamBooks)'
  BY BasicsStep, StreamBooksStep
<1>. QED  BY <1>1, <1>2, PTL DEF Spec

\* What recvMessage returns is what one sendMessage has sent, however the bytes
\* are cut on the way and whoever else sends: a torn message needs a program
\* without the loops, and a short recv or two threads inside send.
THEOREM TornWithoutLoopsOnly == Spec => []TornOnlyUnlooped
<1>1. StreamBooks => TornOnlyUnlooped
  BY DEF StreamBooks, TornOnlyUnlooped, Orderly
<1>. QED  BY <1>1, StreamBooksHold, PTL

-----------------------------------------------------------------------------
(* The looped program under the mutex is a queue of whole frames.           *)

FramesOf(q) == [i \in 1..Len(q) |-> q[i].frame]

LEMMA FramesOfGrows ==
    ASSUME NEW q \in Seq(Bytes), NEW b \in Bytes
    PROVE  /\ FramesOf(q) \in Seq(Frames)
           /\ FramesOf(Append(q, b)) = Append(FramesOf(q), b.frame)
<1>. DEFINE l == Len(q)
            a == Append(q, b)
            x == FramesOf(q)
            y == FramesOf(a)
<1>1. l \in Nat /\ b.frame \in Frames /\ \A i \in 1..l : q[i].frame \in Frames
  <2>1. \A c \in Bytes : c.frame \in Frames
    BY DEF Bytes
  <2>2. \A i \in 1..l : q[i] \in Bytes
    BY ElementOfSeq
  <2>. QED  BY <2>1, <2>2
<1>2. x \in Seq(Frames) /\ Len(x) = l /\ \A i \in 1..l : x[i] = q[i].frame
  BY <1>1 DEF FramesOf
<1>3. a \in Seq(Bytes) /\ Len(a) = l + 1 /\ a[l + 1] = b /\ \A i \in 1..l : a[i] = q[i]
  OBVIOUS
<1>4. \A i \in 1..(l + 1) : i \in 1..l \/ i = l + 1
  BY <1>1
<1>5. \A i \in 1..(l + 1) : a[i].frame \in Frames
  BY <1>1, <1>3, <1>4
<1>. HIDE DEF a
<1>6. y \in Seq(Frames) /\ Len(y) = l + 1 /\ \A i \in 1..(l + 1) : y[i] = a[i].frame
  BY <1>1, <1>3, <1>5 DEF FramesOf
<1>. DEFINE z == Append(x, b.frame)
<1>. HIDE DEF x, y
<1>7. z \in Seq(Frames) /\ Len(z) = l + 1 /\ z[l + 1] = b.frame /\ \A i \in 1..l : z[i] = x[i]
  BY <1>1, <1>2
<1>. HIDE DEF z, l
<1>8. \A i \in 1..(l + 1) : y[i] = z[i]
  BY <1>2, <1>3, <1>4, <1>6, <1>7, ZenonT(60)
<1>9. y = z
  BY <1>6, <1>7, <1>8, SeqEqual
<1>. QED  BY <1>2, <1>9 DEF a, x, y, z

LEMMA FramesOfShrinks ==
    ASSUME NEW q \in Seq(Bytes), q # <<>>
    PROVE  /\ FramesOf(q) # <<>> /\ Head(FramesOf(q)) = Head(q).frame
           /\ FramesOf(Tail(q)) = Tail(FramesOf(q))
<1>. DEFINE l == Len(q)
            a == Tail(q)
            x == FramesOf(q)
            y == FramesOf(a)
            z == Tail(x)
<1>1. l \in Nat /\ l > 0 /\ \A i \in 1..l : q[i].frame \in Frames
  <2>1. \A c \in Bytes : c.frame \in Frames
    BY DEF Bytes
  <2>2. \A i \in 1..l : q[i] \in Bytes
    BY ElementOfSeq
  <2>3. l \in Nat /\ l > 0
    BY EmptySeq
  <2>. QED  BY <2>1, <2>2, <2>3
<1>2. x \in Seq(Frames) /\ Len(x) = l /\ \A i \in 1..l : x[i] = q[i].frame
  BY <1>1 DEF FramesOf
<1>3. a \in Seq(Bytes) /\ Len(a) = l - 1 /\ \A i \in 1..(l - 1) : a[i] = q[i + 1]
  BY HeadTailProperties
<1>4. Head(q) = q[1]
  OBVIOUS
<1>. HIDE DEF a
<1>5. l - 1 \in Nat /\ 1 \in 1..l /\ \A i \in 1..(l - 1) : i + 1 \in 1..l
  BY <1>1
<1>6. y \in Seq(Frames) /\ Len(y) = l - 1 /\ \A i \in 1..(l - 1) : y[i] = a[i].frame
  BY <1>1, <1>3, <1>5 DEF FramesOf
<1>. HIDE DEF x, y, l
<1>7. x # <<>>
  BY <1>1, <1>2
<1>8. z \in Seq(Frames) /\ Len(z) = l - 1 /\ \A i \in 1..(l - 1) : z[i] = x[i + 1]
  BY <1>2, <1>7, HeadTailProperties
<1>9. Head(x) = Head(q).frame
  BY <1>2, <1>4, <1>5, <1>7
<1>. HIDE DEF z
<1>10. \A i \in 1..(l - 1) : y[i] = z[i]
  BY <1>2, <1>3, <1>5, <1>6, <1>8, ZenonT(60)
<1>11. y = z
  BY <1>6, <1>8, <1>10, SeqEqual
<1>. QED  BY <1>7, <1>9, <1>11 DEF a, x, y, z

LEMMA EndsAre ==
    ASSUME NEW s \in Seq(Bytes)
    PROVE  Ends(s) \in SUBSET (1..Len(s)) /\ LastBytes(s) \in Seq(Bytes)
<1>1. Ends(s) \in SUBSET (1..Len(s))
  BY DEF Ends
<1>. QED  BY <1>1, PickEmbeds DEF LastBytes

\* One more frame is under way when its last byte is.
LEMMA LastBytesGrow ==
    ASSUME NEW s \in Seq(Bytes), NEW p \in Seq(Bytes), NEW f \in Frames, NEW d \in Nat, NEW n \in Nat,
           n >= 1, d < SIZE, d + n <= SIZE, Len(p) = n,
           \A i \in 1..n : p[i] = [frame |-> f, pos |-> d + i]
    PROVE  /\ d + n < SIZE => LastBytes(s \o p) = LastBytes(s)
           /\ d + n = SIZE => LastBytes(s \o p) = Append(LastBytes(s), [frame |-> f, pos |-> SIZE])
<1>. DEFINE l == Len(s)
            t == s \o p
            I == Ends(s)
<1>1. l \in Nat /\ SIZE \in Nat /\ SIZE >= 1
  BY TcpFramingAssumption
<1>2. t \in Seq(Bytes) /\ Len(t) = l + n /\ \A i \in 1..(l + n) : t[i] = IF i <= l THEN s[i] ELSE p[i - l]
  BY ConcatProperties, ZenonT(60)
<1>3. \A i \in 1..l : t[i] = s[i] /\ i \in 1..(l + n)
  BY <1>1, <1>2
<1>4. ASSUME NEW k \in 1..n
      PROVE  t[l + k] = [frame |-> f, pos |-> d + k] /\ l + k \in 1..(l + n) /\ ~(l + k <= l)
  <2>1. l + k \in 1..(l + n) /\ ~(l + k <= l) /\ (l + k) - l = k
    BY <1>1
  <2>2. t[l + k] = p[k]
    BY <1>2, <2>1
  <2>. QED  BY <2>1, <2>2
<1>5. I \in SUBSET (1..l)
  BY EndsAre
<1>. HIDE DEF t
<1>6. ASSUME NEW i \in 1..(l + n)
      PROVE  i \in 1..l \/ \E k \in 1..n : i = l + k
  <2>1. CASE i <= l
    BY <1>1, <2>1
  <2>2. CASE i > l
    <3>1. i - l \in 1..n /\ i = l + (i - l)
      BY <1>1, <2>2
    <3>. QED  BY <3>1
  <2>. QED  BY <1>1, <2>1, <2>2
<1>7. \A i \in 1..l : i \in Ends(t) <=> i \in I
  BY <1>2, <1>3 DEF Ends
<1>8. ASSUME NEW k \in 1..n PROVE l + k \in Ends(t) <=> d + k = SIZE
  <2>0. t[l + k] = [frame |-> f, pos |-> d + k] /\ l + k \in 1..(l + n)
    BY <1>4
  <2>1. l + k \in 1..(l + n) /\ t[l + k].pos = d + k
    BY <2>0
  <2>2. Ends(t) = {i \in 1..(l + n) : t[i].pos = SIZE}
    BY <1>2 DEF Ends
  <2>. HIDE DEF l
  <2>. QED  BY <2>1, <2>2
<1>9. \A i \in Ends(t) : i \in 1..(l + n)
  BY <1>2 DEF Ends
<1>10. CASE d + n < SIZE
  <2>1. \A k \in 1..n : d + k # SIZE
    BY <1>1, <1>10
  <2>2. \A i \in Ends(t) : i \in I
    <3>1. SUFFICES ASSUME NEW i \in Ends(t) PROVE i \in I
      OBVIOUS
    <3>2. CASE i \in 1..l
      BY <1>7, <3>2
    <3>3. ASSUME NEW k \in 1..n, i = l + k PROVE FALSE
      BY <1>8, <2>1, <3>3
    <3>. QED  BY <1>6, <1>9, <3>2, <3>3
  <2>3. Ends(t) = I
    BY <1>5, <1>7, <2>2
  <2>4. Pick(s \o p, I) = Pick(s, I)
    BY <1>5, PickFront
  <2>. QED  BY <1>1, <1>10, <2>3, <2>4 DEF LastBytes, t
<1>11. CASE d + n = SIZE
  <2>1. \A k \in 1..n : d + k = SIZE => k = n
    BY <1>1, <1>11
  <2>2. n \in 1..n /\ l + n \in (l + 1)..(l + Len(p))
    BY <1>1
  <2>3. \A i \in Ends(t) : i \in I \cup {l + n}
    <3>1. SUFFICES ASSUME NEW i \in Ends(t) PROVE i \in I \cup {l + n}
      OBVIOUS
    <3>2. CASE i \in 1..l
      BY <1>7, <3>2
    <3>3. ASSUME NEW k \in 1..n, i = l + k PROVE i = l + n
      <4>1. d + k = SIZE
        BY <1>8, <3>3
      <4>. QED  BY <2>1, <3>3, <4>1
    <3>. QED  BY <1>6, <1>9, <3>2, <3>3
  <2>4. l + n \in Ends(t)
    BY <1>8, <1>11, <2>2
  <2>5. Ends(t) = I \cup {l + n}
    BY <1>5, <1>7, <2>3, <2>4
  <2>6. Pick(s \o p, I \cup {l + n}) = Append(Pick(s, I), (s \o p)[l + n])
    <3>. DEFINE m == l + n
    <3>1. m \in (Len(s) + 1)..(Len(s) + Len(p)) /\ I \in SUBSET (1..Len(s))
      BY <1>5, <2>2
    <3>. HIDE DEF m, I
    <3>2. Pick(s \o p, I \cup {m}) = Append(Pick(s, I), (s \o p)[m])
      <4>1. s \in Seq(Bytes) /\ p \in Seq(Bytes)
        OBVIOUS
      <4>. QED  BY ONLY <3>1, <4>1, PickGrows, ZenonT(60)
    <3>. QED  BY <3>2 DEF m
  <2>7. t[l + n] = [frame |-> f, pos |-> SIZE]
    BY <1>4, <1>11, <2>2
  <2>8. LastBytes(t) = Append(LastBytes(s), [frame |-> f, pos |-> SIZE])
    BY <2>5, <2>6, <2>7 DEF LastBytes, t
  <2>. QED  BY <1>11, <2>8 DEF t
<1>. QED  BY <1>1, <1>10, <1>11

\* The frame that recvMessage takes is the first one under way.
LEMMA LastBytesShrink ==
    ASSUME NEW s \in Seq(Bytes), NEW r \in Seq(Bytes), Contiguous(s), Len(s) >= SIZE,
           Len(r) = Len(s) - SIZE, \A i \in 1..(Len(s) - SIZE) : r[i] = s[SIZE + i]
    PROVE  /\ LastBytes(s) # <<>> /\ Head(LastBytes(s)).frame = s[1].frame
           /\ LastBytes(r) = Tail(LastBytes(s))
<1>. DEFINE l == Len(s)
            I == Ends(s)
            u == SubSeq(s, SIZE + 1, l)
            J == {i \in 1..(l - SIZE) : i + SIZE \in I}
<1>1. SIZE \in Nat /\ SIZE >= 1 /\ l \in Nat /\ l >= SIZE /\ l - SIZE \in Nat
  BY TcpFramingAssumption
<1>2. \A i \in 1..SIZE : s[i] = [frame |-> s[1].frame, pos |-> i]
  BY FrameTaken
<1>3. I \in SUBSET (1..l)
  BY EndsAre
<1>4. SIZE \in I /\ s[SIZE].frame = s[1].frame
  <2>1. SIZE \in 1..SIZE /\ SIZE \in 1..l
    BY <1>1
  <2>2. s[SIZE].pos = SIZE /\ s[SIZE].frame = s[1].frame
    <3>1. s[SIZE] = [frame |-> s[1].frame, pos |-> SIZE]
      BY <1>2, <2>1
    <3>. QED  BY <3>1
  <2>. QED  BY <2>1, <2>2 DEF Ends
<1>5. \A i \in I : SIZE <= i
  <2>1. SUFFICES ASSUME NEW i \in I, i < SIZE PROVE FALSE
    BY <1>1, <1>3
  <2>2. i \in 1..SIZE /\ s[i].pos = SIZE
    BY <1>1, <1>3, <2>1 DEF Ends
  <2>3. s[i].pos = i
    <3>1. s[i] = [frame |-> s[1].frame, pos |-> i]
      BY <1>2, <2>2
    <3>. QED  BY <3>1
  <2>. QED  BY <1>1, <2>1, <2>2, <2>3
<1>6. u = r
  <2>1. u \in Seq(Bytes) /\ Len(u) = l - SIZE /\ \A i \in 1..(l - SIZE) : u[i] = s[SIZE + i]
    BY <1>1
  <2>. HIDE DEF u
  <2>2. Len(u) = Len(r) /\ \A i \in 1..Len(u) : u[i] = r[i]
    BY <2>1
  <2>. QED  BY <2>1, <2>2, SeqEqual
<1>7. J = Ends(r)
  <2>1. \A i \in 1..(l - SIZE) : SIZE + i \in 1..l /\ SIZE + i = i + SIZE
    BY <1>1
  <2>2. \A i \in 1..(l - SIZE) : SIZE + i \in I <=> r[i].pos = SIZE
    BY <2>1 DEF Ends
  <2>3. \A i \in 1..(l - SIZE) : i + SIZE \in I <=> r[i].pos = SIZE
    BY <2>1, <2>2
  <2>4. Ends(r) = {i \in 1..(l - SIZE) : r[i].pos = SIZE}
    BY DEF Ends
  <2>. QED  BY <2>3, <2>4
<1>8. /\ Pick(s, I) # <<>> /\ Head(Pick(s, I)) = s[SIZE]
      /\ Pick(u, J) = Tail(Pick(s, I))
  BY <1>3, <1>4, <1>5, PickShrinks
<1>. QED  BY <1>4, <1>6, <1>7, <1>8 DEF LastBytes

\* The frames under way and received of the looped program.
LEMMA MappingIs ==
    ASSUME TypeOK, Looped
    PROVE  /\ InTransit = FramesOf(LastBytes(Stream)) /\ LastBytes(Stream) \in Seq(Bytes)
           /\ InTransit \in Seq(Frames)
<1>1. Stream \in Seq(Bytes)
  BY StreamIs
<1>2. InTransit = FramesOf(LastBytes(Stream))
  BY DEF InTransit, FramesOf, Stream
<1>3. LastBytes(Stream) \in Seq(Bytes)
  BY <1>1, EndsAre
<1>. DEFINE q == LastBytes(Stream)
<1>4. \A i \in 1..Len(q) : q[i].frame \in Frames
  <2>1. \A b \in Bytes : b.frame \in Frames
    BY DEF Bytes
  <2>2. \A i \in 1..Len(q) : q[i] \in Bytes
    BY <1>3, ElementOfSeq
  <2>. QED  BY <2>1, <2>2
<1>5. FramesOf(q) \in Seq(Frames)
  <2>. HIDE DEF q
  <2>1. Len(q) \in Nat
    BY <1>3 DEF q
  <2>. QED  BY <1>4, <2>1 DEF FramesOf
<1>. QED  BY <1>2, <1>3, <1>5

\* The abstract steps, with what they mean for the number of finished frames.
Unmoved == InTransit' = InTransit /\ Received' = Received /\ count' = count

Finishes(w) ==
    /\ turn[w] # 0 /\ <<w, turn[w]>> \in Frames
    /\ InTransit' = Append(InTransit, <<w, turn[w]>>) /\ Received' = Received
    /\ count' = [count EXCEPT ![w] = turn[w]]

Arrives ==
    /\ InTransit # <<>>
    /\ Received' = Append(Received, Head(InTransit)) /\ InTransit' = Tail(InTransit)
    /\ count' = count

LEMMA SendPartMaps ==
    ASSUME Basics, StreamBooks, Looped, NEW w \in Writers, SendPart(w)
    PROVE  Unmoved \/ Finishes(w)
<1>1. turn[w] # 0 /\ UNCHANGED <<lab, buffer, got, hungUp, mixed, short>>
  BY SendPartIs
<1>2. PICK n \in 1..(SIZE - done[w]) :
          /\ wire' = wire \o Part(w, n)
          /\ \/ /\ done[w] + n = SIZE
                /\ count' = [count EXCEPT ![w] = turn[w]]
             \/ /\ done[w] + n < SIZE
                /\ count' = count
  BY SendPartIs
<1>. DEFINE p == Part(w, n)
            f == <<w, turn[w]>>
            d == done[w]
            s == Stream
            q == LastBytes(s)
<1>3. /\ n \in Nat /\ n >= 1 /\ d \in Nat /\ d + n <= SIZE /\ d < SIZE
      /\ p \in Seq(Bytes) /\ Len(p) = n
      /\ \A i \in 1..n : p[i] = [frame |-> f, pos |-> d + i]
      /\ f \in Frames
  BY <1>1, PartIs DEF Basics
<1>4. s \in Seq(Bytes)
  BY StreamIs DEF Basics
<1>5. Stream' = s \o p
  BY <1>1, <1>2, <1>3, StreamGrows DEF Basics
<1>6. InTransit = FramesOf(q) /\ q \in Seq(Bytes)
  BY MappingIs DEF Basics
<1>7. InTransit' = FramesOf(LastBytes(Stream'))
  BY <1>1 DEF InTransit, FramesOf, Stream, Looped
<1>8. Received' = Received
  BY <1>1 DEF Received, Intact, Looped
<1>. HIDE DEF p, f, d, s
<1>9. /\ d + n < SIZE => LastBytes(s \o p) = LastBytes(s)
      /\ d + n = SIZE => LastBytes(s \o p) = Append(LastBytes(s), [frame |-> f, pos |-> SIZE])
  BY <1>3, <1>4, LastBytesGrow, ZenonT(60)
<1>10. CASE d + n < SIZE /\ count' = count
  BY <1>5, <1>6, <1>7, <1>8, <1>9, <1>10 DEF Unmoved
<1>11. CASE d + n = SIZE /\ count' = [count EXCEPT ![w] = turn[w]]
  <2>. DEFINE b == [frame |-> f, pos |-> SIZE]
  <2>1. b \in Bytes /\ b.frame = f
    BY <1>3, TcpFramingAssumption DEF Bytes
  <2>. HIDE DEF b, q
  <2>2. FramesOf(Append(q, b)) = Append(FramesOf(q), b.frame)
    BY <1>6, <2>1, FramesOfGrows
  <2>3. LastBytes(s \o p) = Append(q, b)
    BY <1>9, <1>11 DEF b, q
  <2>4. InTransit' = Append(InTransit, f)
    BY <1>5, <1>6, <1>7, <2>1, <2>2, <2>3
  <2>. QED  BY <1>1, <1>3, <1>8, <1>11, <2>4 DEF Finishes, f
<1>. QED  BY <1>2, <1>10, <1>11 DEF d

LEMMA ReceiveMaps ==
    ASSUME Basics, StreamBooks, Looped, ReceivePart \/ ReceiveOnce
    PROVE  Unmoved \/ Arrives
<1>0. UNCHANGED <<lab, count>>
  BY DEF ReceivePart, ReceiveOnce, senderVars
<1>1. Looped' /\ Orderly' /\ Orderly
  BY <1>0 DEF Orderly, Looped
<1>2. Contiguous(Stream) /\ \A i \in 1..Len(got) : Intact(got[i])
  BY <1>1 DEF StreamBooks
<1>3. InTransit' = FramesOf(LastBytes(Stream'))
  BY <1>1 DEF InTransit, FramesOf, Stream
<1>4. InTransit = FramesOf(LastBytes(Stream)) /\ LastBytes(Stream) \in Seq(Bytes)
  BY MappingIs DEF Basics
<1>5. CASE Stream' = Stream /\ got' = got
  <2>1. Received' = Received
    BY <1>1, <1>5 DEF Received, Intact
  <2>. QED  BY <1>0, <1>3, <1>4, <1>5, <2>1 DEF Unmoved
<1>6. ASSUME NEW g \in Seq(Bytes),
             got' = Append(got, g), Stream' = wire',
             Len(g) = SIZE, \A i \in 1..SIZE : g[i] = Stream[i],
             wire' \in Seq(Bytes), Len(Stream) >= SIZE, Len(wire') = Len(Stream) - SIZE,
             \A i \in 1..(Len(Stream) - SIZE) : wire'[i] = Stream[SIZE + i]
      PROVE  Arrives
  <2>. DEFINE s == Stream
              r == wire'
              q == LastBytes(s)
  <2>1. s \in Seq(Bytes) /\ 1 \in 1..SIZE /\ SIZE \in Nat
    BY StreamIs, TcpFramingAssumption DEF Basics
  <2>2. q # <<>> /\ Head(q).frame = s[1].frame /\ LastBytes(r) = Tail(q)
    BY <1>2, <1>6, <2>1, LastBytesShrink
  <2>3. \A i \in 1..SIZE : s[i] = [frame |-> s[1].frame, pos |-> i]
    BY <1>2, <1>6, <2>1, FrameTaken
  <2>. HIDE DEF q
  <2>4. FramesOf(q) # <<>> /\ Head(FramesOf(q)) = Head(q).frame /\ FramesOf(Tail(q)) = Tail(FramesOf(q))
    BY <1>4, <2>2, FramesOfShrinks DEF q
  <2>5. g[1] = s[1]
    BY <1>6, <2>1
  <2>6. Intact(g)
    <3>1. \A i \in 1..SIZE : g[i] = [frame |-> g[1].frame, pos |-> i]
      BY <1>6, <2>3, <2>5
    <3>. QED  BY <1>6, <3>1 DEF Intact
  <2>7. got \in Seq(Seq(Bytes))
    BY DEF Basics, TypeOK
  <2>8. /\ Len(got) \in Nat /\ Len(got') = Len(got) + 1 /\ got'[Len(got) + 1] = g
        /\ \A i \in 1..Len(got) : got'[i] = got[i]
    BY <1>6, <2>7
  <2>. DEFINE m == Len(got)
              F(h) == IF Intact(h) THEN h[1].frame ELSE <<>>
              x == [i \in 1..m |-> F(got[i])]
              y == [i \in 1..(m + 1) |-> F(got'[i])]
  <2>9. Received = x
    BY DEF Received
  <2>10. Received' = y
    BY <1>1, <2>8 DEF Received, Intact
  <2>11. F(g) = s[1].frame
    BY <2>5, <2>6
  <2>12. \A i \in 1..(m + 1) : i \in 1..m \/ i = m + 1
    BY <2>8
  <2>. DEFINE T == {F(got'[i]) : i \in 1..(m + 1)} \cup {F(got[i]) : i \in 1..m}
  <2>13. x \in Seq(T) /\ Len(x) = m /\ \A i \in 1..m : x[i] = F(got[i])
    BY <2>8
  <2>14. y \in Seq(T) /\ Len(y) = m + 1 /\ \A i \in 1..(m + 1) : y[i] = F(got'[i])
    BY <2>8
  <2>15. F(got'[m + 1]) \in T /\ F(got'[m + 1]) = F(g)
    BY <2>8
  <2>16. \A i \in 1..m : F(got'[i]) = F(got[i])
    BY <2>8
  <2>. HIDE DEF x, y, m, F, T
  <2>17. y = Append(x, F(g))
    <3>. DEFINE z == Append(x, F(g))
    <3>1. z \in Seq(T) /\ Len(z) = m + 1 /\ z[m + 1] = F(g) /\ \A i \in 1..m : z[i] = x[i]
      BY <2>8, <2>13, <2>15 DEF m
    <3>. HIDE DEF z
    <3>2. \A i \in 1..(m + 1) : y[i] = z[i]
      BY <2>12, <2>13, <2>14, <2>15, <2>16, <3>1
    <3>3. y = z
      BY <2>14, <3>1, <3>2, SeqEqual
    <3>. QED  BY <3>3 DEF z
  <2>18. Received' = Append(Received, Head(InTransit))
    BY <1>4, <2>2, <2>4, <2>9, <2>10, <2>11, <2>17 DEF q
  <2>19. InTransit' = Tail(InTransit) /\ InTransit # <<>>
    BY <1>3, <1>4, <1>6, <2>2, <2>4 DEF q
  <2>. QED  BY <1>0, <2>18, <2>19 DEF Arrives
<1>. QED  BY <1>1, <1>5, <1>6, RecvIs

LEMMA StepMaps ==
    ASSUME Basics, StreamBooks, Looped, [Next]_vars
    PROVE  Unmoved \/ Arrives \/ \E w \in Writers : Finishes(w)
<1>1. CASE \E w \in Writers : LockSend(w) \/ EnterSend(w)
  <2>1. UNCHANGED <<lab, count, wire, buffer, got>>
    BY <1>1 DEF LockSend, EnterSend, StartFrame
  <2>. QED  BY <2>1 DEF Unmoved, InTransit, Received, Looped, Intact
<1>2. CASE HangUp \/ UNCHANGED vars
  <2>1. UNCHANGED <<lab, count, wire, buffer, got>>
    BY <1>2 DEF HangUp, vars, senderVars
  <2>. QED  BY <2>1 DEF Unmoved, InTransit, Received, Looped, Intact
<1>3. CASE \E w \in Writers : SendPart(w)
  BY <1>3, SendPartMaps
<1>4. CASE ReceivePart \/ ReceiveOnce
  BY <1>4, ReceiveMaps
<1>. QED  BY <1>1, <1>2, <1>3, <1>4 DEF Next

\* The abstract queue holds or has delivered the frames that are counted as
\* finished, and no others.
SentBooks ==
    Looped => /\ InTransit \in Seq(Frames) /\ Received \in Seq(Frames)
              /\ \A w \in Writers, k \in 1..PerWriter : <<w, k>> \in Fifo!Sent <=> k <= count[w]

\* What an abstract step does to the frames sent.
LEMMA SentGrows ==
    ASSUME NEW f, NEW a \in Seq(Frames), NEW b, b = Append(a, f), f \in Frames
    PROVE  {b[i] : i \in 1..Len(b)} = {a[i] : i \in 1..Len(a)} \cup {f}
<1>1. /\ Len(b) = Len(a) + 1 /\ b[Len(a) + 1] = f /\ Len(a) \in Nat
      /\ \A i \in 1..Len(a) : b[i] = a[i] /\ i \in 1..Len(b)
      /\ Len(a) + 1 \in 1..Len(b)
  OBVIOUS
<1>2. \A i \in 1..Len(b) : i \in 1..Len(a) \/ i = Len(a) + 1
  BY <1>1
<1>3. \A x \in {b[i] : i \in 1..Len(b)} : x \in {a[i] : i \in 1..Len(a)} \cup {f}
  BY <1>1, <1>2
<1>4. \A x \in {a[i] : i \in 1..Len(a)} \cup {f} : x \in {b[i] : i \in 1..Len(b)}
  BY <1>1
<1>. QED  BY <1>3, <1>4

LEMMA SentMoves ==
    ASSUME NEW a \in Seq(Frames), a # <<>>
    PROVE  {a[i] : i \in 1..Len(a)} = {Tail(a)[i] : i \in 1..Len(Tail(a))} \cup {Head(a)}
<1>1. /\ Len(a) \in Nat /\ Len(a) > 0 /\ Len(Tail(a)) = Len(a) - 1 /\ Head(a) = a[1]
      /\ \A i \in 1..(Len(a) - 1) : Tail(a)[i] = a[i + 1]
  BY HeadTailProperties, EmptySeq
<1>2. \A i \in 1..Len(a) : i = 1 \/ (i - 1 \in 1..(Len(a) - 1) /\ (i - 1) + 1 = i)
  BY <1>1
<1>3. \A i \in 1..(Len(a) - 1) : i + 1 \in 1..Len(a)
  BY <1>1
<1>4. 1 \in 1..Len(a)
  BY <1>1
<1>. DEFINE t == Tail(a)
<1>. HIDE DEF t
<1>5. \A x \in {a[i] : i \in 1..Len(a)} : x \in {t[i] : i \in 1..Len(t)} \cup {Head(a)}
  <2>1. SUFFICES ASSUME NEW i \in 1..Len(a) PROVE a[i] \in {t[j] : j \in 1..Len(t)} \cup {Head(a)}
    OBVIOUS
  <2>2. CASE i = 1
    BY <1>1, <2>2
  <2>3. CASE i - 1 \in 1..(Len(a) - 1) /\ (i - 1) + 1 = i
    <3>1. t[i - 1] = a[i] /\ i - 1 \in 1..Len(t)
      BY <1>1, <2>3 DEF t
    <3>. QED  BY <3>1
  <2>. QED  BY <1>2, <2>2, <2>3
<1>6. \A x \in {t[i] : i \in 1..Len(t)} \cup {Head(a)} : x \in {a[i] : i \in 1..Len(a)}
  <2>1. ASSUME NEW i \in 1..Len(t) PROVE t[i] \in {a[j] : j \in 1..Len(a)}
    <3>1. t[i] = a[i + 1] /\ i + 1 \in 1..Len(a)
      BY <1>1, <1>3 DEF t
    <3>. QED  BY <3>1
  <2>. QED  BY <1>1, <1>4, <2>1
<1>. QED  BY <1>5, <1>6 DEF t

LEMMA SentBooksInit == Init => SentBooks /\ Fifo!Init
<1>. SUFFICES ASSUME Init PROVE SentBooks /\ Fifo!Init
  OBVIOUS
<1>1. Stream = <<>> /\ Len(got) = 0 /\ Len(Stream) = 0
  BY DEF Init, Stream
<1>2. Stream \in Seq(Bytes) /\ Ends(Stream) = {}
  BY <1>1 DEF Ends
<1>3. Len(LastBytes(Stream)) = 0
  <2>. DEFINE none == {}
  <2>1. none \in SUBSET (1..Len(Stream)) /\ Cardinality(none) = 0
    BY FS_EmptySet
  <2>2. Len(Pick(Stream, none)) = Cardinality(none)
    BY <1>2, <2>1, PickEmbeds
  <2>. QED  BY <1>2, <2>1, <2>2 DEF LastBytes
<1>4. InTransit = <<>>
  BY <1>3 DEF InTransit, Stream
<1>5. Received = <<>>
  BY <1>1 DEF Received
<1>6. \A w \in Writers : count[w] = 0
  BY DEF Init
<1>7. Fifo!Sent = {}
  BY <1>4, <1>5 DEF Fifo!Sent
<1>8. \A w \in Writers, k \in 1..PerWriter : <<w, k>> \notin Fifo!Sent /\ ~(k <= count[w])
  BY <1>6, <1>7
<1>. QED  BY <1>4, <1>5, <1>8 DEF SentBooks, Fifo!Init

\* Every step is one of the queue, and leaves the books right.
LEMMA SentBooksStep ==
    ASSUME Basics, StreamBooks, SentBooks, [Next]_vars
    PROVE  SentBooks' /\ [Fifo!Next]_Fifo!vars
<1>0. lab' = lab /\ (Looped' <=> Looped)
  <2>1. lab' = lab
    BY DEF Next, LockSend, EnterSend, StartFrame, SendPart, HangUp, ReceivePart, ReceiveOnce, vars
  <2>. QED  BY <2>1 DEF Looped
<1>1. CASE ~Looped
  <2>1. InTransit = <<>> /\ InTransit' = <<>> /\ Received = <<>> /\ Received' = <<>>
    BY <1>0, <1>1 DEF InTransit, Received
  <2>. QED  BY <1>0, <1>1, <2>1 DEF SentBooks, Fifo!vars
<1>2. CASE Looped
  <2>. DEFINE A == {InTransit[i] : i \in 1..Len(InTransit)}
              B == {Received[i] : i \in 1..Len(Received)}
              A1 == {InTransit'[i] : i \in 1..Len(InTransit')}
              B1 == {Received'[i] : i \in 1..Len(Received')}
  <2>1. Fifo!Sent = A \cup B /\ Fifo!Sent' = A1 \cup B1
    BY DEF Fifo!Sent
  <2>2. InTransit \in Seq(Frames) /\ Received \in Seq(Frames)
    BY <1>2 DEF SentBooks
  <2>3. \A w \in Writers, k \in 1..PerWriter : <<w, k>> \in A \cup B <=> k <= count[w]
    BY <1>2, <2>1 DEF SentBooks
  <2>4. PerWriter \in Nat /\ count \in [Writers -> 0..PerWriter]
    BY TcpFramingAssumption DEF Basics, TypeOK
  <2>. HIDE DEF A, B, A1, B1
  <2>5. CASE Unmoved
    <3>1. A1 = A /\ B1 = B
      BY <2>5 DEF Unmoved, A, B, A1, B1
    <3>. QED  BY <1>0, <2>1, <2>2, <2>3, <2>5, <3>1 DEF Unmoved, SentBooks, Fifo!vars
  <2>6. CASE Arrives
    <3>1. A = A1 \cup {Head(InTransit)}
      BY <2>2, <2>6, SentMoves DEF Arrives, A, A1
    <3>2. Head(InTransit) \in Frames /\ InTransit' \in Seq(Frames)
      BY <2>2, <2>6, HeadTailProperties DEF Arrives
    <3>3. B1 = B \cup {Head(InTransit)}
      BY <2>2, <2>6, <3>2, SentGrows DEF Arrives, B, B1
    <3>4. A1 \cup B1 = A \cup B
      BY <3>1, <3>3
    <3>5. Received' \in Seq(Frames)
      BY <2>2, <2>6, <3>2 DEF Arrives
    <3>6. SentBooks'
      BY <1>0, <2>1, <2>3, <2>6, <3>2, <3>4, <3>5 DEF Arrives, SentBooks
    <3>7. Fifo!Receive
      BY <2>6 DEF Arrives, Fifo!Receive
    <3>. QED  BY <3>6, <3>7 DEF Fifo!Next
  <2>7. ASSUME NEW w \in Writers, Finishes(w)
        PROVE  SentBooks' /\ [Fifo!Next]_Fifo!vars
    <3>. DEFINE t == turn[w]
    <3>1. t \in 1..PerWriter /\ t = count[w] + 1 /\ <<w, t>> \in Frames
      BY <2>7 DEF Finishes, Basics, TypeOK, SenderBooks
    <3>2. count' = [count EXCEPT ![w] = t] /\ Received' = Received /\ InTransit' = Append(InTransit, <<w, t>>)
      BY <2>7 DEF Finishes
    <3>. HIDE DEF t
    <3>3. A1 = A \cup {<<w, t>>} /\ B1 = B
      BY <2>2, <3>1, <3>2, SentGrows DEF A, A1, B, B1
    <3>4. count'[w] = t /\ \A v \in Writers : v # w => count'[v] = count[v]
      BY <2>4, <3>2
    <3>5. <<w, t>> \notin A \cup B /\ \A j \in 1..(t - 1) : <<w, j>> \in A \cup B
      <4>1. count[w] \in Nat /\ ~(t <= count[w])
        BY <2>4, <3>1
      <4>2. \A j \in 1..(t - 1) : j \in 1..PerWriter /\ j <= count[w]
        BY <2>4, <3>1
      <4>. QED  BY <2>3, <3>1, <4>1, <4>2
    <3>6. ASSUME NEW v \in Writers, NEW k \in 1..PerWriter
          PROVE  <<v, k>> \in A1 \cup B1 <=> k <= count'[v]
      <4>1. CASE v # w
        <5>1. <<v, k>> # <<w, t>>
          BY <4>1
        <5>. QED  BY <2>3, <3>3, <3>4, <4>1, <5>1
      <4>2. CASE v = w
        <5>1. <<w, k>> \in A \cup B <=> k <= count[w]
          BY <2>3
        <5>2. k <= t <=> k <= count[w] \/ k = t
          BY <2>4, <3>1
        <5>3. <<w, k>> = <<w, t>> <=> k = t
          OBVIOUS
        <5>. QED  BY <3>3, <3>4, <4>2, <5>1, <5>2, <5>3
      <4>. QED  BY <4>1, <4>2
    <3>7. InTransit' \in Seq(Frames)
      BY <2>2, <3>1, <3>2
    <3>8. SentBooks'
      BY <1>0, <2>1, <2>2, <3>2, <3>6, <3>7 DEF SentBooks
    <3>9. Fifo!Send(w, t)
      BY <2>1, <3>2, <3>5 DEF Fifo!Send
    <3>. QED  BY <3>1, <3>8, <3>9 DEF Fifo!Next
  <2>. QED  BY <1>2, <2>5, <2>6, <2>7, StepMaps
<1>. QED  BY <1>1, <1>2

\* With the loops and the mutex the stream is a queue of whole frames, each
\* received at most once, in the order in which the sends were completed: what
\* every other module takes a connection for, however the kernel cuts the bytes
\* and how little of a frame the connection may hold.
THEOREM Refinement == Spec => FifoSpec
<1>1. Init => SentBooks /\ Fifo!Init
  BY SentBooksInit
<1>2. Basics /\ StreamBooks /\ SentBooks /\ [Next]_vars => SentBooks' /\ [Fifo!Next]_Fifo!vars
  BY SentBooksStep
<1>. QED
  BY <1>1, <1>2, StreamBooksHold, PTL DEF Spec, FifoSpec, Fifo!Spec
=============================================================================
