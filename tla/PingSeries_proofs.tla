--------------------------- MODULE PingSeries_proofs ---------------------------
(***************************************************************************)
(* Proofs about Reliability, and about PingSeries on top of it, for every  *)
(* number of messages and of series, retry limit, window size and set of   *)
(* PINGs, with or without the network simulation.  The theorems about Spec *)
(* are those of the retry/ACK layer alone; the steps of a ping series are  *)
(* steps of that layer, so they hold of PingSpec as well.                  *)
(***************************************************************************)
EXTENDS PingSeries, FiniteSetTheorems, TLAPS

-----------------------------------------------------------------------------
(* The duplicate filter.                                                   *)

\* rememberMessageId never exceeds the window: below the window it
\* appends, at the window it forgets exactly the oldest id.
LEMMA RememberProperties ==
    ASSUME NEW S, NEW ids \in Seq(S), NEW id \in S,
           Len(ids) <= DEDUP_WINDOW,
           NEW new, new = rememberMessageId(ids, id)
    PROVE  /\ Len(new) = IF Len(ids) < DEDUP_WINDOW THEN Len(ids) + 1
                                                    ELSE DEDUP_WINDOW
           /\ new[Len(new)] = id
           /\ \A i \in 1..(Len(new) - 1) :
                  new[i] = ids[i + (Len(ids) + 1 - Len(new))]
<1>1. CASE Len(ids) < DEDUP_WINDOW
  BY <1>1 DEF rememberMessageId
<1>2. CASE ~(Len(ids) < DEDUP_WINDOW)
  <2>1. Len(ids) = DEDUP_WINDOW /\ ids # <<>>
    BY <1>2, DedupWindowAssumption
  <2>2. rememberMessageId(ids, id) = Append(Tail(ids), id)
    BY <1>2 DEF rememberMessageId
  <2>3. /\ Tail(ids) \in Seq(S)
        /\ Len(Tail(ids)) = Len(ids) - 1
        /\ \A i \in 1..(Len(ids) - 1) : Tail(ids)[i] = ids[i + 1]
    BY <2>1
  <2>. QED  BY <1>2, <2>1, <2>2, <2>3, DedupWindowAssumption
<1>. QED  BY <1>1, <1>2

\* Whatever the length, rememberMessageId yields an array of ids.
LEMMA RememberType ==
    ASSUME NEW S, NEW ids \in Seq(S), NEW id \in S
    PROVE  rememberMessageId(ids, id) \in Seq(S)
<1>1. CASE Len(ids) < DEDUP_WINDOW
  BY <1>1 DEF rememberMessageId
<1>2. CASE ~(Len(ids) < DEDUP_WINDOW)
  <2>1. ids # <<>>
    BY <1>2, DedupWindowAssumption
  <2>2. Tail(ids) \in Seq(S)
    BY <2>1
  <2>. QED  BY <1>2, <2>2 DEF rememberMessageId
<1>. QED  BY <1>1, <1>2

-----------------------------------------------------------------------------
(* Type correctness.                                                       *)

\* Every reachable state is well typed: in particular no retry counter passes
\* MAX_RETRIES and every id on the wire is one the client has.
THEOREM TypeCorrect == Spec => []TypeOK
<1>1. Init => TypeOK
  <2>. SUFFICES ASSUME Init PROVE TypeOK
    OBVIOUS
  <2>1. nextLocalId \in 1..(MaxMsg + 1)
    BY ReliabilityAssumption DEF Init
  <2>2. retries \in [Ids -> 0..MAX_RETRIES] /\ sends \in [Ids -> Nat]
    BY ReliabilityAssumption DEF Init
  <2>. QED  BY <2>1, <2>2 DEF Init, TypeOK
<1>2. TypeOK /\ [Next]_vars => TypeOK'
  <2>. SUFFICES ASSUME TypeOK, [Next]_vars PROVE TypeOK'
    OBVIOUS
  <2>. USE DEF TypeOK, clientVars, historyVars, serverVars
  <2>1. CASE SubmitMessage
    <3>1. nextLocalId \in Ids /\ nextLocalId' \in 1..(MaxMsg + 1)
      BY <2>1, ReliabilityAssumption DEF SubmitMessage, Ids
    <3>2. toServer' \in Seq(Ids) /\ sends' \in [Ids -> Nat]
      BY <2>1, <3>1 DEF SubmitMessage, Transmit
    <3>. QED  BY <2>1, <3>1, <3>2 DEF SubmitMessage
  <2>2. CASE RegisterPending
    <3>1. pending' \in SUBSET Ids /\ retries' \in [Ids -> 0..MAX_RETRIES]
      BY <2>2, ReliabilityAssumption DEF RegisterPending
    <3>. QED  BY <2>2, <3>1 DEF RegisterPending
  <2>3. ASSUME NEW expired \in SUBSET pending, ScanPending(expired)
        PROVE  TypeOK'
    <3>1. toResend' \in SUBSET Ids /\ toTimeout' \in SUBSET Ids
      BY <2>3 DEF ScanPending
    <3>2. \A id \in toResend' : retries[id] < MAX_RETRIES
      BY <2>3, ReliabilityAssumption DEF ScanPending, Exhausted
    <3>3. retries' \in [Ids -> 0..MAX_RETRIES]
      BY <2>3, <3>2, ReliabilityAssumption DEF ScanPending
    <3>. QED  BY <2>3, <3>1, <3>3 DEF ScanPending
  <2>4. CASE Resend
    <3>1. PICK id \in Ids : toResend' = toResend \ {id} /\ Transmit(id)
      BY <2>4 DEF Resend
    <3>2. toServer' \in Seq(Ids) /\ sends' \in [Ids -> Nat]
      BY <3>1 DEF Transmit
    <3>. QED  BY <2>4, <3>1, <3>2 DEF Resend
  <2>5. CASE TimeOut
    BY <2>5 DEF TimeOut
  <2>6. CASE DropIncoming
    BY <2>6 DEF DropIncoming
  <2>7. CASE AnswerDuplicate
    <3>1. Head(toServer) \in Ids /\ toServer' \in Seq(Ids)
      BY <2>7 DEF AnswerDuplicate
    <3>2. Reply("ACK", Head(toServer)) \in Replies
      BY <3>1 DEF Reply, Replies
    <3>3. toClient' \in Seq(Replies)
      BY <2>7, <3>2 DEF AnswerDuplicate
    <3>. QED  BY <2>7, <3>1, <3>3 DEF AnswerDuplicate
  <2>8. CASE ProcessNew
    <3>1. Head(toServer) \in Ids /\ toServer' \in Seq(Ids)
      BY <2>8 DEF ProcessNew
    <3>2. \A type \in {"ACK", "PONG"} : Reply(type, Head(toServer)) \in Replies
      BY <3>1 DEF Reply, Replies
    <3>3. Answer(Head(toServer)) \in Seq(Replies)
      BY <3>2 DEF Answer
    <3>4. toClient' \in Seq(Replies)
      BY <2>8, <3>3 DEF ProcessNew
    <3>5. last_ids' \in Seq(Ids)
      BY <2>8, <3>1, RememberType DEF ProcessNew
    <3>6. processed' \in Seq(Ids)
      BY <2>8, <3>1 DEF ProcessNew
    <3>. QED  BY <2>8, <3>1, <3>4, <3>5, <3>6 DEF ProcessNew
  <2>9. CASE ReceiveReply
    <3>1. Head(toClient) \in Replies /\ toClient' \in Seq(Replies)
      BY <2>9 DEF ReceiveReply
    <3>2. Head(toClient).id \in Ids
      BY <3>1 DEF Replies
    <3>. QED  BY <2>9, <3>1, <3>2 DEF ReceiveReply
  <2>10. CASE SubmitFails
    <3>1. nextLocalId \in Ids /\ nextLocalId' \in 1..(MaxMsg + 1)
      BY <2>10, ReliabilityAssumption DEF SubmitFails, Ids
    <3>. QED  BY <2>10, <3>1 DEF SubmitFails
  <2>11. CASE UNCHANGED vars
    BY <2>11 DEF vars
  <2>. QED
    BY <2>1, <2>2, <2>3, <2>4, <2>5, <2>6, <2>7, <2>8, <2>9, <2>10, <2>11 DEF Next
<1>. QED  BY <1>1, <1>2, PTL DEF Spec

\* What was put on the wire.
Sent == Submitted \ unsent

\* A send that fails uses an id up and leaves the rest alone.
LEMMA FailedSend ==
    ASSUME TypeOK, SubmitFails
    PROVE  /\ nextLocalId \in Ids
           /\ nextLocalId' = nextLocalId + 1
           /\ nextLocalId \notin Submitted
           /\ \A id \in Submitted : id < nextLocalId
           /\ Submitted' = Submitted \cup {nextLocalId}
           /\ unsent' = unsent \cup {nextLocalId}
           /\ Sent' = Sent
           /\ UNCHANGED <<sending, pending, retries, toResend, toTimeout, toServer, toClient,
                          last_ids, processed, dropped, acked, failed, sends>>
<1>1. /\ nextLocalId \in Ids /\ nextLocalId \in Nat /\ nextLocalId > 0
      /\ nextLocalId' = nextLocalId + 1
  BY ReliabilityAssumption DEF SubmitFails, TypeOK, Ids
<1>2. /\ Submitted' = Submitted \cup {nextLocalId}
      /\ \A id \in Submitted : id \in Nat /\ id < nextLocalId
  BY <1>1 DEF Submitted
<1>3. nextLocalId \notin Submitted
  BY <1>1, <1>2
<1>4. unsent' = unsent \cup {nextLocalId}
  BY DEF SubmitFails
<1>5. Sent' = Sent
  BY <1>2, <1>3, <1>4 DEF Sent
<1>. QED  BY <1>1, <1>2, <1>3, <1>4, <1>5 DEF SubmitFails, serverVars

-----------------------------------------------------------------------------
(* The window and what it protects.                                        *)

\* last_ids is the tail of the processing order: everything while it is not
\* full, the newest DEDUP_WINDOW ids from then on.  This is what makes the
\* property inductive: "id is not in last_ids" says by itself nothing about
\* where in `processed' id occurs.
WindowIsSuffix ==
    /\ Len(last_ids) <= DEDUP_WINDOW
    /\ Len(last_ids) <= Len(processed)
    /\ Len(last_ids) < DEDUP_WINDOW => Len(last_ids) = Len(processed)
    /\ \A i \in 1..Len(last_ids) :
          last_ids[i] = processed[Len(processed) - Len(last_ids) + i]

\* Processing a new message keeps the window a suffix of the order.
LEMMA ProcessNewKeepsSuffix ==
    ASSUME TypeOK, WindowIsSuffix, ProcessNew
    PROVE  WindowIsSuffix'
<1>. DEFINE h == Head(toServer)
            n == Len(processed)
            m == Len(last_ids)
<1>1. h \in Ids /\ last_ids \in Seq(Ids) /\ processed \in Seq(Ids) /\ n \in Nat /\ m \in Nat
  BY DEF TypeOK, ProcessNew
<1>2. /\ processed' = Append(processed, h)
      /\ Len(processed') = n + 1
      /\ processed'[n + 1] = h
      /\ \A i \in 1..n : processed'[i] = processed[i]
  BY <1>1 DEF ProcessNew
<1>3. /\ Len(last_ids') = IF m < DEDUP_WINDOW THEN m + 1 ELSE DEDUP_WINDOW
      /\ last_ids'[Len(last_ids')] = h
      /\ \A i \in 1..(Len(last_ids') - 1) : last_ids'[i] = last_ids[i + (m + 1 - Len(last_ids'))]
  <2>1. Len(last_ids) <= DEDUP_WINDOW /\ last_ids' = rememberMessageId(last_ids, h)
    BY DEF ProcessNew, WindowIsSuffix
  <2>. HIDE DEF h
  <2>2. /\ Len(last_ids') = IF Len(last_ids) < DEDUP_WINDOW THEN Len(last_ids) + 1
                                                            ELSE DEDUP_WINDOW
        /\ last_ids'[Len(last_ids')] = h
        /\ \A i \in 1..(Len(last_ids') - 1) :
               last_ids'[i] = last_ids[i + (Len(last_ids) + 1 - Len(last_ids'))]
    <3>. HIDE DEF n, m
    <3>1. last_ids \in Seq(Ids) /\ h \in Ids
      BY <1>1
    <3>. QED  BY <2>1, <3>1, RememberProperties, SMTT(60)
  <2>. QED  BY <2>2
<1>. HIDE DEF h, n, m
<1>4. /\ m <= DEDUP_WINDOW /\ m <= n
      /\ m < DEDUP_WINDOW => m = n
      /\ \A i \in 1..m : last_ids[i] = processed[n - m + i]
  BY DEF WindowIsSuffix, n, m
<1>5. DEDUP_WINDOW \in Nat /\ DEDUP_WINDOW > 0
  BY DedupWindowAssumption
<1>6. CASE m < DEDUP_WINDOW
  <2>1. m = n /\ Len(last_ids') = n + 1
    BY <1>1, <1>3, <1>4, <1>6
  <2>2. \A i \in 1..n : last_ids'[i] = processed'[i]
    BY <1>1, <1>2, <1>3, <1>4, <2>1
  <2>3. last_ids'[n + 1] = processed'[n + 1]
    BY <1>2, <1>3, <2>1
  <2>4. \A i \in 1..Len(last_ids') :
           last_ids'[i] = processed'[Len(processed') - Len(last_ids') + i]
    BY <1>1, <1>2, <2>1, <2>2, <2>3
  <2>. QED  BY <1>1, <1>2, <1>4, <1>5, <1>6, <2>1, <2>4 DEF WindowIsSuffix
<1>7. CASE ~(m < DEDUP_WINDOW)
  <2>1. m = DEDUP_WINDOW /\ Len(last_ids') = m
    BY <1>1, <1>3, <1>4, <1>5, <1>7
  <2>2. \A i \in 1..(m - 1) : last_ids'[i] = processed'[n + 1 - m + i]
    <3>. TAKE i \in 1..(m - 1)
    <3>1. last_ids'[i] = last_ids[i + 1]
      BY <1>1, <1>3, <2>1
    <3>2. i + 1 \in 1..m /\ n - m + (i + 1) = n + 1 - m + i /\ n + 1 - m + i \in 1..n
      BY <1>1, <1>4
    <3>. QED  BY <1>2, <1>4, <3>1, <3>2
  <2>3. last_ids'[m] = processed'[n + 1 - m + m]
    BY <1>1, <1>2, <1>3, <2>1
  <2>4. \A i \in 1..Len(last_ids') :
           last_ids'[i] = processed'[Len(processed') - Len(last_ids') + i]
    <3>. TAKE i \in 1..Len(last_ids')
    <3>1. Len(processed') - Len(last_ids') + i = n + 1 - m + i
      BY <1>1, <1>2, <2>1
    <3>2. CASE i = m
      BY <2>3, <3>1, <3>2
    <3>3. CASE i # m
      <4>1. i \in 1..(m - 1)
        BY <1>1, <2>1, <3>3
      <4>. QED  BY <2>2, <3>1, <4>1
    <3>. QED  BY <3>2, <3>3
  <2>5. Len(last_ids') <= DEDUP_WINDOW /\ Len(last_ids') <= Len(processed')
    BY <1>1, <1>2, <1>4, <2>1
  <2>6. ~(Len(last_ids') < DEDUP_WINDOW)
    BY <1>5, <2>1
  <2>. QED  BY <2>4, <2>5, <2>6 DEF WindowIsSuffix
<1>. QED  BY <1>6, <1>7

\* A message that the filter does not know did not occur among the last
\* DEDUP_WINDOW processed ones.
LEMMA ProcessNewKeepsDistance ==
    ASSUME TypeOK, WindowIsSuffix, WindowedAtMostOnce, ProcessNew
    PROVE  WindowedAtMostOnce'
<1>. DEFINE h == Head(toServer)
            n == Len(processed)
            m == Len(last_ids)
<1>1. h \in Ids /\ n \in Nat /\ m \in Nat /\ DEDUP_WINDOW \in Nat
  BY DedupWindowAssumption DEF TypeOK, ProcessNew
<1>2. /\ Len(processed') = n + 1
      /\ processed'[n + 1] = h
      /\ \A i \in 1..n : processed'[i] = processed[i]
  BY <1>1 DEF ProcessNew, TypeOK
<1>3. \A i \in 1..m : last_ids[i] # h
  BY DEF ProcessNew, hasSeenMessageId
<1>4. /\ m <= DEDUP_WINDOW /\ m <= n
      /\ m < DEDUP_WINDOW => m = n
      /\ \A i \in 1..m : last_ids[i] = processed[n - m + i]
  BY DEF WindowIsSuffix
<1>5. \A i, j \in 1..n : i < j /\ processed[i] = processed[j] => j - i > DEDUP_WINDOW
  BY DEF WindowedAtMostOnce
<1>. HIDE DEF h, n, m
<1>6. ASSUME NEW i \in 1..(n + 1), NEW j \in 1..(n + 1),
             i < j, processed'[i] = processed'[j]
      PROVE  j - i > DEDUP_WINDOW
  <2>1. CASE j <= n
    BY <1>1, <1>2, <1>5, <1>6, <2>1
  <2>2. CASE j = n + 1
    <3>1. i \in 1..n /\ processed[i] = h
      BY <1>1, <1>2, <1>6, <2>2
    <3>2. SUFFICES ASSUME n - m < i PROVE FALSE
      BY <1>1, <1>4, <1>6, <2>2, <3>1
    <3>3. i - (n - m) \in 1..m /\ n - m + (i - (n - m)) = i
      BY <1>1, <3>1, <3>2
    <3>. QED  BY <1>3, <1>4, <3>1, <3>3
  <2>. QED  BY <1>1, <2>1, <2>2
<1>. QED  BY <1>2, <1>6 DEF WindowedAtMostOnce

\* The two facts form one inductive invariant.
LEMMA WindowInvariant == Spec => [](WindowIsSuffix /\ WindowedAtMostOnce)
<1>1. Init => WindowIsSuffix /\ WindowedAtMostOnce
  BY DedupWindowAssumption DEF Init, WindowIsSuffix, WindowedAtMostOnce
<1>2. TypeOK /\ WindowIsSuffix /\ WindowedAtMostOnce /\ [Next]_vars
        => (WindowIsSuffix /\ WindowedAtMostOnce)'
  <2>. SUFFICES ASSUME TypeOK, WindowIsSuffix, WindowedAtMostOnce, [Next]_vars
                PROVE  (WindowIsSuffix /\ WindowedAtMostOnce)'
    OBVIOUS
  <2>1. CASE ProcessNew
    BY <2>1, ProcessNewKeepsSuffix, ProcessNewKeepsDistance
  <2>2. CASE UNCHANGED <<last_ids, processed>>
    BY <2>2 DEF WindowIsSuffix, WindowedAtMostOnce
  <2>. QED
    BY <2>1, <2>2 DEF Next, vars, serverVars, SubmitMessage, SubmitFails, RegisterPending,
       ScanPending, Resend, TimeOut, DropIncoming, AnswerDuplicate, ReceiveReply
<1>. QED  BY <1>1, <1>2, TypeCorrect, PTL DEF Spec

\* A copy that comes back while its id is in last_ids is never processed, in
\* every execution, for every window, retry limit and number of messages.
THEOREM DedupCorrect == Spec => []WindowedAtMostOnce
BY WindowInvariant, PTL

\* Among W + 1 neighbours in the order all ids differ, and there are no more than
\* MaxMsg of them.
LEMMA WindowOfDistinct ==
    ASSUME TypeOK, WindowedAtMostOnce, MaxMsg <= DEDUP_WINDOW
    PROVE  \A i, j \in 1..Len(processed) : processed[i] = processed[j] => i = j
<1>. DEFINE W == DEDUP_WINDOW
            n == Len(processed)
<1>1. /\ W \in Nat /\ n \in Nat /\ MaxMsg \in Nat /\ MaxMsg <= W
      /\ \A i \in 1..n : processed[i] \in Ids
  BY DedupWindowAssumption, ReliabilityAssumption DEF TypeOK
<1>2. \A i, j \in 1..n : i < j /\ processed[i] = processed[j] => j - i > W
  BY DEF WindowedAtMostOnce
<1>. HIDE DEF W, n
<1>3. ASSUME NEW i \in 1..n, NEW j \in 1..n, i < j, processed[i] = processed[j]
      PROVE  FALSE
  <2>. DEFINE S == 1..(W + 1)
              f == [k \in S |-> processed[i + k - 1]]
  <2>1. j - i > W
    BY <1>2, <1>3
  <2>2. \A k \in S : i + k - 1 \in 1..n /\ k \in Nat
    BY <1>1, <2>1
  <2>3. ASSUME NEW k \in S, NEW l \in S, k < l, f[k] = f[l]
        PROVE  FALSE
    <3>1. (i + l - 1) - (i + k - 1) <= W /\ i + k - 1 < i + l - 1
      BY <1>1, <2>2, <2>3
    <3>2. processed[i + k - 1] = processed[i + l - 1]
      BY <2>3
    <3>3. (i + l - 1) - (i + k - 1) > W
      BY <1>2, <2>2, <3>1, <3>2
    <3>. QED  BY <1>1, <2>2, <3>1, <3>3
  <2>4. f \in Injection(S, Ids)
    <3>1. f \in [S -> Ids]
      BY <1>1, <2>2
    <3>2. \A k, l \in S : f[k] = f[l] => k = l
      <4>. HIDE DEF f
      <4>. QED  BY <1>1, <2>3
    <3>. QED  BY <3>1, <3>2 DEF Injection, IsInjective
  <2>5. IsFiniteSet(Ids) /\ Cardinality(Ids) = MaxMsg /\ Cardinality(S) = W + 1
    <3>1. IsFiniteSet(Ids) /\ Cardinality(Ids) = MaxMsg
      BY <1>1, FS_Interval DEF Ids
    <3>2. Cardinality(S) = W + 1
      BY <1>1, FS_Interval
    <3>. QED  BY <3>1, <3>2
  <2>. HIDE DEF f, S
  <2>6. Cardinality(S) <= Cardinality(Ids)
    BY <2>4, <2>5, FS_Injection
  <2>. QED  BY <1>1, <2>5, <2>6
<1>. QED  BY <1>1, <1>3 DEF n

\* In a session of no more messages than the filter remembers each one is processed
\* at most once, although a message is put on the wire up to 1 + MAX_RETRIES times.
THEOREM ShortSessionsProcessOnce ==
    ASSUME MaxMsg <= DEDUP_WINDOW
    PROVE  Spec => [](\A i, j \in 1..Len(processed) : processed[i] = processed[j] => i = j)
<1>1. TypeOK /\ WindowedAtMostOnce
        => \A i, j \in 1..Len(processed) : processed[i] = processed[j] => i = j
  BY WindowOfDistinct
<1>. QED  BY <1>1, TypeCorrect, DedupCorrect, PTL

-----------------------------------------------------------------------------
(* Honest acknowledgements.                                                *)

\* Processing only adds to what was processed, and a known id was processed.
LEMMA DeliveredFacts ==
    ASSUME TypeOK, WindowIsSuffix
    PROVE  /\ \A i \in 1..Len(last_ids) : last_ids[i] \in Delivered
           /\ ProcessNew => Delivered' = Delivered \cup {Head(toServer)}
<1>1. last_ids \in Seq(Ids) /\ processed \in Seq(Ids) /\ Len(processed) \in Nat
  BY DEF TypeOK
<1>2. ASSUME NEW i \in 1..Len(last_ids) PROVE last_ids[i] \in Delivered
  <2>1. /\ last_ids[i] = processed[Len(processed) - Len(last_ids) + i]
        /\ Len(processed) - Len(last_ids) + i \in 1..Len(processed)
    BY <1>1 DEF WindowIsSuffix
  <2>. QED  BY <2>1 DEF Delivered
<1>3. ASSUME ProcessNew PROVE Delivered' = Delivered \cup {Head(toServer)}
  <2>1. Head(toServer) \in Ids
    BY <1>3 DEF ProcessNew, TypeOK
  <2>2. /\ Len(processed') = Len(processed) + 1
        /\ processed'[Len(processed) + 1] = Head(toServer)
        /\ \A i \in 1..Len(processed) : processed'[i] = processed[i]
    BY <1>1, <1>3, <2>1 DEF ProcessNew
  <2>3. 1..Len(processed') = 1..Len(processed) \cup {Len(processed) + 1}
    BY <1>1, <2>2
  <2>. QED  BY <2>2, <2>3 DEF Delivered
<1>. QED  BY <1>2, <1>3

\* Every message the client reports as acknowledged was processed, and so was
\* every one an ACK or PONG on the wire speaks of.
THEOREM AcksHonest == Spec => []AckedWasProcessed
<1>1. Init => AckedWasProcessed
  BY DEF Init, AckedWasProcessed
<1>2. TypeOK /\ WindowIsSuffix /\ AckedWasProcessed /\ [Next]_vars => AckedWasProcessed'
  <2>. SUFFICES ASSUME TypeOK, WindowIsSuffix, AckedWasProcessed, [Next]_vars
                PROVE  AckedWasProcessed'
    OBVIOUS
  <2>0. toClient \in Seq(Replies) /\ Len(toClient) \in Nat
    BY DEF TypeOK
  <2>1. CASE AnswerDuplicate
    <3>1. Head(toServer) \in Ids /\ Head(toServer) \in Delivered
      <4>1. toServer # <<>> /\ hasSeenMessageId(last_ids, Head(toServer))
        BY <2>1 DEF AnswerDuplicate
      <4>2. Head(toServer) \in Ids
        BY <4>1 DEF TypeOK
      <4>3. PICK i \in 1..Len(last_ids) : last_ids[i] = Head(toServer)
        BY <4>1 DEF hasSeenMessageId
      <4>. QED  BY <4>2, <4>3, DeliveredFacts
    <3>2. Reply("ACK", Head(toServer)) \in Replies /\ Reply("ACK", Head(toServer)).id = Head(toServer)
      BY <3>1 DEF Reply, Replies
    <3>3. \A i \in 1..Len(toClient') : toClient'[i].id \in Delivered
      BY <2>0, <2>1, <3>1, <3>2 DEF AnswerDuplicate, AckedWasProcessed
    <3>. QED
      BY <2>1, <3>3 DEF AnswerDuplicate, AckedWasProcessed, Delivered, serverVars, historyVars
  <2>2. CASE ProcessNew
    <3>1. Head(toServer) \in Ids
      BY <2>2 DEF ProcessNew, TypeOK
    <3>2. \A type \in {"ACK", "PONG"} : /\ Reply(type, Head(toServer)) \in Replies
                                        /\ Reply(type, Head(toServer)).id = Head(toServer)
      BY <3>1 DEF Reply, Replies
    <3>3. /\ Answer(Head(toServer)) \in Seq(Replies)
          /\ \A i \in 1..Len(Answer(Head(toServer))) : Answer(Head(toServer))[i].id = Head(toServer)
      BY <3>2 DEF Answer
    <3>4. toClient' = toClient \o Answer(Head(toServer)) /\ acked' = acked
      BY <2>2 DEF ProcessNew, historyVars
    <3>5. Delivered' = Delivered \cup {Head(toServer)}
      BY <2>2, DeliveredFacts
    <3>6. ASSUME NEW i \in 1..Len(toClient')
          PROVE  toClient'[i].id \in Delivered'
      <4>1. CASE i <= Len(toClient)
        BY <2>0, <3>3, <3>4, <3>5, <3>6, <4>1 DEF AckedWasProcessed
      <4>2. CASE i > Len(toClient)
        <5>1. /\ i - Len(toClient) \in 1..Len(Answer(Head(toServer)))
              /\ toClient'[i] = Answer(Head(toServer))[i - Len(toClient)]
          BY <2>0, <3>3, <3>4, <3>6, <4>2
        <5>. QED  BY <3>3, <3>5, <5>1
      <4>. QED  BY <2>0, <4>1, <4>2
    <3>. QED  BY <3>4, <3>5, <3>6 DEF AckedWasProcessed
  <2>3. CASE ReceiveReply
    <3>1. Delivered' = Delivered
      BY <2>3 DEF ReceiveReply, Delivered, serverVars
    <3>2. Head(toClient) = toClient[1] /\ 1 \in 1..Len(toClient)
      BY <2>0, <2>3 DEF ReceiveReply
    <3>3. acked' \subseteq Delivered
      BY <2>3, <3>2 DEF ReceiveReply, AckedWasProcessed
    <3>4. \A i \in 1..Len(toClient') : toClient'[i].id \in Delivered
      BY <2>0, <2>3 DEF ReceiveReply, AckedWasProcessed
    <3>. QED  BY <3>1, <3>3, <3>4 DEF AckedWasProcessed
  <2>4. CASE UNCHANGED <<acked, toClient, processed>>
    BY <2>4 DEF AckedWasProcessed, Delivered
  <2>. QED
    BY <2>1, <2>2, <2>3, <2>4, FailedSend DEF Next, vars, serverVars, historyVars,
       SubmitMessage, RegisterPending, ScanPending, Resend, TimeOut, DropIncoming
<1>. QED  BY <1>1, <1>2, TypeCorrect, WindowInvariant, PTL DEF Spec

-----------------------------------------------------------------------------
(* Verdicts.                                                               *)

\* The main thread works on one message, whose id it has already taken.
OneAtATime ==
    /\ \A a, b \in sending : a = b
    /\ sending \subseteq Submitted

\* The client's books never lose a message of the session without a verdict.
THEOREM BooksComplete == Spec => []NothingForgotten
<1>1. Init => OneAtATime /\ NothingForgotten
  BY DEF Init, OneAtATime, NothingForgotten, Submitted
<1>2. TypeOK /\ OneAtATime /\ NothingForgotten /\ [Next]_vars
        => (OneAtATime /\ NothingForgotten)'
  <2>. SUFFICES ASSUME TypeOK, OneAtATime, NothingForgotten, [Next]_vars
                PROVE  (OneAtATime /\ NothingForgotten)'
    OBVIOUS
  <2>. USE DEF historyVars, clientVars
  <2>1. CASE SubmitMessage
    <3>1. sending' = {nextLocalId} /\ nextLocalId' = nextLocalId + 1 /\ nextLocalId \in Nat /\ nextLocalId > 0
      BY <2>1, ReliabilityAssumption DEF SubmitMessage, TypeOK
    <3>2. Submitted' = Submitted \cup {nextLocalId}
      BY <3>1 DEF Submitted
    <3>3. sending = {} /\ UNCHANGED <<pending, acked, failed, unsent>>
      BY <2>1 DEF SubmitMessage
    <3>. QED  BY <3>1, <3>2, <3>3 DEF OneAtATime, NothingForgotten
  <2>2. CASE RegisterPending
    <3>1. Submitted' = Submitted
      BY <2>2 DEF RegisterPending, Submitted
    <3>2. PICK id \in sending : pending' = pending \cup {id}
      BY <2>2 DEF RegisterPending
    <3>. QED
      BY <2>2, <3>1, <3>2 DEF RegisterPending, OneAtATime, NothingForgotten
  <2>3. CASE TimeOut
    <3>1. Submitted' = Submitted
      BY <2>3 DEF TimeOut, Submitted
    <3>. QED  BY <2>3, <3>1 DEF TimeOut, OneAtATime, NothingForgotten
  <2>4. CASE ReceiveReply
    <3>1. Submitted' = Submitted
      BY <2>4 DEF ReceiveReply, Submitted
    <3>. QED  BY <2>4, <3>1 DEF ReceiveReply, OneAtATime, NothingForgotten
  <2>5. CASE SubmitFails
    BY <2>5, FailedSend DEF OneAtATime, NothingForgotten
  <2>6. CASE UNCHANGED <<nextLocalId, sending, pending, acked, failed, unsent>>
    <3>1. Submitted' = Submitted
      BY <2>6 DEF Submitted
    <3>. QED  BY <2>6, <3>1 DEF OneAtATime, NothingForgotten
  <2>. QED
    BY <2>1, <2>2, <2>3, <2>4, <2>5, <2>6 DEF Next, vars, ScanPending, Resend,
       DropIncoming, AnswerDuplicate, ProcessNew
<1>. QED  BY <1>1, <1>2, TypeCorrect, PTL DEF Spec

-----------------------------------------------------------------------------
(* Refinement.                                                             *)

\* An id that the filter does not know is none of the last DEDUP_WINDOW
\* processed ones, so processing it is a step of the abstract specification.
LEMMA ProcessNewRefines ==
    ASSUME TypeOK, WindowIsSuffix, ProcessNew
    PROVE  AtMostOnce!Process(Head(toServer))
<1>. DEFINE h == Head(toServer)
<1>1. processed' = Append(processed, h) /\ UNCHANGED acked
  BY DEF ProcessNew, historyVars
<1>2. ASSUME NEW i \in 1..Len(processed), i > Len(processed) - DEDUP_WINDOW,
             processed[i] = h
      PROVE  FALSE
  <2>1. \A k \in 1..Len(last_ids) : last_ids[k] # h
    BY DEF ProcessNew, hasSeenMessageId
  <2>2. /\ Len(last_ids) <= DEDUP_WINDOW
        /\ Len(last_ids) < DEDUP_WINDOW => Len(last_ids) = Len(processed)
        /\ \A k \in 1..Len(last_ids) :
              last_ids[k] = processed[Len(processed) - Len(last_ids) + k]
    BY DEF WindowIsSuffix
  <2>0. Len(last_ids) \in Nat /\ Len(processed) \in Nat /\ DEDUP_WINDOW \in Nat
    BY DedupWindowAssumption DEF TypeOK
  <2>. HIDE DEF h
  <2>. DEFINE k == i - (Len(processed) - Len(last_ids))
  <2>3. k \in 1..Len(last_ids) /\ Len(processed) - Len(last_ids) + k = i
    BY <1>2, <2>0, <2>2
  <2>. HIDE DEF k
  <2>. QED  BY <1>2, <2>1, <2>2, <2>3
<1>3. h \notin AtMostOnce!Remembered
  BY <1>2 DEF AtMostOnce!Remembered
<1>. QED  BY <1>1, <1>3 DEF AtMostOnce!Process

\* A verdict that is printed is a step of the abstract specification, since the
\* answer speaks of a message that was processed.
LEMMA ReceiveReplyRefines ==
    ASSUME TypeOK, AckedWasProcessed, ReceiveReply
    PROVE  \/ \E id \in Ids : AtMostOnce!Acknowledge(id)
           \/ UNCHANGED AtMostOnce!vars
<1>. DEFINE id == Head(toClient).id
<1>1. /\ UNCHANGED processed
      /\ acked' = IF id \in pending THEN acked \cup {id} ELSE acked
  BY DEF ReceiveReply, serverVars
<1>2. toClient \in Seq(Replies) /\ toClient # <<>>
  BY DEF TypeOK, ReceiveReply
<1>3. Head(toClient) = toClient[1] /\ 1 \in 1..Len(toClient) /\ toClient[1] \in Replies
  BY <1>2
<1>4. id \in Ids /\ id \in Delivered
  BY <1>3 DEF AckedWasProcessed, Replies
<1>5. id \in AtMostOnce!Delivered
  BY <1>4 DEF Delivered, AtMostOnce!Delivered
<1>. HIDE DEF id
<1>. QED  BY <1>1, <1>4, <1>5 DEF AtMostOnce!Acknowledge, AtMostOnce!vars

\* Whatever is dropped, delayed or resent, the session of LAB6 implements
\* AtMostOnceDelivery: every step of the detailed specification is a step of the
\* abstract one or leaves `processed' and `acked' as they are.
THEOREM Refinement == Spec => AtMostOnceSpec
<1>1. Init => AtMostOnce!Init
  BY DEF Init, AtMostOnce!Init
<1>2. TypeOK /\ WindowIsSuffix /\ AckedWasProcessed /\ [Next]_vars
        => [AtMostOnce!Next]_AtMostOnce!vars
  <2>. SUFFICES ASSUME TypeOK, WindowIsSuffix, AckedWasProcessed, [Next]_vars
                PROVE  AtMostOnce!Next \/ UNCHANGED AtMostOnce!vars
    OBVIOUS
  <2>1. CASE ProcessNew
    <3>1. Head(toServer) \in Ids
      BY <2>1 DEF TypeOK, ProcessNew
    <3>. QED  BY <2>1, <3>1, ProcessNewRefines DEF AtMostOnce!Next
  <2>2. CASE ReceiveReply
    BY <2>2, ReceiveReplyRefines DEF AtMostOnce!Next
  <2>3. CASE UNCHANGED <<acked, processed>>
    BY <2>3 DEF AtMostOnce!vars
  <2>. QED
    BY <2>1, <2>2, <2>3, FailedSend DEF Next, vars, serverVars, historyVars, SubmitMessage,
       RegisterPending, ScanPending, Resend, TimeOut, DropIncoming, AnswerDuplicate
<1>. QED
  BY <1>1, <1>2, TypeCorrect, WindowInvariant, AcksHonest, PTL
     DEF Spec, AtMostOnceSpec, AtMostOnce!Spec


-----------------------------------------------------------------------------
(* An acknowledged message is left alone.                                  *)

\* The main thread puts a message in the books after it has sent it: an ACK that
\* comes before finds nothing pending and is not reported.  A message that was
\* reported is therefore neither pending nor about to be.  What could not be sent
\* is not put in the books at all.
AckedLeftBooks ==
    /\ pending \subseteq Sent /\ sending \subseteq Sent
    /\ pending \cap sending = {}
    /\ acked \subseteq Submitted \ (pending \cup sending)

LEMMA AckedStayAway == Spec => []AckedLeftBooks
<1>1. Init => AckedLeftBooks
  BY DEF Init, AckedLeftBooks, Submitted, Sent
<1>2. TypeOK /\ AckedLeftBooks /\ [Next]_vars => AckedLeftBooks'
  <2>. SUFFICES ASSUME TypeOK, AckedLeftBooks, [Next]_vars
                PROVE  AckedLeftBooks'
    OBVIOUS
  <2>. USE DEF AckedLeftBooks
  <2>1. CASE SubmitMessage
    <3>1. /\ sending' = {nextLocalId} /\ nextLocalId' = nextLocalId + 1
          /\ nextLocalId \in Nat /\ nextLocalId > 0
          /\ unsent = {} /\ UNCHANGED <<pending, acked, unsent>>
      BY <2>1, ReliabilityAssumption DEF SubmitMessage, TypeOK
    <3>2. Submitted' = Submitted \cup {nextLocalId} /\ nextLocalId \notin Submitted
      BY <3>1 DEF Submitted
    <3>. QED  BY <3>1, <3>2 DEF Sent
  <2>2. CASE SubmitFails
    BY <2>2, FailedSend
  <2>3. CASE UNCHANGED <<nextLocalId, unsent>>
    <3>1. Submitted' = Submitted /\ Sent' = Sent
      BY <2>3 DEF Submitted, Sent
    <3>2. CASE RegisterPending
      <4>1. PICK id \in sending : pending' = pending \cup {id}
        BY <3>2 DEF RegisterPending
      <4>2. sending' = {} /\ acked' = acked
        BY <3>2 DEF RegisterPending, historyVars
      <4>. QED  BY <3>1, <4>1, <4>2
    <3>3. CASE TimeOut
      <4>1. pending' \subseteq pending /\ UNCHANGED <<sending, acked>>
        BY <3>3 DEF TimeOut
      <4>. QED  BY <3>1, <4>1
    <3>4. CASE ReceiveReply
      <4>1. /\ pending' = pending \ {Head(toClient).id}
            /\ acked' \subseteq acked \cup (pending \cap {Head(toClient).id})
            /\ sending' = sending
        BY <3>4 DEF ReceiveReply
      <4>. QED  BY <3>1, <4>1 DEF Sent
    <3>5. CASE UNCHANGED <<sending, pending, acked>>
      BY <3>1, <3>5
    <3>. QED
      BY <2>1, <2>2, <3>2, <3>3, <3>4, <3>5
         DEF Next, vars, clientVars, historyVars, SubmitMessage, ScanPending, Resend,
             DropIncoming, AnswerDuplicate, ProcessNew
  <2>. QED
    BY <2>1, <2>2, <2>3 DEF Next, vars, clientVars, historyVars, RegisterPending, ScanPending,
       Resend, TimeOut, DropIncoming, AnswerDuplicate, ProcessNew, ReceiveReply
<1>. QED  BY <1>1, <1>2, TypeCorrect, PTL DEF Spec

\* After "ACK received" of a message no pass of the retry thread takes it up
\* again, whatever it already had in hand.
THEOREM AckEndsRetries == Spec => AckedNotRescanned
<1>1. AckedLeftBooks /\ [Next]_vars
        => [\A id \in acked : /\ id \in toResend' => id \in toResend
                              /\ id \in toTimeout' => id \in toTimeout]_vars
  <2>. SUFFICES ASSUME AckedLeftBooks, [Next]_vars, NEW id \in acked
                PROVE  /\ id \in toResend' => id \in toResend
                       /\ id \in toTimeout' => id \in toTimeout
    OBVIOUS
  <2>1. ASSUME NEW expired \in SUBSET pending, ScanPending(expired)
        PROVE  id \notin toResend' /\ id \notin toTimeout'
    BY <2>1 DEF ScanPending, AckedLeftBooks
  <2>2. CASE Resend \/ TimeOut
    BY <2>2 DEF Resend, TimeOut
  <2>3. CASE UNCHANGED <<toResend, toTimeout>>
    BY <2>3
  <2>. QED
    BY <2>1, <2>2, <2>3 DEF Next, vars, clientVars, SubmitMessage, SubmitFails,
       RegisterPending, DropIncoming, AnswerDuplicate, ProcessNew, ReceiveReply
<1>. QED  BY <1>1, AckedStayAway, PTL DEF Spec, AckedNotRescanned

-----------------------------------------------------------------------------
(* A failed message stays failed.                                          *)

\* A message is given up once it is in the books, and given up for good: it has
\* left the map when the failure is printed, and nothing brings it back.
FailedLeftBooks ==
    /\ toTimeout \subseteq Submitted \ sending
    /\ failed \subseteq Submitted \ (pending \cup sending)

LEMMA FailedStayAway == Spec => []FailedLeftBooks
<1>1. Init => FailedLeftBooks
  BY DEF Init, FailedLeftBooks
<1>2. TypeOK /\ AckedLeftBooks /\ FailedLeftBooks /\ [Next]_vars => FailedLeftBooks'
  <2>. SUFFICES ASSUME TypeOK, AckedLeftBooks, FailedLeftBooks, [Next]_vars
                PROVE  FailedLeftBooks'
    OBVIOUS
  <2>. USE DEF FailedLeftBooks
  <2>1. CASE SubmitMessage
    <3>1. /\ sending' = {nextLocalId} /\ nextLocalId' = nextLocalId + 1
          /\ nextLocalId \in Nat /\ nextLocalId > 0
          /\ UNCHANGED <<pending, toTimeout, failed>>
      BY <2>1, ReliabilityAssumption DEF SubmitMessage, TypeOK
    <3>2. Submitted' = Submitted \cup {nextLocalId} /\ nextLocalId \notin Submitted
      BY <3>1 DEF Submitted
    <3>. QED  BY <3>1, <3>2
  <2>2. CASE SubmitFails
    BY <2>2, FailedSend
  <2>3. CASE UNCHANGED <<nextLocalId, unsent>>
    <3>1. Submitted' = Submitted /\ Sent' = Sent
      BY <2>3 DEF Submitted, Sent
    <3>2. CASE RegisterPending
      <4>1. /\ pending' \subseteq pending \cup sending /\ sending' = {}
            /\ UNCHANGED <<toTimeout, failed>>
        BY <3>2 DEF RegisterPending, historyVars
      <4>. QED  BY <3>1, <4>1
    <3>3. ASSUME NEW expired \in SUBSET pending, ScanPending(expired)
          PROVE  FailedLeftBooks'
      <4>1. toTimeout' \subseteq pending /\ UNCHANGED <<pending, sending, failed>>
        BY <3>3 DEF ScanPending, historyVars
      <4>. QED  BY <3>1, <4>1 DEF AckedLeftBooks, Sent
    <3>4. CASE TimeOut
      <4>1. PICK id \in toTimeout :
                /\ toTimeout' = toTimeout \ {id} /\ pending' = pending \ {id}
                /\ failed' = failed \cup {id} /\ sending' = sending
        BY <3>4 DEF TimeOut, Lowest
      <4>. QED  BY <3>1, <4>1
    <3>5. CASE ReceiveReply
      <4>1. pending' \subseteq pending /\ UNCHANGED <<sending, toTimeout, failed>>
        BY <3>5 DEF ReceiveReply
      <4>. QED  BY <3>1, <4>1
    <3>6. CASE UNCHANGED <<sending, pending, toTimeout, failed>>
      BY <3>1, <3>6
    <3>. QED
      BY <2>1, <2>2, <3>2, <3>3, <3>4, <3>5, <3>6
         DEF Next, vars, clientVars, historyVars, Resend, DropIncoming, AnswerDuplicate, ProcessNew
  <2>. QED
    BY <2>1, <2>2, <2>3 DEF Next, vars, clientVars, historyVars, RegisterPending, ScanPending,
       Resend, TimeOut, DropIncoming, AnswerDuplicate, ProcessNew, ReceiveReply
<1>. QED  BY <1>1, <1>2, TypeCorrect, AckedStayAway, PTL DEF Spec

\* What was reported as failed is never reported as acknowledged afterwards,
\* however late the answers to its copies come in.
THEOREM FailedForGood == Spec => FailureIsFinal
<1>1. FailedLeftBooks /\ [Next]_vars => [\A id \in failed : id \in acked' => id \in acked]_vars
  <2>. SUFFICES ASSUME FailedLeftBooks, [Next]_vars, NEW id \in failed, id \in acked'
                PROVE  id \in acked
    OBVIOUS
  <2>1. CASE ReceiveReply
    BY <2>1 DEF ReceiveReply, FailedLeftBooks
  <2>2. CASE UNCHANGED acked
    BY <2>2
  <2>. QED
    BY <2>1, <2>2 DEF Next, vars, historyVars, SubmitMessage, SubmitFails, RegisterPending,
       ScanPending, Resend, TimeOut, DropIncoming, AnswerDuplicate, ProcessNew
<1>. QED  BY <1>1, FailedStayAway, PTL DEF Spec, FailureIsFinal

-----------------------------------------------------------------------------
(* The copies of a message.                                                *)

\* What the books say of one message: a copy for the first transmission, one for
\* each retry counted, less the one the retry thread still has to send.
CopiesOf(id) ==
    sends[id] = IF id \notin Sent THEN 0
                ELSE IF id \in toResend THEN retries[id] ELSE 1 + retries[id]

\* A counter is counted up when a retry is taken and reset only before the first
\* one.  A message is given up, in the hands of the retry thread or in what it has
\* printed, when its counter has reached the limit, and then no retry is left.
RetryBooks ==
    /\ \A id \in Ids : CopiesOf(id)
    /\ toResend \cup toTimeout \cup failed \subseteq Sent
    /\ toResend \cap (toTimeout \cup failed \cup sending) = {}
    /\ \A id \in toTimeout \cup failed : retries[id] = MAX_RETRIES
    /\ \A id \in Ids : id \in sending \/ id \notin Submitted => retries[id] = 0

LEMMA RetryBooksKept == Spec => []RetryBooks
<1>1. Init => RetryBooks
  <2>. SUFFICES ASSUME Init PROVE RetryBooks
    OBVIOUS
  <2>1. Submitted = {}
    BY DEF Init, Submitted
  <2>. QED  BY <2>1 DEF Init, RetryBooks, CopiesOf, Sent
<1>2. TypeOK /\ AckedLeftBooks /\ RetryBooks /\ [Next]_vars => RetryBooks'
  <2>. SUFFICES ASSUME TypeOK, AckedLeftBooks, RetryBooks, [Next]_vars
                PROVE  RetryBooks'
    OBVIOUS
  <2>. USE DEF RetryBooks, CopiesOf
  <2>1. CASE SubmitMessage
    <3>. DEFINE new == nextLocalId
    <3>1. /\ nextLocalId' = nextLocalId + 1 /\ nextLocalId \in Ids
          /\ nextLocalId \in Nat /\ nextLocalId > 0
      BY <2>1, ReliabilityAssumption DEF SubmitMessage, TypeOK, Ids
    <3>2. /\ Submitted' = Submitted \cup {new} /\ new \notin Submitted
          /\ Sent' = Sent \cup {new} /\ new \notin Sent
      <4>1. Submitted' = Submitted \cup {new} /\ new \notin Submitted
        BY <3>1 DEF Submitted
      <4>2. unsent = {} /\ unsent' = unsent
        BY <2>1 DEF SubmitMessage
      <4>. QED  BY <4>1, <4>2 DEF Sent
    <3>3. /\ sending' = {new}
          /\ UNCHANGED <<retries, toResend, toTimeout, failed>>
      BY <2>1 DEF SubmitMessage
    <3>4. /\ sends' = [sends EXCEPT ![new] = @ + 1]
          /\ sends \in [Ids -> Nat]
      BY <2>1 DEF SubmitMessage, Transmit, TypeOK
    <3>. HIDE DEF new
    <3>5. new \in Ids /\ sends[new] = 0 /\ retries[new] = 0 /\ new \notin toResend
      BY <3>1, <3>2 DEF new
    <3>6. ASSUME NEW id \in Ids PROVE CopiesOf(id)'
      <4>1. CASE id = new
        BY <3>2, <3>3, <3>4, <3>5, <4>1
      <4>2. CASE id # new
        <5>1. sends'[id] = sends[id] /\ (id \in Sent' <=> id \in Sent)
          BY <3>2, <3>4, <4>2
        <5>. QED  BY <3>3, <5>1
      <4>. QED  BY <4>1, <4>2
    <3>. QED  BY <3>2, <3>3, <3>5, <3>6
  <2>2. CASE SubmitFails
    <3>1. /\ Sent' = Sent /\ Submitted \subseteq Submitted'
          /\ UNCHANGED <<sending, retries, toResend, toTimeout, failed, sends>>
      BY <2>2, FailedSend
    <3>. QED  BY <3>1
  <2>3. CASE UNCHANGED <<nextLocalId, unsent>>
    <3>1. Submitted' = Submitted /\ Sent' = Sent
      BY <2>3 DEF Submitted, Sent
    <3>2. CASE RegisterPending
      <4>1. PICK id \in sending : retries' = [retries EXCEPT ![id] = 0]
        BY <3>2 DEF RegisterPending
      <4>2. id \in Ids /\ retries[id] = 0 /\ retries \in [Ids -> 0..MAX_RETRIES]
        BY DEF TypeOK
      <4>3. retries' = retries
        BY <4>1, <4>2
      <4>4. sending' = {} /\ UNCHANGED <<sends, toResend, toTimeout, failed>>
        BY <3>2 DEF RegisterPending, historyVars
      <4>. QED  BY <3>1, <4>3, <4>4
    <3>3. ASSUME NEW expired \in SUBSET pending, ScanPending(expired)
          PROVE  RetryBooks'
      <4>1. /\ toResend = {}
            /\ toResend' = {id \in expired : ~Exhausted(id)}
            /\ toTimeout' = {id \in expired : Exhausted(id)}
            /\ retries' = [id \in Ids |-> IF id \in toResend' THEN retries[id] + 1
                                          ELSE retries[id]]
            /\ UNCHANGED <<sending, sends, failed>>
        BY <3>3 DEF ScanPending, historyVars
      <4>2. expired \subseteq Sent \ sending /\ expired \subseteq Ids /\ Sent \subseteq Submitted
        BY DEF AckedLeftBooks, TypeOK, Sent
      <4>3. \A id \in Ids : retries[id] \in 0..MAX_RETRIES /\ sends[id] \in Nat
        BY DEF TypeOK
      <4>4. \A id \in Ids : Exhausted(id) <=> retries[id] = MAX_RETRIES
        BY <4>3, ReliabilityAssumption DEF Exhausted
      <4>5. toResend' \cap (toTimeout' \cup failed \cup sending) = {}
        BY <4>1, <4>2, <4>4
      <4>6. \A id \in toTimeout' \cup failed : id \in Ids /\ retries[id] = MAX_RETRIES
        BY <4>1, <4>2, <4>4 DEF TypeOK
      <4>7. \A id \in toTimeout' \cup failed : retries'[id] = MAX_RETRIES
        BY <4>1, <4>5, <4>6
      <4>8. \A id \in Ids : CopiesOf(id)'
        BY <3>1, <4>1, <4>2, <4>3
      <4>9. toResend' \cup toTimeout' \cup failed' \subseteq Sent'
        BY <3>1, <4>1, <4>2
      <4>10. \A id \in Ids : id \in sending' \/ id \notin Submitted' => retries'[id] = 0
        BY <3>1, <4>1, <4>2
      <4>. QED  BY <4>1, <4>5, <4>7, <4>8, <4>9, <4>10
    <3>4. CASE Resend
      <4>1. PICK id \in Ids : /\ id \in toResend /\ toResend' = toResend \ {id}
                              /\ sends' = [sends EXCEPT ![id] = @ + 1]
        BY <3>4 DEF Resend, Lowest, Transmit
      <4>2. UNCHANGED <<sending, retries, toTimeout, failed>>
        BY <3>4 DEF Resend
      <4>3. sends \in [Ids -> Nat] /\ retries \in [Ids -> 0..MAX_RETRIES]
        BY DEF TypeOK
      <4>4. id \in Sent /\ sends[id] = retries[id]
        BY <4>1
      <4>5. ASSUME NEW k \in Ids PROVE CopiesOf(k)'
        <5>1. CASE k = id
          <6>1. sends'[k] = 1 + retries[k] /\ k \notin toResend'
            BY <4>1, <4>3, <4>4, <5>1
          <6>. QED  BY <3>1, <4>2, <4>4, <5>1, <6>1
        <5>2. CASE k # id
          BY <3>1, <4>1, <4>2, <4>3, <5>2
        <5>. QED  BY <5>1, <5>2
      <4>. QED  BY <3>1, <4>1, <4>2, <4>5
    <3>5. CASE TimeOut
      <4>1. PICK id \in Ids : /\ id \in toTimeout /\ toTimeout' = toTimeout \ {id}
                              /\ failed' = failed \cup {id}
        BY <3>5 DEF TimeOut, Lowest
      <4>2. UNCHANGED <<sending, retries, toResend, sends>>
        BY <3>5 DEF TimeOut
      <4>. QED  BY <3>1, <4>1, <4>2
    <3>6. CASE UNCHANGED <<sending, retries, toResend, toTimeout, failed, sends>>
      BY <3>1, <3>6
    <3>. QED
      BY <2>1, <2>2, <3>2, <3>3, <3>4, <3>5, <3>6
         DEF Next, vars, clientVars, historyVars, DropIncoming,
             AnswerDuplicate, ProcessNew, ReceiveReply
  <2>. QED
    BY <2>1, <2>2, <2>3 DEF Next, vars, clientVars, historyVars, RegisterPending, ScanPending,
       Resend, TimeOut, DropIncoming, AnswerDuplicate, ProcessNew, ReceiveReply
<1>. QED  BY <1>1, <1>2, TypeCorrect, AckedStayAway, PTL DEF Spec

\* At most 1 + MAX_RETRIES copies of a message are put on the wire, and it is
\* reported as failed only after all of them, whenever its ACK may come.
THEOREM CopiesBounded == Spec => []TransmissionsBounded
<1>1. TypeOK /\ RetryBooks => TransmissionsBounded
  <2>. SUFFICES ASSUME TypeOK, RetryBooks, NEW id \in Ids
                PROVE  /\ sends[id] <= 1 + MAX_RETRIES
                       /\ id \in failed => sends[id] = 1 + MAX_RETRIES
    BY DEF TransmissionsBounded
  <2>1. retries[id] \in 0..MAX_RETRIES /\ MAX_RETRIES \in Nat
    BY ReliabilityAssumption DEF TypeOK
  <2>2. CopiesOf(id)
    BY DEF RetryBooks
  <2>3. sends[id] <= 1 + MAX_RETRIES
    BY <2>1, <2>2 DEF CopiesOf
  <2>4. ASSUME id \in failed PROVE sends[id] = 1 + MAX_RETRIES
    <3>1. id \in Sent /\ id \notin toResend /\ retries[id] = MAX_RETRIES
      BY <2>4 DEF RetryBooks
    <3>. QED  BY <2>2, <3>1 DEF CopiesOf
  <2>. QED  BY <2>3, <2>4
<1>. QED  BY <1>1, TypeCorrect, RetryBooksKept, PTL

-----------------------------------------------------------------------------
(* The order of the messages.                                              *)

\* Only what the client has submitted is on the wire or processed.
WireSubmitted ==
    /\ \A i \in 1..Len(toServer) : toServer[i] \in Submitted
    /\ \A i \in 1..Len(processed) : processed[i] \in Submitted

\* A message of which no copy was dropped and none was processed is on its way,
\* ahead of every later one, and no later one was processed, unless it could not
\* be sent.
InFront(id, p) == toServer[p] = id /\ \A q \in 1..(p - 1) : toServer[q] <= id
NoneSkipped ==
    \A id \in Submitted \ (dropped \cup Delivered \cup unsent) :
        /\ \E p \in 1..Len(toServer) : InFront(id, p)
        /\ \A i \in 1..Len(processed) : processed[i] < id

\* What a step does to the stream of messages and to what the server has seen.
LEMMA WireStep ==
    ASSUME TypeOK, WindowIsSuffix, toResend \subseteq Submitted, [Next]_vars
    PROVE  \/ /\ UNCHANGED <<toServer, processed, dropped>>
              /\ Submitted \subseteq Submitted'
              /\ Submitted' \ unsent' \subseteq Submitted \ unsent
           \/ \E id \in Ids :
                 /\ toServer' = Append(toServer, id)
                 /\ id \in Submitted'
                 /\ Submitted' = Submitted \/ (Submitted' = Submitted \cup {id}
                                               /\ \A k \in Submitted : k < id)
                 /\ UNCHANGED <<processed, dropped, unsent>>
           \/ /\ toServer # <<>> /\ toServer' = Tail(toServer)
              /\ Submitted' = Submitted /\ unsent' = unsent
              /\ \/ processed' = processed /\ dropped' = dropped \cup {Head(toServer)}
                 \/ UNCHANGED <<processed, dropped>> /\ Head(toServer) \in Delivered
                 \/ processed' = Append(processed, Head(toServer)) /\ dropped' = dropped
<1>. USE DEF clientVars, serverVars, historyVars
<1>1. CASE SubmitMessage
  <2>1. /\ nextLocalId \in Ids /\ nextLocalId \in Nat /\ nextLocalId > 0
        /\ nextLocalId' = nextLocalId + 1
    BY <1>1, ReliabilityAssumption DEF SubmitMessage, TypeOK, Ids
  <2>2. Submitted' = Submitted \cup {nextLocalId} /\ \A k \in Submitted : k < nextLocalId
    BY <2>1 DEF Submitted
  <2>3. toServer' = Append(toServer, nextLocalId) /\ UNCHANGED <<processed, dropped, unsent>>
    BY <1>1 DEF SubmitMessage, Transmit
  <2>. QED  BY <2>1, <2>2, <2>3
<1>2. CASE UNCHANGED nextLocalId
  <2>0. Submitted' = Submitted
    BY <1>2 DEF Submitted
  <2>1. CASE Resend
    <3>1. PICK id \in Ids : id \in toResend /\ toServer' = Append(toServer, id)
      BY <2>1 DEF Resend, Lowest, Transmit
    <3>2. UNCHANGED <<processed, dropped, unsent>> /\ id \in Submitted'
      BY <2>0, <2>1, <3>1 DEF Resend
    <3>. QED  BY <2>0, <3>1, <3>2
  <2>2. CASE DropIncoming
    BY <2>0, <2>2 DEF DropIncoming
  <2>3. CASE AnswerDuplicate
    <3>1. Head(toServer) \in Delivered
      <4>1. PICK k \in 1..Len(last_ids) : last_ids[k] = Head(toServer)
        BY <2>3 DEF AnswerDuplicate, hasSeenMessageId
      <4>4. Len(last_ids) \in Nat /\ Len(processed) \in Nat
        BY DEF TypeOK
      <4>2. /\ Len(last_ids) <= Len(processed)
            /\ last_ids[k] = processed[Len(processed) - Len(last_ids) + k]
        BY DEF WindowIsSuffix
      <4>3. Len(processed) - Len(last_ids) + k \in 1..Len(processed)
        BY <4>2, <4>4
      <4>. QED  BY <4>1, <4>2, <4>3 DEF Delivered
    <3>. QED  BY <2>0, <2>3, <3>1 DEF AnswerDuplicate
  <2>4. CASE ProcessNew
    BY <2>0, <2>4 DEF ProcessNew
  <2>5. CASE UNCHANGED <<toServer, processed, dropped, unsent>>
    BY <2>0, <2>5
  <2>6. ~SubmitMessage /\ ~SubmitFails
    BY <1>2 DEF SubmitMessage, SubmitFails, TypeOK
  <2>. QED
    BY <2>1, <2>2, <2>3, <2>4, <2>5, <2>6
       DEF Next, vars, RegisterPending, ScanPending, TimeOut, ReceiveReply
<1>3. CASE SubmitFails
  <2>1. Submitted' \ unsent' \subseteq Submitted \ unsent
    BY <1>3, FailedSend
  <2>. QED  BY <1>3, <2>1, FailedSend
<1>. QED
  BY <1>1, <1>2, <1>3 DEF Next, vars, RegisterPending, ScanPending, Resend, TimeOut, DropIncoming,
       AnswerDuplicate, ProcessNew, ReceiveReply

LEMMA NoneSkippedStep ==
    ASSUME TypeOK, WindowIsSuffix, toResend \subseteq Submitted, WireSubmitted, NoneSkipped,
           [Next]_vars
    PROVE  WireSubmitted' /\ NoneSkipped'
<1>0. /\ toServer \in Seq(Ids) /\ processed \in Seq(Ids)
      /\ Ids \subseteq Nat /\ Submitted \subseteq Nat
  BY DEF TypeOK, Ids, Submitted
<1>1. CASE /\ UNCHANGED <<toServer, processed, dropped>>
           /\ Submitted \subseteq Submitted'
           /\ Submitted' \ unsent' \subseteq Submitted \ unsent
  <2>1. WireSubmitted'
    BY <1>1 DEF WireSubmitted
  <2>2. /\ Delivered' = Delivered
        /\ \A id, p : InFront(id, p)' <=> InFront(id, p)
    BY <1>1 DEF Delivered, InFront
  <2>3. Submitted' \ (dropped' \cup Delivered' \cup unsent')
            \subseteq Submitted \ (dropped \cup Delivered \cup unsent)
    BY <1>1, <2>2
  <2>. QED  BY <1>1, <2>1, <2>2, <2>3 DEF NoneSkipped
<1>2. ASSUME NEW id \in Ids, toServer' = Append(toServer, id), id \in Submitted',
             Submitted' = Submitted \/ (Submitted' = Submitted \cup {id}
                                        /\ \A k \in Submitted : k < id),
             UNCHANGED <<processed, dropped, unsent>>
      PROVE  WireSubmitted' /\ NoneSkipped'
  <2>1. /\ Len(toServer) \in Nat /\ Len(toServer') = Len(toServer) + 1
        /\ \A i \in 1..Len(toServer) : toServer'[i] = toServer[i]
        /\ toServer'[Len(toServer) + 1] = id
        /\ \A i \in 1..Len(toServer') : i \in 1..Len(toServer) \/ i = Len(toServer) + 1
    BY <1>0, <1>2
  <2>2. WireSubmitted'
    BY <1>2, <2>1 DEF WireSubmitted
  <2>3. ASSUME NEW k \in Submitted' \ (dropped \cup Delivered \cup unsent)
        PROVE  /\ \E p \in 1..Len(toServer') : InFront(k, p)'
               /\ \A i \in 1..Len(processed) : processed[i] < k
    <3>1. CASE k \in Submitted
      <4>1. PICK p \in 1..Len(toServer) : InFront(k, p)
        BY <2>3, <3>1 DEF NoneSkipped
      <4>2. p \in 1..Len(toServer') /\ \A q \in 1..(p - 1) : q \in 1..Len(toServer)
        BY <2>1
      <4>3. InFront(k, p)'
        BY <2>1, <4>1, <4>2 DEF InFront
      <4>. QED  BY <2>3, <3>1, <4>2, <4>3 DEF NoneSkipped
    <3>2. CASE k \notin Submitted
      <4>1. k = id /\ \A n \in Submitted : n < k
        BY <1>2, <2>3, <3>2
      <4>2. PICK n \in 1..Len(toServer') : n = Len(toServer) + 1
        BY <2>1
      <4>3. toServer'[n] = id /\ \A q \in 1..(n - 1) : q \in 1..Len(toServer)
        BY <2>1, <4>2
      <4>4. \A m \in Submitted : m <= k
        BY <1>0, <4>1
      <4>5. \A q \in 1..Len(toServer) : toServer[q] <= k
        BY <4>4 DEF WireSubmitted
      <4>6. InFront(k, n)'
        BY <2>1, <4>1, <4>3, <4>5 DEF InFront
      <4>7. \A i \in 1..Len(processed) : processed[i] < k
        BY <4>1 DEF WireSubmitted
      <4>. QED  BY <4>2, <4>6, <4>7
    <3>. QED  BY <3>1, <3>2
  <2>4. Delivered' = Delivered
    BY <1>2 DEF Delivered
  <2>. QED  BY <1>2, <2>2, <2>3, <2>4 DEF NoneSkipped
<1>3. ASSUME toServer # <<>>, toServer' = Tail(toServer), Submitted' = Submitted,
             unsent' = unsent,
             \/ processed' = processed /\ dropped' = dropped \cup {Head(toServer)}
             \/ UNCHANGED <<processed, dropped>> /\ Head(toServer) \in Delivered
             \/ processed' = Append(processed, Head(toServer)) /\ dropped' = dropped
      PROVE  WireSubmitted' /\ NoneSkipped'
  <2>. DEFINE h == Head(toServer)
              n == Len(toServer)
  <2>1. /\ n \in Nat /\ n > 0 /\ Len(toServer') = n - 1 /\ h = toServer[1] /\ h \in Submitted
        /\ \A i \in 1..(n - 1) : toServer'[i] = toServer[i + 1] /\ i + 1 \in 1..n
    BY <1>0, <1>3 DEF WireSubmitted
  <2>2. Len(processed) \in Nat /\ \A i \in 1..Len(processed') :
           \/ i \in 1..Len(processed) /\ processed'[i] = processed[i]
           \/ processed'[i] = h
    <3>1. CASE processed' = processed
      BY <1>0, <3>1
    <3>2. CASE processed' = Append(processed, h)
      BY <1>0, <2>1, <3>2
    <3>. QED  BY <1>3, <3>1, <3>2
  <2>3. dropped \cup Delivered \cup {h} \subseteq dropped' \cup Delivered'
    <3>1. CASE processed' = processed
      BY <1>3, <3>1 DEF Delivered
    <3>2. CASE processed' = Append(processed, h) /\ dropped' = dropped
      <4>1. /\ Len(processed') = Len(processed) + 1 /\ Len(processed) \in Nat
            /\ \A i \in 1..Len(processed) : processed'[i] = processed[i]
            /\ processed'[Len(processed) + 1] = h
        BY <1>0, <2>1, <3>2
      <4>2. (\A i \in 1..Len(processed) : i \in 1..Len(processed'))
            /\ Len(processed) + 1 \in 1..Len(processed')
        BY <4>1
      <4>. QED  BY <3>2, <4>1, <4>2 DEF Delivered
    <3>. QED  BY <1>3, <3>1, <3>2
  <2>4. WireSubmitted'
    BY <1>3, <2>1, <2>2 DEF WireSubmitted
  <2>. HIDE DEF h, n
  <2>5. ASSUME NEW k \in Submitted \ (dropped' \cup Delivered' \cup unsent)
        PROVE  /\ \E p \in 1..Len(toServer') : InFront(k, p)'
               /\ \A i \in 1..Len(processed') : processed'[i] < k
    <3>1. k \in Submitted \ (dropped \cup Delivered \cup unsent) /\ k # h /\ k \in Nat /\ h \in Nat
      BY <1>0, <2>1, <2>3
    <3>2. PICK p \in 1..n : InFront(k, p)
      BY <3>1 DEF NoneSkipped, n
    <3>3. p # 1
      BY <2>1, <3>1, <3>2 DEF InFront
    <3>4. 1 \in 1..(p - 1) /\ p - 1 \in 1..(n - 1)
      BY <2>1, <3>2, <3>3
    <3>5. h < k
      BY <2>1, <3>1, <3>2, <3>4 DEF InFront
    <3>6. \A q \in 1..(p - 1 - 1) : q \in 1..(n - 1) /\ q + 1 \in 1..(p - 1)
      BY <2>1, <3>2
    <3>7. (p - 1) + 1 = p
      BY <3>2
    <3>8. InFront(k, p - 1)'
      BY <2>1, <3>2, <3>4, <3>6, <3>7 DEF InFront
    <3>9. \A i \in 1..Len(processed) : processed[i] < k
      BY <3>1 DEF NoneSkipped
    <3>. QED  BY <2>1, <2>2, <3>4, <3>5, <3>8, <3>9
  <2>. QED  BY <1>3, <2>4, <2>5 DEF NoneSkipped
<1>. QED  BY <1>1, <1>2, <1>3, WireStep

LEMMA OrderInvariant == Spec => [](WireSubmitted /\ NoneSkipped)
<1>1. Init => WireSubmitted /\ NoneSkipped
  BY DEF Init, WireSubmitted, NoneSkipped, Submitted
<1>2. TypeOK /\ WindowIsSuffix /\ RetryBooks /\ WireSubmitted /\ NoneSkipped /\ [Next]_vars
        => WireSubmitted' /\ NoneSkipped'
  BY NoneSkippedStep DEF RetryBooks, Sent
<1>. QED  BY <1>1, <1>2, TypeCorrect, WindowInvariant, RetryBooksKept, PTL DEF Spec

\* Retries never reorder: only a message of which the simulation dropped a copy is
\* processed first after a later one.
THEOREM OrderKept == Spec => []InOrderUnlessDropped
<1>1. Init => InOrderUnlessDropped
  BY DEF Init, InOrderUnlessDropped
<1>2. TypeOK /\ WireSubmitted /\ NoneSkipped /\ InOrderUnlessDropped /\ [Next]_vars
        => InOrderUnlessDropped'
  <2>. SUFFICES ASSUME TypeOK, WireSubmitted, NoneSkipped, InOrderUnlessDropped, [Next]_vars
                PROVE  InOrderUnlessDropped'
    OBVIOUS
  <2>. USE DEF clientVars, serverVars, historyVars
  <2>1. CASE ProcessNew
    <3>. DEFINE h == Head(toServer)
                n == Len(processed)
    <3>1. /\ n \in Nat /\ Len(processed') = n + 1 /\ processed'[n + 1] = h /\ dropped' = dropped
          /\ \A i \in 1..n : processed'[i] = processed[i] /\ processed[i] \in Ids
          /\ toServer \in Seq(Ids) /\ toServer # <<>> /\ unsent = {}
      BY <2>1 DEF ProcessNew, TypeOK
    <3>2. h = toServer[1] /\ 1 \in 1..Len(toServer) /\ h \in Submitted /\ h \in Nat
      BY <3>1 DEF WireSubmitted, Submitted
    <3>. HIDE DEF h, n
    <3>3. ASSUME NEW i \in 1..n, processed[i] > h, \A k \in 1..n : processed[k] # h
          PROVE  h \in dropped
      <4>1. h \notin Delivered
        BY <3>3 DEF Delivered, n
      <4>2. processed[i] \in Nat
        BY <3>1 DEF Ids
      <4>3. h \notin dropped => processed[i] < h
        BY <3>1, <3>2, <4>1 DEF NoneSkipped, n
      <4>. QED  BY <3>2, <3>3, <4>2, <4>3
    <3>4. ASSUME NEW i \in 1..(n + 1), NEW j \in 1..(n + 1), i < j,
                 processed'[i] > processed'[j],
                 \A k \in 1..(j - 1) : processed'[k] # processed'[j]
          PROVE  processed'[j] \in dropped
      <4>1. i \in 1..n /\ (j \in 1..n \/ j = n + 1)
        BY <3>1, <3>4
      <4>2. CASE j \in 1..n
        <5>1. \A k \in 1..(j - 1) : k \in 1..n
          BY <3>1, <4>2
        <5>. QED  BY <3>1, <3>4, <4>1, <4>2, <5>1 DEF InOrderUnlessDropped, n
      <4>3. CASE j = n + 1
        <5>1. j - 1 = n
          BY <3>1, <4>3
        <5>2. \A k \in 1..n : processed[k] # h
          BY <3>1, <3>4, <4>3, <5>1
        <5>. QED  BY <3>1, <3>3, <3>4, <4>1, <4>3, <5>2
      <4>. QED  BY <4>1, <4>2, <4>3
    <3>. QED  BY <3>1, <3>4 DEF InOrderUnlessDropped
  <2>2. CASE processed' = processed /\ dropped \subseteq dropped'
    BY <2>2 DEF InOrderUnlessDropped
  <2>. QED
    BY <2>1, <2>2 DEF Next, vars, SubmitMessage, SubmitFails, RegisterPending, ScanPending, Resend,
         TimeOut, DropIncoming, AnswerDuplicate, ReceiveReply
<1>. QED  BY <1>1, <1>2, TypeCorrect, OrderInvariant, PTL DEF Spec

-----------------------------------------------------------------------------
(* The layer below.                                                        *)

\* A step of the ping series is a step of the retry/ACK layer, or leaves it alone.
LEMMA PingStepBelow == [PingNext]_allVars => [Next]_vars
<1>. SUFFICES ASSUME [PingNext]_allVars PROVE Next \/ UNCHANGED vars
  OBVIOUS
<1>1. CASE UNCHANGED vars
  BY <1>1
<1>2. CASE SendPing \/ SendPingFails \/ RegisterPing
  BY <1>2 DEF SendPing, SendPingFails, RegisterPing, Next
<1>3. ASSUME NEW expired \in SUBSET pending, PingScan(expired)
      PROVE  Next
  BY <1>3 DEF PingScan, Next
<1>4. CASE PingResend \/ PingTimeOut
  BY <1>4 DEF PingResend, PingTimeOut, Next
<1>5. CASE PingReply
  BY <1>5 DEF PingReply, Next
<1>6. CASE PingServerStep
  BY <1>6 DEF PingServerStep, AnswerPing, Next
<1>. QED
  BY <1>1, <1>2, <1>3, <1>4, <1>5, <1>6
     DEF PingNext, MainStep, RetryStep, ReceiveStep, allVars, StartSeries, ClearStates,
         AddState, StoreSendTime, MarkUnsent, CountUnsent, MarkTimedOut, CountLost,
         MarkCompleted, CountReceived

\* What the proofs need of the layer below.
Below ==
    /\ TypeOK
    /\ RetryBooks
    /\ pending \subseteq Submitted /\ sending \subseteq Submitted

\* A ping series uses the retry/ACK layer as it is: whatever holds of a session
\* holds of one in which main, receive and retry thread work on pings as well.
THEOREM PingsUseTheLayer == PingSpec => Spec
<1>1. PingInit => Init
  BY DEF PingInit
<1>. QED  BY <1>1, PingStepBelow, PTL DEF PingSpec, Spec

LEMMA BelowKept == PingSpec => []Below
<1>1. AckedLeftBooks => pending \subseteq Submitted /\ sending \subseteq Submitted
  BY DEF AckedLeftBooks, Sent
<1>. QED
  BY <1>1, PingsUseTheLayer, TypeCorrect, RetryBooksKept, AckedStayAway, PTL DEF Below

-----------------------------------------------------------------------------
(* What the threads leave alone.                                           *)

\* The main thread neither receives nor retries.
LEMMA MainLeaves ==
    ASSUME MainStep \/ \E count \in 1..(MaxMsg + 1 - nextLocalId) : StartSeries(count)
    PROVE  UNCHANGED <<ponged, pongAt, timing, timeoutAt, answered, measured, overtaken, toClient>>
<1>1. CASE SendPing \/ SendPingFails \/ RegisterPing \/ StoreSendTime
  BY <1>1 DEF SendPing, SendPingFails, RegisterPing, StoreSendTime, OnlyMain, SubmitMessage,
     SubmitFails, RegisterPending, vars, pongVars, timeoutVars
<1>2. CASE ClearStates \/ AddState \/ MarkUnsent \/ CountUnsent
           \/ \E count \in 1..(MaxMsg + 1 - nextLocalId) : StartSeries(count)
  BY <1>2 DEF StartSeries, ClearStates, AddState, MarkUnsent, CountUnsent, vars, pongVars,
     timeoutVars, rttVars
<1>. QED  BY <1>1, <1>2 DEF MainStep

\* Only the main thread starts series, sends pings and stores what belongs to them.
LEMMA OthersLeave ==
    ASSUME \/ \E expired \in SUBSET pending : PingScan(expired)
           \/ RetryStep \/ ReceiveStep \/ PingServerStep \/ UNCHANGED allVars
    PROVE  UNCHANGED <<main, left, nextLocalId, diagRequested, series, seriesOf, cleared,
                       storedLate>>
<1>1. CASE \/ \E expired \in SUBSET pending : PingScan(expired)
           \/ RetryStep
  BY <1>1 DEF PingScan, RetryStep, PingResend, PingTimeOut, MarkTimedOut, CountLost, OnlyRetry,
     ScanPending, Resend, TimeOut, vars, pingVars, mainVars, diagVars, seriesVars, rttVars
<1>2. CASE ReceiveStep
  BY <1>2 DEF ReceiveStep, PingReply, MarkCompleted, CountReceived, OnlyReceive, ReceiveReply,
     vars, mainVars, seriesVars
<1>3. CASE PingServerStep
  BY <1>3 DEF PingServerStep, AnswerPing, ProcessNew, DropIncoming, AnswerDuplicate, clientVars,
     pingVars, mainVars, diagVars, seriesVars, rttVars
<1>4. CASE UNCHANGED allVars
  BY <1>4 DEF allVars, vars, pingVars, mainVars, diagVars, seriesVars, rttVars
<1>. QED  BY <1>1, <1>2, <1>3, <1>4

-----------------------------------------------------------------------------
(* The main thread.                                                        *)

\* The main thread never takes more ids than the series was granted, and cleared
\* what it has to clear before it sends.
MainBooks ==
    /\ main \in {"idle", "clear", "next", "send", "register", "store", "mark", "count"}
    /\ left \in 0..MaxMsg /\ (main = "idle" <=> left = 0)
    /\ main \in {"clear", "next", "send"} => nextLocalId + left <= MaxMsg + 1
    /\ main \in {"register", "store", "mark", "count"} =>
           nextLocalId + left <= MaxMsg + 2 /\ nextLocalId > 1
    /\ series \in 0..MaxSeries /\ cleared \in 0..series
    /\ main # "clear" => cleared = series
    /\ series = 0 => main = "idle" /\ nextLocalId = 1
    /\ diagRequested \in 0..MaxMsg


LEMMA MainBooksKept == PingSpec => []MainBooks
<1>. USE ReliabilityAssumption, PingAssumption
<1>1. PingInit => MainBooks
  BY DEF PingInit, Init, MainBooks
<1>2. Below /\ MainBooks /\ [PingNext]_allVars => MainBooks'
  <2>. SUFFICES ASSUME Below, MainBooks, [PingNext]_allVars PROVE MainBooks'
    OBVIOUS
  <2>0. nextLocalId \in 1..(MaxMsg + 1)
    BY DEF Below, TypeOK
  <2>1. ASSUME NEW count \in 1..(MaxMsg + 1 - nextLocalId), StartSeries(count)
        PROVE  MainBooks'
    <3>1. /\ main = "idle" /\ main' = "clear" /\ left' = count /\ diagRequested' = count
          /\ series < MaxSeries /\ series' = series + 1 /\ UNCHANGED <<nextLocalId, cleared>>
      BY <2>1 DEF StartSeries, vars
    <3>. QED  BY <2>0, <3>1 DEF MainBooks
  <2>2. CASE ClearStates
    <3>1. /\ main = "clear" /\ main' = "next" /\ cleared' = series
          /\ UNCHANGED <<left, diagRequested, series, nextLocalId>>
      BY <2>2 DEF ClearStates, vars, diagVars
    <3>. QED  BY <2>0, <3>1 DEF MainBooks
  <2>3. CASE AddState
    <3>1. /\ main = "next" /\ main' = "send"
          /\ UNCHANGED <<left, diagRequested, series, cleared, nextLocalId>>
      BY <2>3 DEF AddState, vars, diagVars
    <3>. QED  BY <2>0, <3>1 DEF MainBooks
  <2>4. CASE SendPing
    <3>1. /\ main = "send" /\ main' = "register" /\ nextLocalId' = nextLocalId + 1
          /\ UNCHANGED <<left, diagRequested, series, cleared>>
      BY <2>4 DEF SendPing, SubmitMessage, OnlyMain, diagVars, seriesVars
    <3>. QED  BY <2>0, <3>1 DEF MainBooks
  <2>5. CASE RegisterPing
    <3>1. /\ main = "register" /\ main' = "store"
          /\ UNCHANGED <<left, diagRequested, series, cleared, nextLocalId>>
      BY <2>5 DEF RegisterPing, RegisterPending, OnlyMain, diagVars, seriesVars
    <3>. QED  BY <2>0, <3>1 DEF MainBooks
  <2>6. CASE StoreSendTime
    <3>1. /\ main = "store" /\ main' = (IF left = 1 THEN "idle" ELSE "next")
          /\ left' = left - 1
          /\ UNCHANGED <<diagRequested, series, cleared, nextLocalId>>
      BY <2>6 DEF StoreSendTime, OnlyMain, AfterPing, diagVars, seriesVars, vars
    <3>. QED  BY <2>0, <3>1 DEF MainBooks
  <2>7. CASE SendPingFails
    <3>1. /\ main = "send" /\ main' = "mark" /\ nextLocalId' = nextLocalId + 1
          /\ UNCHANGED <<left, diagRequested, series, cleared>>
      BY <2>7 DEF SendPingFails, SubmitFails, OnlyMain, diagVars, seriesVars
    <3>. QED  BY <2>0, <3>1 DEF MainBooks
  <2>8. CASE MarkUnsent \/ CountUnsent
    <3>1. /\ main \in {"mark", "count"}
          /\ \/ main' = (IF left = 1 THEN "idle" ELSE "next") /\ left' = left - 1
             \/ main' = "count" /\ left' = left
          /\ UNCHANGED <<diagRequested, series, cleared, nextLocalId>>
      BY <2>8 DEF MarkUnsent, CountUnsent, AfterPing, diagVars, seriesVars, vars
    <3>. QED  BY <2>0, <3>1 DEF MainBooks
  <2>9. CASE UNCHANGED <<main, left, nextLocalId, diagRequested, series, cleared>>
    BY <2>9 DEF MainBooks
  <2>. QED
    BY <2>1, <2>2, <2>3, <2>4, <2>5, <2>6, <2>7, <2>8, <2>9, OthersLeave DEF PingNext, MainStep
<1>. QED  BY <1>1, <1>2, BelowKept, PTL DEF PingSpec

-----------------------------------------------------------------------------
(* The hands the pings are in and their states.                            *)

HandsOK ==
    /\ ponged \in SUBSET Ids /\ \A a, b \in ponged : a = b
    /\ timing \in SUBSET Ids /\ \A a, b \in timing : a = b
    /\ pongAt \in {"idle", "mark", "count"} /\ (pongAt = "idle" <=> ponged = {})
    /\ timeoutAt \in {"idle", "mark", "count"} /\ (timeoutAt = "idle" <=> timing = {})

LEMMA HandsKept == PingSpec => []HandsOK
<1>1. PingInit => HandsOK
  BY DEF PingInit, HandsOK
<1>2. Below /\ HandsOK /\ [PingNext]_allVars => HandsOK'
  <2>. SUFFICES ASSUME Below, HandsOK, [PingNext]_allVars PROVE HandsOK'
    OBVIOUS
  <2>1. CASE PingTimeOut
    <3>1. PICK id \in Ids : toTimeout' = toTimeout \ {id}
      BY <2>1 DEF PingTimeOut, TimeOut
    <3>2. /\ timing' = (toTimeout \ toTimeout') \cap pending
          /\ timeoutAt' = (IF timing' = {} THEN "idle" ELSE "mark")
          /\ UNCHANGED <<ponged, pongAt>>
      BY <2>1 DEF PingTimeOut, OnlyRetry, pongVars
    <3>3. timing' \subseteq {id}
      BY <3>1, <3>2
    <3>. QED  BY <3>2, <3>3 DEF HandsOK
  <2>2. CASE MarkTimedOut \/ CountLost
    <3>1. /\ timing' \subseteq timing /\ timeoutAt' \in {"idle", "mark", "count"}
          /\ timeoutAt' = "idle" <=> timing' = {}
          /\ UNCHANGED <<ponged, pongAt>>
      BY <2>2 DEF MarkTimedOut, CountLost, OnlyRetry, pongVars
    <3>. QED  BY <3>1 DEF HandsOK
  <2>3. CASE PingReply
    <3>1. toClient \in Seq(Replies) /\ toClient # <<>>
      BY <2>3 DEF PingReply, ReceiveReply, Below, TypeOK
    <3>4. Head(toClient) \in Replies
      BY <3>1
    <3>2. Head(toClient).id \in Ids
      BY <3>4 DEF Replies
    <3>3. /\ \/ ponged' = {Head(toClient).id} /\ pongAt' = "mark"
             \/ UNCHANGED <<ponged, pongAt>>
          /\ UNCHANGED <<timing, timeoutAt>>
      BY <2>3 DEF PingReply, OnlyReceive, pongVars, timeoutVars
    <3>. QED  BY <3>2, <3>3 DEF HandsOK
  <2>4. CASE MarkCompleted \/ CountReceived
    <3>1. /\ ponged' \subseteq ponged /\ pongAt' \in {"idle", "mark", "count"}
          /\ pongAt' = "idle" <=> ponged' = {}
          /\ UNCHANGED <<timing, timeoutAt>>
      BY <2>4 DEF MarkCompleted, CountReceived, OnlyReceive, timeoutVars
    <3>. QED  BY <3>1 DEF HandsOK
  <2>5. CASE UNCHANGED <<ponged, pongAt, timing, timeoutAt>>
    BY <2>5 DEF HandsOK
  <2>6. ASSUME NEW expired \in SUBSET pending, PingScan(expired)
        PROVE  UNCHANGED <<ponged, pongAt, timing, timeoutAt>>
    BY <2>6 DEF PingScan, OnlyRetry, pongVars, timeoutVars
  <2>7. CASE PingResend \/ PingServerStep \/ UNCHANGED allVars
    <3>. UNCHANGED <<ponged, pongAt, timing, timeoutAt>>
      BY <2>7 DEF PingResend, PingServerStep, AnswerPing, allVars, pingVars, pongVars, timeoutVars
    <3>. QED  BY <2>5
  <2>. QED
    BY <2>1, <2>2, <2>3, <2>4, <2>5, <2>6, <2>7, MainLeaves DEF PingNext, RetryStep, ReceiveStep
<1>. QED  BY <1>1, <1>2, BelowKept, PTL DEF PingSpec

StatesOK ==
    /\ pingStates \in [Ids -> {"none", "open", "completed", "timed_out"}]
    /\ lastSend \in [Ids -> 0..(MAX_RETRIES + 1)]
    /\ seriesOf \in [Ids -> 0..series]
    /\ found \in [Ids -> 0..series]
    /\ measured \in [Ids -> 0..(MAX_RETRIES + 1)]
    /\ storedLate \in SUBSET Ids /\ overtaken \in SUBSET Ids

LEMMA StatesKept == PingSpec => []StatesOK
<1>. USE ReliabilityAssumption, PingAssumption
<1>1. PingInit => StatesOK
  BY DEF PingInit, StatesOK
<1>2. Below /\ Below' /\ MainBooks /\ MainBooks' /\ StatesOK /\ [PingNext]_allVars => StatesOK'
  <2>. SUFFICES ASSUME Below, Below', MainBooks, MainBooks', StatesOK, [PingNext]_allVars
                PROVE  StatesOK'
    OBVIOUS
  <2>0. /\ nextLocalId \in 1..(MaxMsg + 1) /\ series \in 0..MaxSeries /\ cleared \in 0..series
        /\ retries' \in [Ids -> 0..MAX_RETRIES] /\ Ids = 1..MaxMsg
    BY DEF Below, TypeOK, MainBooks, Ids
  <2>. DEFINE T == 0..(MAX_RETRIES + 1)
              S == 0..series
  <2>10. /\ 1 \in T /\ series \in S /\ cleared \in S
         /\ \A n \in 0..MAX_RETRIES : n + 1 \in T
    BY <2>0
  <2>11. /\ pingStates \in [Ids -> {"none", "open", "completed", "timed_out"}]
         /\ lastSend \in [Ids -> T] /\ seriesOf \in [Ids -> S] /\ found \in [Ids -> S]
         /\ measured \in [Ids -> T] /\ storedLate \in SUBSET Ids /\ overtaken \in SUBSET Ids
    BY DEF StatesOK
  <2>12. ASSUME series' = series, lastSend' \in [Ids -> T], seriesOf' \in [Ids -> S],
                pingStates' \in [Ids -> {"none", "open", "completed", "timed_out"}],
                found' \in [Ids -> S], measured' \in [Ids -> T], storedLate' \in SUBSET Ids,
                overtaken' \in SUBSET Ids
         PROVE  StatesOK'
    <3>1. 0..series' = S
      BY <2>12
    <3>. HIDE DEF S
    <3>. QED  BY <2>12, <3>1 DEF StatesOK
  <2>. HIDE DEF T, S
  <2>1. ASSUME NEW count \in 1..(MaxMsg + 1 - nextLocalId), StartSeries(count)
        PROVE  StatesOK'
    <3>1. series' = series + 1
          /\ UNCHANGED <<pingStates, lastSend, seriesOf, found, measured, storedLate, overtaken>>
      BY <2>1 DEF StartSeries, rttVars
    <3>2. 0..series \subseteq 0..(series + 1)
      BY <2>0
    <3>. QED  BY <3>1, <3>2 DEF StatesOK
  <2>2. CASE ClearStates
    BY <2>2 DEF ClearStates, rttVars, StatesOK
  <2>3. CASE AddState
    <3>1. /\ pingStates' = [pingStates EXCEPT ![nextLocalId] = "open"]
          /\ lastSend' = [lastSend EXCEPT ![nextLocalId] = 1]
          /\ seriesOf' = [seriesOf EXCEPT ![nextLocalId] = series]
          /\ UNCHANGED <<series, found, measured, storedLate, overtaken>>
      BY <2>3 DEF AddState, rttVars
    <3>. QED  BY <2>10, <2>11, <2>12, <3>1
  <2>4. CASE StoreSendTime
    <3>1. nextLocalId - 1 \in Ids
      BY <2>0, <2>4 DEF StoreSendTime, MainBooks
    <3>2. /\ lastSend' = [lastSend EXCEPT ![nextLocalId - 1] = 1]
          /\ storedLate' \in {storedLate, storedLate \cup {nextLocalId - 1}}
          /\ UNCHANGED <<series, pingStates, seriesOf, found, measured, overtaken>>
      BY <2>4 DEF StoreSendTime, OnlyMain, seriesVars
    <3>. QED  BY <2>10, <2>11, <2>12, <3>1, <3>2
  <2>5. ASSUME NEW expired \in SUBSET pending, PingScan(expired)
        PROVE  StatesOK'
    <3>1. lastSend' = [id \in Ids |-> IF id \in toResend' /\ pingStates[id] # "none"
                                      THEN retries'[id] + 1 ELSE lastSend[id]]
          /\ UNCHANGED <<series, pingStates, seriesOf, found, measured, storedLate, overtaken>>
      BY <2>5 DEF PingScan, TimesOfResends, OnlyRetry, seriesVars, rttVars
    <3>. QED  BY <2>0, <2>10, <2>11, <2>12, <3>1
  <2>6. CASE MarkTimedOut \/ MarkCompleted \/ MarkUnsent
    <3>1. PICK ids \in SUBSET (timing \cup ponged \cup {nextLocalId - 1}),
               v \in {"timed_out", "completed"} :
              /\ Find(ids, v)
              /\ \/ measured' = [id \in Ids |-> IF id \in ids THEN lastSend[id] ELSE measured[id]]
                 \/ UNCHANGED measured
              /\ UNCHANGED <<series, seriesOf, lastSend, storedLate>>
              /\ overtaken' \in {overtaken, {}}
      BY <2>6 DEF MarkTimedOut, MarkCompleted, MarkUnsent, OnlyRetry, OnlyReceive, seriesVars,
         rttVars
    <3>. QED  BY <2>0, <3>1 DEF StatesOK, Find
  <2>7. CASE UNCHANGED <<series, pingStates, lastSend, seriesOf, found, measured, storedLate, overtaken>>
    BY <2>7 DEF StatesOK
  <2>8. CASE SendPing \/ SendPingFails \/ RegisterPing \/ CountUnsent
    <3>. UNCHANGED <<series, pingStates, lastSend, seriesOf, found, measured, storedLate, overtaken>>
      BY <2>8 DEF SendPing, SendPingFails, RegisterPing, CountUnsent, OnlyMain, seriesVars, rttVars
    <3>. QED  BY <2>7
  <2>9. CASE PingResend \/ PingTimeOut \/ CountLost \/ CountReceived \/ PingServerStep
             \/ UNCHANGED allVars
    <3>. UNCHANGED <<series, pingStates, lastSend, seriesOf, found, measured, storedLate, overtaken>>
      BY <2>9 DEF PingResend, PingTimeOut, CountLost, CountReceived, PingServerStep,
         AnswerPing, OnlyRetry, OnlyReceive, allVars, pingVars, seriesVars, rttVars
    <3>. QED  BY <2>7
  <2>13. CASE PingReply
    <3>1. UNCHANGED <<series, pingStates, lastSend, seriesOf, found, measured, storedLate>>
      BY <2>13 DEF PingReply, OnlyReceive, seriesVars
    <3>2. overtaken' = overtaken \/ overtaken' \subseteq sending
      BY <2>13 DEF PingReply
    <3>3. overtaken' \in SUBSET Ids
      BY <2>11, <3>2 DEF Below, TypeOK
    <3>. QED  BY <2>11, <2>12, <3>1, <3>3
  <2>. QED
    BY <2>1, <2>2, <2>3, <2>4, <2>5, <2>6, <2>8, <2>9, <2>13
       DEF PingNext, MainStep, RetryStep, ReceiveStep
<1>. QED  BY <1>1, <1>2, BelowKept, MainBooksKept, PTL DEF PingSpec

-----------------------------------------------------------------------------
(* What a step does to a ping's way into the statistics.                   *)

\* The ids that have been given a state.
Added == Submitted \cup (IF main = "send" THEN {nextLocalId} ELSE {})

\* The ids on which a thread has put its verdict, but which it has not counted.
Threads == {"main", "receive", "retry"}
Counting(t) ==
    IF t = "receive" THEN IF pongAt = "count" THEN ponged ELSE {}
    ELSE IF t = "retry" THEN IF timeoutAt = "count" THEN timing ELSE {}
    ELSE IF main = "count" THEN {nextLocalId - 1} ELSE {}
BeingCounted == {id \in Ids : \E t \in Threads : id \in Counting(t)}
Counted == {c.id : c \in counts}

OthersCounting(t) == \A u \in Threads \ {t} : Counting(u)' = Counting(u)

Settles(ids, verdict) ==
    /\ \A id \in ids : pingStates[id] = "open"
    /\ Find(ids, verdict)
    /\ UNCHANGED <<counts, tally>>

SettleStep ==
    \E t \in Threads, ids \in SUBSET Ids, verdict \in {"completed", "timed_out"} :
        /\ Settles(ids, verdict)
        /\ Counting(t) = {} /\ Counting(t)' = ids
        /\ OthersCounting(t)

CountsAs(t, kind) ==
    /\ Counting(t) # {} /\ Counting(t)' = {}
    /\ OthersCounting(t)
    /\ Count(Counting(t), kind)

CountStep ==
    \E t \in Threads :
        \/ CountsAs(t, "received") /\ diagReceived' = diagReceived + 1 /\ diagLost' = diagLost
        \/ CountsAs(t, "lost") /\ diagLost' = diagLost + 1 /\ diagReceived' = diagReceived

\* Every step starts a series, clears the states, adds a state, settles one, counts
\* one, or leaves all this alone.
HandsAlone == (\A t \in Threads : Counting(t)' = Counting(t)) /\ UNCHANGED <<counts, tally, found>>
CountsAlone == HandsAlone /\ UNCHANGED <<diagReceived, diagLost>>

\* A thread has one ping in hand.
LEMMA CountsOne ==
    ASSUME HandsOK, MainBooks, Below, NEW t \in Threads
    PROVE  Counting(t) \in SUBSET Ids /\ \A a, b \in Counting(t) : a = b
<1>1. main = "count" => nextLocalId - 1 \in Ids
  BY ReliabilityAssumption DEF MainBooks, Below, TypeOK, Ids
<1>. QED  BY <1>1 DEF Counting, Threads, HandsOK

\* The steps that have nothing to do with the hands.
LEMMA HandsLeft ==
    ASSUME \/ UNCHANGED <<pongAt, ponged>> \/ (pongAt # "count" /\ pongAt' # "count"),
           \/ UNCHANGED <<timeoutAt, timing>> \/ (timeoutAt # "count" /\ timeoutAt' # "count"),
           \/ UNCHANGED <<main, nextLocalId>> \/ (main # "count" /\ main' # "count")
    PROVE  \A t \in Threads : Counting(t)' = Counting(t)
BY DEF Counting

LEMMA WayIntoStatistics ==
    ASSUME HandsOK, MainBooks, Below, [PingNext]_allVars
    PROVE  \/ /\ HandsAlone /\ series' = series + 1 /\ diagReceived' = 0 /\ diagLost' = 0
              /\ UNCHANGED <<pingStates, seriesOf, cleared, Added>>
           \/ /\ CountsAlone /\ ClearStates /\ UNCHANGED <<seriesOf, Added, series>>
           \/ /\ CountsAlone /\ AddState /\ Added' = Added \cup {nextLocalId}
              /\ nextLocalId \notin Added /\ UNCHANGED <<cleared, series>>
           \/ /\ SettleStep
              /\ UNCHANGED <<seriesOf, cleared, Added, series, diagReceived, diagLost>>
           \/ CountStep /\ UNCHANGED <<pingStates, seriesOf, cleared, found, Added, series>>
           \/ CountsAlone /\ UNCHANGED <<pingStates, seriesOf, cleared, Added, series>>
<1>0. nextLocalId \in Nat /\ nextLocalId >= 1
  BY ReliabilityAssumption DEF Below, TypeOK
<1>1. ASSUME NEW count \in 1..(MaxMsg + 1 - nextLocalId), StartSeries(count)
      PROVE  /\ HandsAlone /\ series' = series + 1 /\ diagReceived' = 0 /\ diagLost' = 0
             /\ UNCHANGED <<pingStates, seriesOf, cleared, Added>>
  <2>1. \A t \in Threads : Counting(t)' = Counting(t)
    BY <1>1, HandsLeft DEF StartSeries, pongVars, timeoutVars
  <2>. QED  BY <1>1, <2>1 DEF StartSeries, vars, HandsAlone, Added, Submitted
<1>2. CASE ClearStates
  <2>1. \A t \in Threads : Counting(t)' = Counting(t)
    BY <1>2, HandsLeft DEF ClearStates, pongVars, timeoutVars
  <2>. QED
    BY <1>2, <2>1 DEF ClearStates, vars, diagVars, CountsAlone, HandsAlone, Added, Submitted
<1>3. CASE AddState
  <2>1. CountsAlone /\ UNCHANGED <<cleared, series, nextLocalId>>
    <3>1. \A t \in Threads : Counting(t)' = Counting(t)
      BY <1>3, HandsLeft DEF AddState, pongVars, timeoutVars
    <3>. QED  BY <1>3, <3>1 DEF AddState, vars, diagVars, CountsAlone, HandsAlone
  <2>2. Added = Submitted /\ Added' = Submitted \cup {nextLocalId}
    BY <1>3, <2>1 DEF AddState, Added, Submitted
  <2>3. nextLocalId \notin Submitted
    BY <1>0 DEF Submitted
  <2>. QED  BY <1>3, <2>1, <2>2, <2>3
<1>4. CASE SendPing \/ SendPingFails
  <2>1. CountsAlone /\ UNCHANGED <<pingStates, seriesOf, cleared, series>>
    <3>1. \A t \in Threads : Counting(t)' = Counting(t)
      BY <1>4, HandsLeft DEF SendPing, SendPingFails, OnlyMain, pongVars, timeoutVars
    <3>. QED
      BY <1>4, <3>1 DEF SendPing, SendPingFails, OnlyMain, diagVars, seriesVars, CountsAlone,
         HandsAlone
  <2>2. main = "send" /\ main' \in {"register", "mark"} /\ nextLocalId' = nextLocalId + 1
    BY <1>4 DEF SendPing, SendPingFails, OnlyMain, SubmitMessage, SubmitFails
  <2>3. \A n \in Nat : n >= 1 => 1..((n + 1) - 1) = (1..(n - 1)) \cup {n}
    OBVIOUS
  <2>4. Submitted' = Submitted \cup {nextLocalId}
    BY <1>0, <2>2, <2>3 DEF Submitted
  <2>5. Added' = Added
    BY <2>2, <2>4 DEF Added
  <2>. QED  BY <2>1, <2>5
<1>5. CASE RegisterPing \/ StoreSendTime
  <2>1. CountsAlone /\ UNCHANGED <<pingStates, seriesOf, cleared, series>>
    <3>1. \A t \in Threads : Counting(t)' = Counting(t)
      BY <1>5, HandsLeft DEF RegisterPing, StoreSendTime, OnlyMain, AfterPing, pongVars, timeoutVars
    <3>. QED
      BY <1>5, <3>1 DEF RegisterPing, StoreSendTime, OnlyMain, diagVars, seriesVars, CountsAlone,
         HandsAlone
  <2>2. main # "send" /\ main' # "send" /\ nextLocalId' = nextLocalId
    BY <1>5 DEF RegisterPing, StoreSendTime, OnlyMain, AfterPing, RegisterPending, vars
  <2>. QED  BY <2>1, <2>2 DEF Added, Submitted
<1>6. CASE MarkTimedOut
  <2>1. Added' = Added /\ UNCHANGED <<seriesOf, cleared, series, diagReceived, diagLost>>
    BY <1>6, OthersLeave DEF RetryStep, Added, Submitted, MarkTimedOut, OnlyRetry, diagVars
  <2>2. PICK ids \in SUBSET timing :
            /\ ids = {id \in timing : Unsettled(id)}
            /\ Find(ids, "timed_out") /\ timing' = ids
            /\ timeoutAt' = (IF ids = {} THEN "idle" ELSE "count")
    BY <1>6 DEF MarkTimedOut
  <2>3. /\ timeoutAt = "mark"
        /\ UNCHANGED <<counts, tally, ponged, pongAt, main, nextLocalId>>
    BY <1>6, OthersLeave DEF MarkTimedOut, OnlyRetry, pongVars, RetryStep
  <2>4. Counting("retry") = {} /\ Counting("retry")' = ids /\ OthersCounting("retry")
    BY <2>2, <2>3 DEF Counting, OthersCounting, Threads
  <2>5. Settles(ids, "timed_out")
    BY <2>2, <2>3 DEF Settles, Unsettled
  <2>. QED  BY <2>1, <2>4, <2>5 DEF SettleStep, HandsOK, Threads
<1>7. CASE MarkCompleted
  <2>1. Added' = Added /\ UNCHANGED <<seriesOf, cleared, series, diagReceived, diagLost>>
    BY <1>7, OthersLeave DEF ReceiveStep, Added, Submitted, MarkCompleted, OnlyReceive
  <2>2. PICK ids \in SUBSET ponged :
            /\ ids = {id \in ponged : Unsettled(id)}
            /\ Find(ids, "completed") /\ ponged' = ids
            /\ pongAt' = (IF ids = {} THEN "idle" ELSE "count")
    BY <1>7 DEF MarkCompleted
  <2>3. /\ pongAt = "mark"
        /\ UNCHANGED <<counts, tally, timing, timeoutAt, main, nextLocalId>>
    BY <1>7, OthersLeave DEF MarkCompleted, OnlyReceive, timeoutVars, ReceiveStep
  <2>4. Counting("receive") = {} /\ Counting("receive")' = ids /\ OthersCounting("receive")
    BY <2>2, <2>3 DEF Counting, OthersCounting, Threads
  <2>5. Settles(ids, "completed")
    BY <2>2, <2>3 DEF Settles, Unsettled
  <2>. QED  BY <2>1, <2>4, <2>5 DEF SettleStep, HandsOK, Threads
<1>8. CASE MarkUnsent
  <2>1. /\ main = "mark" /\ main' # "send"
        /\ UNCHANGED <<nextLocalId, seriesOf, cleared, series, diagReceived, diagLost, counts, tally,
                       ponged, pongAt, timing, timeoutAt>>
    BY <1>8 DEF MarkUnsent, AfterPing, vars, seriesVars, diagVars, pongVars, timeoutVars
  <2>2. Added' = Added
    BY <2>1 DEF Added, Submitted
  <2>3. PICK ids \in SUBSET {nextLocalId - 1} :
            /\ ids = {id \in {nextLocalId - 1} : Unsettled(id)}
            /\ Find(ids, "timed_out")
            /\ main' = (IF ids = {} THEN AfterPing ELSE "count")
    BY <1>8 DEF MarkUnsent
  <2>4. main' = "count" <=> ids # {}
    BY <2>3 DEF AfterPing
  <2>5. Counting("main") = {} /\ Counting("main")' = ids /\ OthersCounting("main")
    BY <2>1, <2>3, <2>4 DEF Counting, OthersCounting, Threads
  <2>6. Settles(ids, "timed_out")
    BY <2>1, <2>3 DEF Settles, Unsettled
  <2>7. ids \in SUBSET Ids
    BY <1>0, <2>1, <2>3, ReliabilityAssumption DEF MainBooks, Below, TypeOK, Ids
  <2>. QED  BY <2>1, <2>2, <2>5, <2>6, <2>7 DEF SettleStep, Threads
<1>9. CASE CountLost
  <2>1. Added' = Added /\ UNCHANGED <<pingStates, seriesOf, cleared, found, series>>
    BY <1>9, OthersLeave DEF RetryStep, Added, Submitted, CountLost
  <2>2. /\ timeoutAt = "count" /\ timing # {} /\ timeoutAt' = "idle"
        /\ Count(timing, "lost")
        /\ diagLost' = diagLost + 1
        /\ UNCHANGED <<diagReceived, ponged, pongAt, main, nextLocalId>>
    BY <1>9, OthersLeave DEF CountLost, HandsOK, pongVars, RetryStep
  <2>3. Counting("retry") = timing /\ Counting("retry")' = {} /\ OthersCounting("retry")
    BY <2>2 DEF Counting, OthersCounting, Threads
  <2>. QED  BY <2>1, <2>2, <2>3 DEF CountStep, CountsAs, Threads
<1>10. CASE CountReceived
  <2>1. Added' = Added /\ UNCHANGED <<pingStates, seriesOf, cleared, found, series>>
    BY <1>10, OthersLeave DEF ReceiveStep, Added, Submitted, CountReceived
  <2>2. /\ pongAt = "count" /\ ponged # {} /\ pongAt' = "idle"
        /\ Count(ponged, "received")
        /\ diagReceived' = diagReceived + 1
        /\ UNCHANGED <<diagLost, timing, timeoutAt, main, nextLocalId>>
    BY <1>10, OthersLeave DEF CountReceived, HandsOK, OnlyReceive, timeoutVars, ReceiveStep
  <2>3. Counting("receive") = ponged /\ Counting("receive")' = {} /\ OthersCounting("receive")
    BY <2>2 DEF Counting, OthersCounting, Threads
  <2>. QED  BY <2>1, <2>2, <2>3 DEF CountStep, CountsAs, Threads
<1>11. CASE CountUnsent
  <2>1. /\ main = "count" /\ main' \in {"idle", "next"}
        /\ Count({nextLocalId - 1}, "lost")
        /\ diagLost' = diagLost + 1
        /\ UNCHANGED <<nextLocalId, pingStates, seriesOf, cleared, found, series, diagReceived,
                       ponged, pongAt, timing, timeoutAt>>
    BY <1>11 DEF CountUnsent, AfterPing, vars, seriesVars, pongVars, timeoutVars
  <2>2. Added' = Added
    BY <2>1 DEF Added, Submitted
  <2>3. /\ Counting("main") = {nextLocalId - 1} /\ Counting("main")' = {}
        /\ OthersCounting("main")
    BY <2>1 DEF Counting, OthersCounting, Threads
  <2>. QED  BY <2>1, <2>2, <2>3 DEF CountStep, CountsAs, Threads
<1>12. CASE (\E expired \in SUBSET pending : PingScan(expired)) \/ PingResend \/ PingTimeOut
            \/ PingReply \/ PingServerStep \/ UNCHANGED allVars
  <2>1. Added' = Added /\ UNCHANGED <<seriesOf, cleared, series, main, nextLocalId>>
    BY <1>12, OthersLeave DEF RetryStep, ReceiveStep, Added, Submitted
  <2>2. UNCHANGED <<pingStates, counts, tally, found, diagReceived, diagLost>>
    BY <1>12 DEF PingScan, PingResend, PingTimeOut, PingReply, PingServerStep, AnswerPing,
       OnlyRetry, OnlyReceive, allVars, pingVars, diagVars
  <2>3. UNCHANGED <<ponged, pongAt>> \/ (pongAt = "idle" /\ pongAt' # "count")
    BY <1>12 DEF PingScan, PingResend, PingTimeOut, PingReply, PingServerStep, AnswerPing,
       OnlyRetry, OnlyReceive, allVars, pingVars, pongVars
  <2>4. UNCHANGED <<timing, timeoutAt>> \/ (timeoutAt = "idle" /\ timeoutAt' # "count")
    BY <1>12 DEF PingScan, PingResend, PingTimeOut, PingReply, PingServerStep, AnswerPing,
       OnlyRetry, OnlyReceive, allVars, pingVars, timeoutVars
  <2>5. \A t \in Threads : Counting(t)' = Counting(t)
    BY <2>1, <2>3, <2>4, HandsLeft
  <2>. QED  BY <2>1, <2>2, <2>5 DEF CountsAlone, HandsAlone
<1>. QED
  BY <1>1, <1>2, <1>3, <1>4, <1>5, <1>6, <1>7, <1>8, <1>9, <1>10, <1>11, <1>12
     DEF PingNext, MainStep, RetryStep, ReceiveStep

-----------------------------------------------------------------------------
(* Counted once.                                                           *)

\* A verdict is put only on an open state, and only a fresh id gets one: what has
\* been counted, or is in the hands of the thread that is going to count it, is
\* open no more, and no two of the three threads hold the same ping for counting.
CountBooks ==
    /\ counts \subseteq [id : Ids, kind : {"received", "lost"}, series : 1..series]
    /\ \A id \in Ids : pingStates[id] # "none" => id \in Added
    /\ Counted \cup BeingCounted \subseteq Added
    /\ \A id \in Ids : pingStates[id] = "open" => id \notin Counted \cup BeingCounted
    /\ BeingCounted \cap Counted = {}
    /\ \A t, u \in Threads : t # u => Counting(t) \cap Counting(u) = {}
    /\ tally \in [Ids -> Nat]
    /\ \A id \in Ids : tally[id] = IF id \in Counted THEN 1 ELSE 0

\* What is counted joins the statistics of the current series.
LEMMA CountingKeepsBooks ==
    ASSUME HandsOK, StatesOK, MainBooks, Below, CountBooks, CountStep,
           UNCHANGED <<pingStates, Added, series>>
    PROVE  CountBooks'
<1>. DEFINE none == {}
<1>1. PICK t \in Threads, kind \in {"received", "lost"} : CountsAs(t, kind)
  BY DEF CountStep
<1>2. PICK id \in Ids : Counting(t) = {id}
  <2>1. Counting(t) \in SUBSET Ids /\ \A a, b \in Counting(t) : a = b
    BY CountsOne
  <2>2. PICK id \in Counting(t) : TRUE
    BY <1>1 DEF CountsAs
  <2>. QED  BY <2>1, <2>2
<1>3. id \in BeingCounted /\ id \notin Counted /\ id \in Added
  BY <1>2 DEF CountBooks, BeingCounted
<1>4. series \in Nat /\ series > 0
  <2>1. series \in 0..MaxSeries /\ (series = 0 => main = "idle" /\ nextLocalId = 1)
    BY DEF MainBooks
  <2>2. series = 0 => Added = none
    BY <2>1 DEF Added, Submitted
  <2>. QED  BY <1>3, <2>1, <2>2, PingAssumption
<1>. DEFINE c == [id |-> id, kind |-> kind, series |-> series]
<1>5. /\ counts' = counts \cup {c}
      /\ \A k \in Ids : tally'[k] = IF k = id THEN tally[k] + 1 ELSE tally[k]
      /\ tally' \in [Ids -> Nat]
  BY <1>1, <1>2 DEF CountsAs, Count, CountBooks
<1>6. c.id = id /\ c \in [id : Ids, kind : {"received", "lost"}, series : 1..series]
  BY <1>4
<1>. HIDE DEF c
<1>7. Counted' = Counted \cup {id}
  BY <1>5, <1>6 DEF Counted
<1>8. \A u \in Threads : Counting(u)' = IF u = t THEN none ELSE Counting(u)
  BY <1>1 DEF CountsAs, OthersCounting
<1>9. BeingCounted' = BeingCounted \ {id}
  <2>1. \A u \in Threads : u # t => id \notin Counting(u)
    BY <1>2 DEF CountBooks
  <2>. QED  BY <1>2, <1>8, <2>1 DEF BeingCounted
<1>10. counts' \subseteq [id : Ids, kind : {"received", "lost"}, series : 1..series']
  BY <1>5, <1>6 DEF CountBooks
<1>11. (Counted \cup BeingCounted)' = Counted \cup BeingCounted
  BY <1>3, <1>7, <1>9
<1>12. (BeingCounted \cap Counted)' = none
  BY <1>7, <1>9 DEF CountBooks
<1>13. \A k \in Ids : tally'[k] = IF k \in Counted' THEN 1 ELSE 0
  BY <1>3, <1>5, <1>7 DEF CountBooks
<1>14. \A u, v \in Threads : u # v => Counting(u)' \cap Counting(v)' = none
  BY <1>8 DEF CountBooks
<1>. HIDE DEF none
<1>. QED  BY <1>5, <1>10, <1>11, <1>12, <1>13, <1>14 DEF CountBooks, none

LEMMA CountBooksStep ==
    ASSUME HandsOK, StatesOK, MainBooks, Below, CountBooks, [PingNext]_allVars
    PROVE  CountBooks'
<1>0. series \in Nat
  BY PingAssumption DEF MainBooks
<1>1. ASSUME HandsAlone, series' \in {series, series + 1},
             Added \subseteq Added',
             \A id \in Ids : pingStates'[id] = pingStates[id] \/ pingStates'[id] = "none"
                             \/ (pingStates'[id] = "open" /\ id \in Added' \ Added)
      PROVE  CountBooks'
  <2>1. 1..series \subseteq 1..series'
    BY <1>0, <1>1
  <2>2. counts' \subseteq [id : Ids, kind : {"received", "lost"}, series : 1..series']
    BY <1>1, <2>1 DEF CountBooks, HandsAlone
  <2>3. UNCHANGED <<BeingCounted, Counted, tally>> /\ \A t \in Threads : Counting(t)' = Counting(t)
    BY <1>1 DEF BeingCounted, Counted, HandsAlone
  <2>. QED  BY <1>1, <2>2, <2>3 DEF CountBooks
<1>2. ASSUME SettleStep, UNCHANGED <<Added, series>>
      PROVE  CountBooks'
  <2>1. PICK t \in Threads, ids \in SUBSET Ids, verdict \in {"completed", "timed_out"} :
            /\ Settles(ids, verdict)
            /\ Counting(t) = {} /\ Counting(t)' = ids
            /\ OthersCounting(t)
    BY <1>2 DEF SettleStep
  <2>2. \A u \in Threads : Counting(u)' = IF u = t THEN ids ELSE Counting(u)
    BY <2>1 DEF OthersCounting
  <2>3. BeingCounted' = BeingCounted \cup ids
    BY <2>1, <2>2 DEF BeingCounted
  <2>4. \A id \in ids : id \in Added /\ id \notin Counted \cup BeingCounted
    BY <2>1 DEF Settles, CountBooks
  <2>5. \A id \in Ids : pingStates'[id] = IF id \in ids THEN verdict ELSE pingStates[id]
    BY <2>1 DEF Settles, Find
  <2>6. counts' = counts /\ tally' = tally /\ Counted' = Counted
    BY <2>1 DEF Settles, Counted
  <2>7. \A u, v \in Threads : u # v => Counting(u)' \cap Counting(v)' = {}
    BY <2>2, <2>4 DEF BeingCounted, CountBooks
  <2>8. verdict # "open" /\ verdict # "none"
    BY <2>1
  <2>. QED  BY <1>2, <2>3, <2>4, <2>5, <2>6, <2>7, <2>8 DEF CountBooks
<1>3. ASSUME ClearStates, CountsAlone, UNCHANGED <<Added, series>>
      PROVE  CountBooks'
  <2>1. \A id \in Ids : pingStates'[id] = "none"
    BY <1>3 DEF ClearStates
  <2>. QED  BY <1>1, <1>3, <2>1 DEF CountsAlone
<1>4. ASSUME AddState, CountsAlone, Added' = Added \cup {nextLocalId},
             nextLocalId \notin Added, UNCHANGED series
      PROVE  CountBooks'
  <2>1. \A id \in Ids : pingStates'[id] = IF id = nextLocalId THEN "open" ELSE pingStates[id]
    BY <1>4 DEF AddState, StatesOK
  <2>. QED  BY <1>1, <1>4, <2>1 DEF CountsAlone
<1>5. ASSUME CountsAlone \/ HandsAlone, series' \in {series, series + 1},
             UNCHANGED <<pingStates, Added>>
      PROVE  CountBooks'
  BY <1>1, <1>5 DEF CountsAlone
<1>. QED
  BY <1>2, <1>3, <1>4, <1>5, WayIntoStatistics, CountingKeepsBooks

LEMMA CountBooksKept == PingSpec => []CountBooks
<1>1. PingInit => CountBooks
  BY DEF PingInit, CountBooks, Counted, BeingCounted, Counting, Threads
<1>. QED
  BY <1>1, CountBooksStep, BelowKept, MainBooksKept, HandsKept, StatesKept, PTL DEF PingSpec

\* A ping is counted at most once, as received or as lost, for any number of series
\* and however the three threads of the client that count overtake each other between
\* the state of a ping and the counters, whether or not the ping could be sent.
THEOREM PingsCountedOnce == PingSpec => []CountedOnce
<1>1. CountBooks => CountedOnce
  BY DEF CountBooks, CountedOnce
<1>. QED  BY <1>1, CountBooksKept, PTL

-----------------------------------------------------------------------------
(* Which series a ping is counted in.                                      *)

\* The states that are there belong to the series that has cleared the others,
\* and a verdict remembers which one that was.
SeriesBooks ==
    /\ \A id \in Ids : pingStates[id] # "none" => seriesOf[id] = cleared
    /\ \A id \in Counted \cup BeingCounted : found[id] = seriesOf[id]
    /\ \A c \in counts : seriesOf[c.id] <= c.series

LEMMA SeriesBooksStep ==
    ASSUME HandsOK, StatesOK, MainBooks, Below, CountBooks, SeriesBooks, [PingNext]_allVars
    PROVE  SeriesBooks'
<1>0. /\ Counted \subseteq Ids /\ BeingCounted \subseteq Ids
      /\ \A c \in counts : c.id \in Ids /\ c.id \in Counted
  <2>1. \A c \in counts : c.id \in Ids
    BY DEF CountBooks
  <2>. QED  BY <2>1 DEF Counted, BeingCounted
<1>1. ASSUME HandsAlone, UNCHANGED <<pingStates, seriesOf, cleared>>
      PROVE  SeriesBooks'
  BY <1>1 DEF HandsAlone, SeriesBooks, Counted, BeingCounted
<1>2. ASSUME ClearStates, HandsAlone, UNCHANGED seriesOf
      PROVE  SeriesBooks'
  <2>1. \A id \in Ids : pingStates'[id] = "none"
    BY <1>2 DEF ClearStates
  <2>. QED  BY <1>2, <2>1 DEF HandsAlone, SeriesBooks, Counted, BeingCounted
<1>3. ASSUME AddState, HandsAlone, nextLocalId \notin Added, UNCHANGED <<cleared, series>>
      PROVE  SeriesBooks'
  <2>1. /\ main # "clear" /\ series = cleared
        /\ \A id \in Ids : id # nextLocalId => pingStates'[id] = pingStates[id]
        /\ \A id \in Ids : seriesOf'[id] = IF id = nextLocalId THEN series ELSE seriesOf[id]
    BY <1>3 DEF AddState, MainBooks, StatesOK
  <2>2. nextLocalId \notin Counted \cup BeingCounted
    BY <1>3 DEF CountBooks
  <2>3. UNCHANGED <<Counted, BeingCounted, counts, found>>
    BY <1>3 DEF HandsAlone, Counted, BeingCounted
  <2>. QED  BY <1>0, <1>3, <2>1, <2>2, <2>3 DEF SeriesBooks
<1>4. ASSUME SettleStep, UNCHANGED <<seriesOf, cleared>>
      PROVE  SeriesBooks'
  <2>1. PICK ids \in SUBSET Ids, verdict \in {"completed", "timed_out"} :
            Settles(ids, verdict) /\ BeingCounted' \subseteq BeingCounted \cup ids
    BY <1>4 DEF SettleStep, BeingCounted, OthersCounting
  <2>2. counts' = counts /\ Counted' = Counted /\ \A id \in ids : pingStates[id] = "open"
    BY <2>1 DEF Settles, Counted
  <2>3. /\ \A id \in Ids : pingStates'[id] = IF id \in ids THEN verdict ELSE pingStates[id]
        /\ \A id \in Ids : found'[id] = IF id \in ids THEN cleared ELSE found[id]
    BY <2>1 DEF Settles, Find
  <2>. QED  BY <1>0, <1>4, <2>1, <2>2, <2>3 DEF SeriesBooks
<1>5. ASSUME CountStep, UNCHANGED <<pingStates, seriesOf, cleared, found>>
      PROVE  SeriesBooks'
  <2>1. PICK t \in Threads, kind \in {"received", "lost"} : CountsAs(t, kind)
    BY <1>5 DEF CountStep
  <2>2. \A c \in counts' : c \in counts \/ (c.id \in BeingCounted /\ c.series = series)
    <3>1. Counting(t) \subseteq BeingCounted
      BY CountsOne DEF BeingCounted
    <3>. QED  BY <2>1, <3>1 DEF CountsAs, Count
  <2>5. BeingCounted' \subseteq BeingCounted
    BY <2>1 DEF CountsAs, OthersCounting, BeingCounted
  <2>3. \A id \in Ids : seriesOf[id] <= series
    BY PingAssumption DEF StatesOK, MainBooks
  <2>4. Counted' \subseteq Counted \cup BeingCounted
    BY <2>2 DEF Counted
  <2>. QED  BY <1>0, <1>5, <2>2, <2>3, <2>4, <2>5 DEF SeriesBooks
<1>. QED
  BY <1>1, <1>2, <1>3, <1>4, <1>5, WayIntoStatistics DEF CountsAlone, HandsAlone

LEMMA SeriesBooksKept == PingSpec => []SeriesBooks
<1>1. PingInit => SeriesBooks
  BY DEF PingInit, SeriesBooks, Counted, BeingCounted, Counting, Threads
<1>. QED
  BY <1>1, SeriesBooksStep, BelowKept, MainBooksKept, HandsKept, StatesKept, CountBooksKept, PTL
     DEF PingSpec

\* A ping of an earlier series enters the statistics of a later one only if its
\* state was found before the later series had cleared the states.
THEOREM ForeignFoundBefore == PingSpec => []ForeignOnlyIfFoundBefore
<1>1. StatesOK /\ MainBooks /\ CountBooks /\ SeriesBooks => ForeignOnlyIfFoundBefore
  <2>. SUFFICES ASSUME StatesOK, MainBooks, CountBooks, SeriesBooks, NEW c \in counts,
                       c.series # seriesOf[c.id]
                PROVE  found[c.id] < c.series
    BY DEF ForeignOnlyIfFoundBefore
  <2>1. c.id \in Ids /\ c.series \in Nat
    BY DEF CountBooks
  <2>2. seriesOf[c.id] \in Nat
    BY <2>1 DEF StatesOK
  <2>3. found[c.id] = seriesOf[c.id] /\ seriesOf[c.id] <= c.series
    BY DEF SeriesBooks, Counted
  <2>. QED  BY <2>1, <2>2, <2>3
<1>. QED  BY <1>1, StatesKept, MainBooksKept, CountBooksKept, SeriesBooksKept, PTL

-----------------------------------------------------------------------------
(* The counters.                                                           *)

\* The counters of the current series are as many as the pings counted in it.
CountedAs(kind) == {id \in Ids : [id |-> id, kind |-> kind, series |-> series] \in counts}
DiagBooks ==
    /\ diagReceived = Cardinality(CountedAs("received"))
    /\ diagLost = Cardinality(CountedAs("lost"))

LEMMA CountedAsFinite ==
    ASSUME NEW S \in SUBSET Ids
    PROVE  IsFiniteSet(S) /\ Cardinality(S) \in 0..MaxMsg
<1>1. IsFiniteSet(Ids) /\ Cardinality(Ids) = MaxMsg
  BY FS_Interval, ReliabilityAssumption DEF Ids
<1>2. IsFiniteSet(S) /\ Cardinality(S) <= MaxMsg
  BY <1>1, FS_Subset
<1>. QED  BY <1>2, FS_CardinalityType, ReliabilityAssumption

LEMMA DiagBooksStep ==
    ASSUME HandsOK, StatesOK, MainBooks, Below, CountBooks, DiagBooks, [PingNext]_allVars
    PROVE  DiagBooks'
<1>. DEFINE none == {}
<1>0. series \in Nat
  BY PingAssumption DEF MainBooks
<1>1. ASSUME CountsAlone, UNCHANGED series
      PROVE  DiagBooks'
  BY <1>1 DEF CountsAlone, HandsAlone, DiagBooks, CountedAs
<1>2. ASSUME HandsAlone, series' = series + 1, diagReceived' = 0, diagLost' = 0
      PROVE  DiagBooks'
  <2>1. \A c \in counts : c.series <= series
    BY <1>0 DEF CountBooks
  <2>2. ASSUME NEW kind \in {"received", "lost"}, NEW id \in Ids,
               [id |-> id, kind |-> kind, series |-> series + 1] \in counts
        PROVE  FALSE
    <3>1. [id |-> id, kind |-> kind, series |-> series + 1].series <= series
      BY <2>1, <2>2
    <3>. QED  BY <1>0, <3>1
  <2>3. ASSUME NEW kind \in {"received", "lost"}
        PROVE  CountedAs(kind)' = none
    BY <1>2, <2>2 DEF CountedAs, HandsAlone
  <2>. QED  BY <1>2, <2>3, FS_EmptySet DEF DiagBooks
<1>3. ASSUME SettleStep, UNCHANGED <<series, diagReceived, diagLost>>
      PROVE  DiagBooks'
  <2>1. counts' = counts
    BY <1>3 DEF SettleStep, Settles
  <2>. QED  BY <1>3, <2>1 DEF DiagBooks, CountedAs
<1>4. ASSUME NEW kind \in {"received", "lost"}, NEW other \in {"received", "lost"}, kind # other,
             NEW id \in Ids, id \notin Counted,
             Count({id}, kind), UNCHANGED series
      PROVE  /\ Cardinality(CountedAs(kind)') = Cardinality(CountedAs(kind)) + 1
             /\ CountedAs(other)' = CountedAs(other)
  <2>1. counts' = counts \cup {[id |-> id, kind |-> kind, series |-> series]}
    BY <1>4 DEF Count
  <2>2. CountedAs(kind)' = CountedAs(kind) \cup {id} /\ CountedAs(other)' = CountedAs(other)
    BY <1>4, <2>1 DEF CountedAs
  <2>3. id \notin CountedAs(kind)
    <3>1. SUFFICES ASSUME id \in CountedAs(kind) PROVE FALSE
      OBVIOUS
    <3>2. [id |-> id, kind |-> kind, series |-> series] \in counts
      BY <3>1 DEF CountedAs
    <3>. QED  BY <1>4, <3>2 DEF Counted
  <2>4. IsFiniteSet(CountedAs(kind))
    BY CountedAsFinite DEF CountedAs
  <2>. QED  BY <2>2, <2>3, <2>4, FS_AddElement
<1>5. ASSUME CountStep, UNCHANGED series
      PROVE  DiagBooks'
  <2>1. PICK t \in Threads :
            \/ CountsAs(t, "received") /\ diagReceived' = diagReceived + 1 /\ diagLost' = diagLost
            \/ CountsAs(t, "lost") /\ diagLost' = diagLost + 1 /\ diagReceived' = diagReceived
    BY <1>5 DEF CountStep
  <2>2. PICK id \in Ids : Counting(t) = {id}
    <3>1. Counting(t) \in SUBSET Ids /\ \A a, b \in Counting(t) : a = b
      BY CountsOne
    <3>2. PICK id \in Counting(t) : TRUE
      BY <2>1 DEF CountsAs
    <3>. QED  BY <3>1, <3>2
  <2>3. id \notin Counted
    BY <2>2 DEF CountBooks, BeingCounted
  <2>4. CASE CountsAs(t, "received") /\ diagReceived' = diagReceived + 1 /\ diagLost' = diagLost
    <3>1. Count({id}, "received")
      BY <2>2, <2>4 DEF CountsAs
    <3>. QED  BY <1>4, <1>5, <2>3, <2>4, <3>1 DEF DiagBooks
  <2>5. CASE CountsAs(t, "lost") /\ diagLost' = diagLost + 1 /\ diagReceived' = diagReceived
    <3>1. Count({id}, "lost")
      BY <2>2, <2>5 DEF CountsAs
    <3>. QED  BY <1>4, <1>5, <2>3, <2>5, <3>1 DEF DiagBooks
  <2>. QED  BY <2>1, <2>4, <2>5
<1>. QED  BY <1>1, <1>2, <1>3, <1>5, WayIntoStatistics

LEMMA DiagBooksKept == PingSpec => []DiagBooks
<1>1. PingInit => DiagBooks
  <2>. DEFINE none == {}
  <2>1. PingInit => CountedAs("received") = none /\ CountedAs("lost") = none
    BY DEF PingInit, CountedAs
  <2>2. PingInit => diagReceived = 0 /\ diagLost = 0
    BY DEF PingInit
  <2>. QED  BY <2>1, <2>2, FS_EmptySet DEF DiagBooks
<1>. QED
  BY <1>1, DiagBooksStep, BelowKept, MainBooksKept, HandsKept, StatesKept, CountBooksKept, PTL
     DEF PingSpec

-----------------------------------------------------------------------------
(* The copies of a ping on their way to the server.                        *)

Copies(id) == {i \in 1..Len(toServer) : toServer[i] = id}

\* No more copies are on the wire than were sent, and the copy that the server
\* answered is one of them.
WireBooks ==
    /\ \A id \in Ids : Cardinality(Copies(id)) <= sends[id]
    /\ answered \in [Ids -> Nat]
    /\ \A id \in Ids : answered[id] <= sends[id]

LEMMA CopiesFinite ==
    ASSUME TypeOK, NEW id
    PROVE  IsFiniteSet(Copies(id)) /\ Cardinality(Copies(id)) \in Nat
<1>1. Len(toServer) \in Nat
  BY DEF TypeOK
<1>2. IsFiniteSet(1..Len(toServer)) /\ Copies(id) \in SUBSET (1..Len(toServer))
  BY <1>1, FS_Interval DEF Copies
<1>3. IsFiniteSet(Copies(id))
  BY <1>2, FS_Subset
<1>. QED  BY <1>3, FS_CardinalityType

\* A frame more on the wire is a copy more of its id, and no copy more of any other.
LEMMA TransmitAddsCopy ==
    ASSUME TypeOK, NEW sent \in Ids, toServer' = Append(toServer, sent), NEW id \in Ids
    PROVE  Cardinality(Copies(id)') =
               Cardinality(Copies(id)) + IF id = sent THEN 1 ELSE 0
<1>. DEFINE n == Len(toServer)
<1>1. /\ n \in Nat /\ Len(toServer') = n + 1 /\ toServer'[n + 1] = sent
      /\ \A i \in 1..n : toServer'[i] = toServer[i]
      /\ \A i \in 1..(n + 1) : i \in 1..n \/ i = n + 1
      /\ \A i \in 1..n : i \in 1..(n + 1)
      /\ n + 1 \in 1..(n + 1) /\ n + 1 \notin 1..n
  BY DEF TypeOK
<1>2. Copies(id)' = {i \in 1..(n + 1) : toServer'[i] = id}
  BY <1>1 DEF Copies
<1>. HIDE DEF n
<1>3. Copies(id) = {i \in 1..n : toServer[i] = id}
  BY DEF Copies, n
<1>4. CASE id = sent
  <2>1. Copies(id)' = Copies(id) \cup {n + 1} /\ n + 1 \notin Copies(id)
    BY <1>1, <1>2, <1>3, <1>4
  <2>. QED  BY <1>4, <2>1, CopiesFinite, FS_AddElement
<1>5. CASE id # sent
  <2>1. Copies(id)' = Copies(id)
    BY <1>1, <1>2, <1>3, <1>5
  <2>. QED  BY <1>5, <2>1, CopiesFinite
<1>. QED  BY <1>4, <1>5

\* A frame taken off the wire leaves no more copies than there were.
LEMMA ArrivalAddsNoCopy ==
    ASSUME TypeOK, toServer # <<>>, toServer' = Tail(toServer), NEW id \in Ids
    PROVE  Cardinality(Copies(id)') \in Nat /\ Cardinality(Copies(id)') <= Cardinality(Copies(id))
<1>. DEFINE n == Len(toServer)
            f == [i \in Copies(id)' |-> i + 1]
<1>1. /\ n \in Nat /\ Len(toServer') = n - 1
      /\ \A i \in 1..(n - 1) : toServer'[i] = toServer[i + 1] /\ i + 1 \in 1..n /\ i \in Nat
  BY DEF TypeOK
<1>2. Copies(id)' = {i \in 1..(n - 1) : toServer'[i] = id}
  BY <1>1 DEF Copies
<1>. HIDE DEF n
<1>3. Copies(id) = {i \in 1..n : toServer[i] = id}
  BY DEF Copies, n
<1>4. \A i \in Copies(id)' : i + 1 \in Copies(id) /\ i \in Nat
  BY <1>1, <1>2, <1>3
<1>. DEFINE S == Copies(id)'
            T == Copies(id)
<1>5. f \in Injection(S, T)
  <2>1. f \in [S -> T]
    BY <1>4
  <2>2. \A a, b \in S : f[a] = f[b] => a = b
    BY <1>4
  <2>. QED  BY <2>1, <2>2 DEF Injection, IsInjective
<1>6. IsFiniteSet(T)
  BY CopiesFinite
<1>. HIDE DEF f, S, T
<1>7. Cardinality(S) \in Nat /\ Cardinality(S) <= Cardinality(T)
  BY <1>5, <1>6, FS_Injection, FS_CardinalityType
<1>. QED  BY <1>7 DEF S, T

LEMMA WireBooksStep ==
    ASSUME Below, Below', WireBooks, [PingNext]_allVars
    PROVE  WireBooks'
<1>0. /\ sends \in [Ids -> Nat] /\ sends' \in [Ids -> Nat]
      /\ \A id \in Ids : Cardinality(Copies(id)) \in Nat
  BY CopiesFinite DEF Below, TypeOK
<1>1. ASSUME NEW id \in Ids, Transmit(id), UNCHANGED answered
      PROVE  WireBooks'
  <2>1. toServer' = Append(toServer, id) /\ sends' = [sends EXCEPT ![id] = @ + 1]
    BY <1>1 DEF Transmit
  <2>2. \A k \in Ids : sends'[k] = sends[k] + IF k = id THEN 1 ELSE 0
    BY <1>0, <2>1
  <2>3. \A k \in Ids : Cardinality(Copies(k)') = Cardinality(Copies(k)) + IF k = id THEN 1 ELSE 0
    BY <2>1, TransmitAddsCopy DEF Below
  <2>4. \A k \in Ids : Cardinality(Copies(k)') <= sends'[k]
    BY <1>0, <2>2, <2>3 DEF WireBooks
  <2>5. \A k \in Ids : answered[k] <= sends'[k]
    BY <1>0, <2>2 DEF WireBooks
  <2>. QED  BY <1>1, <2>4, <2>5 DEF WireBooks
<1>2. ASSUME toServer # <<>>, toServer' = Tail(toServer), UNCHANGED sends,
             \/ UNCHANGED answered
             \/ /\ answered' \in [Ids -> Nat]
                /\ \A id \in Ids : answered'[id] <= sends[id]
      PROVE  WireBooks'
  <2>1. \A k \in Ids : /\ Cardinality(Copies(k)') \in Nat
                       /\ Cardinality(Copies(k)') <= Cardinality(Copies(k))
    BY <1>2, ArrivalAddsNoCopy DEF Below
  <2>2. \A k \in Ids : Cardinality(Copies(k)') <= sends'[k]
    BY <1>0, <1>2, <2>1 DEF WireBooks
  <2>. QED  BY <1>2, <2>2 DEF WireBooks
<1>3. ASSUME UNCHANGED <<toServer, sends, answered>>
      PROVE  WireBooks'
  BY <1>3 DEF WireBooks, Copies
<1>4. CASE SendPing
  <2>1. nextLocalId \in Ids /\ Transmit(nextLocalId) /\ UNCHANGED answered
    BY <1>4 DEF SendPing, SubmitMessage, OnlyMain, Below, TypeOK, Ids
  <2>. QED  BY <1>1, <2>1
<1>5. CASE PingResend
  <2>1. PICK id \in Ids : Transmit(id) /\ UNCHANGED answered
    BY <1>5 DEF PingResend, Resend, pingVars, rttVars
  <2>. QED  BY <1>1, <2>1
<1>6. CASE AnswerPing
  <2>1. toServer # <<>> /\ toServer' = Tail(toServer) /\ UNCHANGED sends
    BY <1>6 DEF AnswerPing, ProcessNew, historyVars
  <2>2. PICK id \in Ids : id = Head(toServer)
    BY <2>1, SMTT(60) DEF Below, TypeOK
  <2>3. answered' = IF answered[id] = 0 THEN [answered EXCEPT ![id] = ArrivingCopy(id)]
                                        ELSE answered
    BY <1>6, <2>2 DEF AnswerPing
  <2>4. ArrivingCopy(id) = sends[id] - Cardinality(Copies(id)) + 1
    BY DEF ArrivingCopy, Copies
  <2>5. Cardinality(Copies(id)) # 0
    <3>1. 1 \in 1..Len(toServer) /\ toServer[1] = id
      BY <2>1, <2>2 DEF Below, TypeOK
    <3>2. Copies(id) # {}
      BY <3>1 DEF Copies
    <3>. QED  BY <3>2, CopiesFinite, FS_EmptySet DEF Below
  <2>6. ArrivingCopy(id) \in Nat /\ ArrivingCopy(id) <= sends[id]
    BY <1>0, <2>4, <2>5 DEF WireBooks
  <2>7. answered' \in [Ids -> Nat] /\ \A k \in Ids : answered'[k] <= sends[k]
    BY <2>3, <2>6 DEF WireBooks
  <2>. QED  BY <1>2, <2>1, <2>7
<1>7. CASE (DropIncoming \/ AnswerDuplicate) /\ UNCHANGED pingVars
  <2>1. toServer # <<>> /\ toServer' = Tail(toServer) /\ UNCHANGED <<sends, answered>>
    BY <1>7 DEF DropIncoming, AnswerDuplicate, historyVars, pingVars, rttVars
  <2>. QED  BY <1>2, <2>1
<1>8. CASE (\E expired \in SUBSET pending : PingScan(expired)) \/ PingTimeOut \/ PingReply
           \/ RegisterPing \/ SendPingFails
  <2>1. UNCHANGED <<toServer, sends, answered>>
    BY <1>8 DEF PingScan, PingTimeOut, PingReply, RegisterPing, ScanPending, TimeOut, ReceiveReply,
       RegisterPending, SendPingFails, SubmitFails, OnlyMain, OnlyRetry, OnlyReceive, historyVars,
       rttVars
  <2>. QED  BY <1>3, <2>1
<1>9. CASE UNCHANGED vars /\ UNCHANGED answered
  BY <1>3, <1>9 DEF vars
<1>10. CASE ClearStates \/ AddState \/ StoreSendTime \/ MarkTimedOut \/ CountLost
            \/ MarkUnsent \/ CountUnsent \/ MarkCompleted \/ CountReceived \/ UNCHANGED allVars
            \/ \E count \in 1..(MaxMsg + 1 - nextLocalId) : StartSeries(count)
  BY <1>9, <1>10 DEF ClearStates, AddState, StoreSendTime, MarkTimedOut, CountLost, MarkCompleted,
     CountReceived, MarkUnsent, CountUnsent, StartSeries, OnlyMain, OnlyRetry, OnlyReceive, allVars,
     pingVars, rttVars
<1>. QED
  BY <1>4, <1>5, <1>6, <1>7, <1>8, <1>10
     DEF PingNext, MainStep, RetryStep, ReceiveStep, PingServerStep

LEMMA WireBooksKept == PingSpec => []WireBooks
<1>1. PingInit => WireBooks
  <2>. DEFINE none == {}
  <2>. SUFFICES ASSUME PingInit PROVE WireBooks
    OBVIOUS
  <2>1. \A id \in Ids : Copies(id) = none
    BY DEF PingInit, Init, Copies
  <2>2. Cardinality(none) = 0
    BY FS_EmptySet
  <2>. HIDE DEF none
  <2>. QED  BY <2>1, <2>2 DEF PingInit, Init, WireBooks
<1>. QED  BY <1>1, WireBooksStep, BelowKept, PTL DEF PingSpec

-----------------------------------------------------------------------------
(* The well-typed state.                                                   *)

\* Nothing of the ping series leaves its range: the counters never pass the number
\* of pings, no time belongs to a copy that cannot be sent, and each thread has at
\* most one ping in its hands.
THEOREM PingsTypeCorrect == PingSpec => []PingTypeOK
<1>1. /\ Below /\ MainBooks /\ HandsOK /\ StatesOK /\ CountBooks /\ DiagBooks /\ WireBooks
      /\ TransmissionsBounded
      => PingTypeOK
  <2>. SUFFICES ASSUME Below, MainBooks, HandsOK, StatesOK, CountBooks, DiagBooks, WireBooks,
                       TransmissionsBounded
                PROVE  PingTypeOK
    OBVIOUS
  <2>0. /\ MAX_RETRIES \in Nat /\ MaxSeries \in Nat
        /\ series \in 0..MaxSeries /\ cleared \in 0..series
    BY ReliabilityAssumption, PingAssumption DEF MainBooks
  <2>1. 0..series \subseteq 0..MaxSeries /\ 1..series \subseteq 1..MaxSeries
    BY <2>0
  <2>2. seriesOf \in [Ids -> 0..MaxSeries] /\ found \in [Ids -> 0..MaxSeries]
    BY <2>1 DEF StatesOK
  <2>3. counts \in SUBSET Counts
    BY <2>1 DEF CountBooks, Counts
  <2>4. answered \in [Ids -> 0..(MAX_RETRIES + 1)]
    <3>1. sends \in [Ids -> Nat] /\ answered \in [Ids -> Nat]
      BY DEF Below, TypeOK, WireBooks
    <3>2. \A id \in Ids : answered[id] \in 0..(MAX_RETRIES + 1)
      BY <2>0, <3>1 DEF WireBooks, TransmissionsBounded
    <3>. QED  BY <3>1, <3>2
  <2>5. diagReceived \in 0..MaxMsg /\ diagLost \in 0..MaxMsg
    BY CountedAsFinite DEF DiagBooks, CountedAs
  <2>6. ASSUME NEW H \in SUBSET Ids, \A a, b \in H : a = b
        PROVE  Cardinality(H) <= 1
    <3>1. CASE H = {}
      BY <3>1, FS_EmptySet
    <3>2. ASSUME NEW id \in H PROVE H = {id}
      BY <2>6, <3>2
    <3>3. \A id : Cardinality({id}) = 1
      BY FS_Singleton
    <3>4. ASSUME NEW id \in H PROVE Cardinality(H) = 1
      BY <3>2, <3>3
    <3>. QED  BY <3>1, <3>4
  <2>7. Cardinality(ponged) <= 1 /\ Cardinality(timing) <= 1
    BY <2>6 DEF HandsOK
  <2>8. tally \in [Ids -> Nat]
    BY DEF CountBooks
  <2>. QED
    BY <2>0, <2>2, <2>3, <2>4, <2>5, <2>7, <2>8
       DEF PingTypeOK, Below, MainBooks, HandsOK, StatesOK
<1>. QED
  BY <1>1, PingsUseTheLayer, BelowKept, MainBooksKept, HandsKept, StatesKept, CountBooksKept,
     DiagBooksKept, WireBooksKept, CopiesBounded, PTL

-----------------------------------------------------------------------------
(* The round-trip time.                                                    *)

\* A PONG is there only of a ping the server has answered.  The time of sending
\* keeps up with the retries, as long as the state is there to keep it, unless main
\* has stored the time of the first copy after a retry.
PongBooks ==
    /\ \A i \in 1..Len(toClient) : toClient[i].type = "PONG" => answered[toClient[i].id] # 0
    /\ \A id \in ponged : answered[id] # 0
TimeKept(id) == lastSend[id] >= retries[id] + 1 \/ id \in storedLate
TimeBooks ==
    /\ \A id \in Ids : pingStates[id] # "none" => TimeKept(id)
    /\ \A id \in Ids : measured[id] # 0 => answered[id] # 0
    /\ RttNotOverstated

LEMMA AnswerPingStep ==
    ASSUME Below, WireBooks, AnswerPing
    PROVE  \E id \in Ids : /\ id = Head(toServer)
                           /\ answered'[id] # 0
                           /\ \A k \in Ids : (k = id /\ answered[k] = 0) \/ answered'[k] = answered[k]
<1>1. toServer # <<>>
  BY DEF AnswerPing, ProcessNew
<1>2. PICK id \in Ids : id = Head(toServer)
  BY <1>1 DEF Below, TypeOK
<1>3. answered' = IF answered[id] = 0 THEN [answered EXCEPT ![id] = ArrivingCopy(id)]
                                      ELSE answered
  BY <1>2 DEF AnswerPing
<1>4. ArrivingCopy(id) = sends[id] - Cardinality(Copies(id)) + 1
  BY DEF ArrivingCopy, Copies
<1>5. /\ sends[id] \in Nat /\ Cardinality(Copies(id)) \in Nat
      /\ Cardinality(Copies(id)) <= sends[id]
  BY CopiesFinite DEF Below, TypeOK, WireBooks
<1>6. ArrivingCopy(id) # 0
  BY <1>4, <1>5
<1>. QED  BY <1>2, <1>3, <1>6 DEF WireBooks

LEMMA OnlyServerAnswers ==
    ASSUME [PingNext]_allVars, ~AnswerPing
    PROVE  UNCHANGED answered
<1>1. CASE (\E count \in 1..(MaxMsg + 1 - nextLocalId) : StartSeries(count)) \/ MainStep
  BY <1>1, MainLeaves
<1>2. CASE (\E expired \in SUBSET pending : PingScan(expired)) \/ RetryStep
  BY <1>2 DEF PingScan, RetryStep, PingResend, PingTimeOut, MarkTimedOut, CountLost, OnlyRetry,
     pingVars, rttVars
<1>3. CASE ReceiveStep
  BY <1>3 DEF ReceiveStep, PingReply, MarkCompleted, CountReceived, OnlyReceive
<1>4. CASE ((DropIncoming \/ AnswerDuplicate) /\ UNCHANGED pingVars) \/ UNCHANGED allVars
  BY <1>4 DEF pingVars, allVars, rttVars
<1>. QED  BY <1>1, <1>2, <1>3, <1>4 DEF PingNext, PingServerStep

LEMMA PongBooksStep ==
    ASSUME Below, HandsOK, WireBooks, PongBooks, [PingNext]_allVars
    PROVE  PongBooks'
<1>0. /\ toClient \in Seq(Replies) /\ Len(toClient) \in Nat
      /\ \A i \in 1..Len(toClient) : toClient[i].id \in Ids
  <2>1. toClient \in Seq(Replies) /\ Len(toClient) \in Nat
    BY DEF Below, TypeOK
  <2>2. \A i \in 1..Len(toClient) : toClient[i] \in Replies
    BY <2>1
  <2>. QED  BY <2>1, <2>2 DEF Replies
<1>1. CASE AnswerPing
  <2>1. PICK id \in Ids : /\ id = Head(toServer) /\ answered'[id] # 0
                          /\ \A k \in Ids : (k = id /\ answered[k] = 0) \/ answered'[k] = answered[k]
    BY <1>1, AnswerPingStep
  <2>2. toClient' = toClient \o Answer(id) /\ UNCHANGED ponged
    BY <1>1, <2>1 DEF AnswerPing, ProcessNew, pongVars
  <2>. DEFINE A == Answer(id)
  <2>3. A \in Seq(Replies) /\ Len(A) \in Nat /\ \A i \in 1..Len(A) : A[i].id = id
    <3>. DEFINE a == Reply("ACK", id)
                p == Reply("PONG", id)
    <3>1. a \in Replies /\ p \in Replies /\ a.id = id /\ p.id = id
      BY <2>1 DEF Reply, Replies
    <3>2. A = <<a>> \/ A = <<a, p>>
      BY DEF Answer
    <3>. HIDE DEF a, p, A
    <3>3. CASE A = <<a>>
      <4>1. A \in Seq(Replies) /\ Len(A) = 1 /\ A[1] = a
        BY <3>1, <3>3
      <4>. QED  BY <3>1, <4>1
    <3>4. CASE A = <<a, p>>
      <4>1. A \in Seq(Replies) /\ Len(A) = 2 /\ A[1] = a /\ A[2] = p
        BY <3>1, <3>4
      <4>2. \A i \in 1..2 : i = 1 \/ i = 2
        OBVIOUS
      <4>. QED  BY <3>1, <4>1, <4>2
    <3>. QED  BY <3>2, <3>3, <3>4
  <2>. HIDE DEF A
  <2>4. /\ Len(toClient') = Len(toClient) + Len(A)
        /\ \A i \in 1..Len(toClient) : toClient'[i] = toClient[i]
        /\ \A i \in 1..Len(A) : toClient'[Len(toClient) + i] = A[i]
    BY <1>0, <2>2, <2>3 DEF A
  <2>5. ASSUME NEW i \in 1..Len(toClient'), toClient'[i].type = "PONG"
        PROVE  answered'[toClient'[i].id] # 0
    <3>1. CASE i \in 1..Len(toClient)
      BY <1>0, <2>1, <2>4, <2>5, <3>1 DEF PongBooks
    <3>2. CASE i \notin 1..Len(toClient)
      <4>1. i - Len(toClient) \in 1..Len(A) /\ Len(toClient) + (i - Len(toClient)) = i
        BY <1>0, <2>3, <2>4, <3>2
      <4>2. toClient'[i].id = id
        BY <2>3, <2>4, <4>1
      <4>. QED  BY <2>1, <4>2
    <3>. QED  BY <3>1, <3>2
  <2>. QED  BY <2>1, <2>2, <2>5 DEF PongBooks, HandsOK
<1>2. CASE PingReply
  <2>1. toClient # <<>> /\ toClient' = Tail(toClient) /\ UNCHANGED answered
    BY <1>2 DEF PingReply, ReceiveReply, OnlyReceive
  <2>2. /\ Len(toClient') = Len(toClient) - 1 /\ Len(toClient) > 0 /\ Head(toClient) = toClient[1]
        /\ \A i \in 1..(Len(toClient) - 1) : toClient'[i] = toClient[i + 1]
                                             /\ i + 1 \in 1..Len(toClient)
    BY <1>0, <2>1
  <2>3. \/ toClient[1].type = "PONG" /\ ponged' = {toClient[1].id}
        \/ UNCHANGED ponged
    BY <1>2, <2>2 DEF PingReply, pongVars
  <2>4. 1 \in 1..Len(toClient)
    BY <1>0, <2>2
  <2>. QED  BY <2>1, <2>2, <2>3, <2>4 DEF PongBooks
<1>3. CASE AnswerDuplicate /\ UNCHANGED pingVars
  <2>. DEFINE a == Reply("ACK", Head(toServer))
  <2>1. toClient' = Append(toClient, a) /\ UNCHANGED <<answered, ponged>>
    BY <1>3 DEF AnswerDuplicate, pingVars, pongVars, rttVars
  <2>2. a.type # "PONG"
    BY DEF Reply
  <2>. HIDE DEF a
  <2>3. /\ Len(toClient') = Len(toClient) + 1 /\ toClient'[Len(toClient) + 1] = a
        /\ \A i \in 1..Len(toClient) : toClient'[i] = toClient[i]
        /\ \A i \in 1..Len(toClient') : i \in 1..Len(toClient) \/ i = Len(toClient) + 1
    BY <1>0, <2>1
  <2>. QED  BY <2>1, <2>2, <2>3 DEF PongBooks
<1>4. CASE MarkCompleted \/ CountReceived
  <2>1. ponged' \subseteq ponged /\ UNCHANGED <<toClient, answered>>
    BY <1>4 DEF MarkCompleted, CountReceived, OnlyReceive, vars
  <2>. QED  BY <2>1 DEF PongBooks
<1>5. CASE (\E expired \in SUBSET pending : PingScan(expired)) \/ RetryStep
           \/ (DropIncoming /\ UNCHANGED pingVars) \/ UNCHANGED allVars
  <2>1. UNCHANGED <<ponged, toClient, answered>>
    BY <1>5 DEF PingScan, RetryStep, PingResend, PingTimeOut, MarkTimedOut, CountLost, OnlyRetry,
       ScanPending, Resend, TimeOut, DropIncoming, pingVars, allVars, vars, rttVars, pongVars
  <2>. QED  BY <2>1 DEF PongBooks
<1>6. CASE (\E count \in 1..(MaxMsg + 1 - nextLocalId) : StartSeries(count)) \/ MainStep
  <2>1. UNCHANGED <<ponged, toClient, answered>>
    BY <1>6, MainLeaves
  <2>. QED  BY <2>1 DEF PongBooks
<1>. QED
  BY <1>1, <1>2, <1>3, <1>4, <1>5, <1>6 DEF PingNext, ReceiveStep, PingServerStep

LEMMA PongBooksKept == PingSpec => []PongBooks
<1>1. PingInit => PongBooks
  BY DEF PingInit, Init, PongBooks
<1>. QED  BY <1>1, PongBooksStep, BelowKept, HandsKept, WireBooksKept, PTL DEF PingSpec

\* What a step does to the times: a retry, a stored time or a new state touches only
\* what it may, and a measurement takes the time that is there.
LEMMA TimeKeptStep ==
    ASSUME Below, Below', MainBooks, StatesOK, CountBooks, TimeBooks, [PingNext]_allVars
    PROVE  \A id \in Ids : pingStates'[id] # "none" => TimeKept(id)'
<1>0. /\ lastSend \in [Ids -> Nat] /\ retries \in [Ids -> Nat] /\ retries' \in [Ids -> Nat]
      /\ \A id \in Ids : lastSend[id] \in Nat /\ retries[id] \in Nat /\ retries'[id] \in Nat
  <2>1. lastSend \in [Ids -> Nat]
    BY ReliabilityAssumption DEF StatesOK
  <2>2. retries \in [Ids -> Nat] /\ retries' \in [Ids -> Nat]
    BY ReliabilityAssumption DEF Below, TypeOK
  <2>. QED  BY <2>1, <2>2
<1>1. ASSUME \A id \in Ids : lastSend'[id] = lastSend[id] /\ retries'[id] <= retries[id],
             storedLate \subseteq storedLate',
             \A id \in Ids : pingStates'[id] # "none" => pingStates[id] # "none"
      PROVE  \A id \in Ids : pingStates'[id] # "none" => TimeKept(id)'
  BY <1>0, <1>1 DEF TimeBooks, TimeKept
<1>2. CASE AddState
  <2>1. /\ \A id \in Ids : lastSend'[id] = IF id = nextLocalId THEN 1 ELSE lastSend[id]
        /\ \A id \in Ids : pingStates'[id] = IF id = nextLocalId THEN "open" ELSE pingStates[id]
        /\ UNCHANGED <<retries, storedLate>>
    BY <1>2 DEF AddState, StatesOK, vars, rttVars
  <2>2. nextLocalId \in Ids => retries[nextLocalId] = 0
    <3>1. nextLocalId \notin Submitted
      BY DEF Submitted, Below, TypeOK
    <3>. QED  BY <3>1 DEF Below, RetryBooks
  <2>. QED  BY <1>0, <2>1, <2>2 DEF TimeBooks, TimeKept
<1>3. CASE RegisterPing
  <2>1. PICK id \in sending : retries' = [retries EXCEPT ![id] = 0]
    BY <1>3 DEF RegisterPing, RegisterPending
  <2>2. UNCHANGED <<lastSend, storedLate, pingStates>>
    BY <1>3 DEF RegisterPing, OnlyMain
  <2>3. \A k \in Ids : retries'[k] <= retries[k]
    BY <1>0, <2>1
  <2>. QED  BY <1>1, <2>2, <2>3
<1>4. CASE StoreSendTime
  <2>. DEFINE id == nextLocalId - 1
  <2>1. id \in Ids
    <3>1. nextLocalId \in 1..(MaxMsg + 1) /\ nextLocalId > 1
      BY <1>4 DEF StoreSendTime, MainBooks, Below, TypeOK
    <3>. QED  BY <3>1, ReliabilityAssumption DEF Ids
  <2>2. /\ lastSend' = [lastSend EXCEPT ![id] = 1]
        /\ storedLate' = (IF lastSend[id] > 1 THEN storedLate \cup {id} ELSE storedLate)
        /\ UNCHANGED <<retries, pingStates>>
    BY <1>4 DEF StoreSendTime, OnlyMain, vars
  <2>. HIDE DEF id
  <2>3. \A k \in Ids : lastSend'[k] = IF k = id THEN 1 ELSE lastSend[k]
    BY <1>0, <2>2
  <2>. QED  BY <1>0, <2>1, <2>2, <2>3 DEF TimeBooks, TimeKept
<1>5. ASSUME NEW expired \in SUBSET pending, PingScan(expired)
      PROVE  \A id \in Ids : pingStates'[id] # "none" => TimeKept(id)'
  <2>1. /\ \A id \in Ids : retries'[id] = IF id \in toResend' THEN retries[id] + 1 ELSE retries[id]
        /\ \A id \in Ids : lastSend'[id] = IF id \in toResend' /\ pingStates[id] # "none"
                                           THEN retries'[id] + 1 ELSE lastSend[id]
        /\ UNCHANGED <<pingStates, storedLate>>
    BY <1>5 DEF PingScan, ScanPending, TimesOfResends, OnlyRetry, rttVars
  <2>. QED  BY <1>0, <2>1 DEF TimeBooks, TimeKept
<1>6. CASE MarkTimedOut \/ MarkCompleted \/ MarkUnsent
  <2>1. PICK ids \in SUBSET {id \in Ids \cup timing \cup ponged \cup {nextLocalId - 1} :
                                 pingStates[id] = "open"},
             v \in {"timed_out", "completed"} : Find(ids, v)
    BY <1>6 DEF MarkTimedOut, MarkCompleted, MarkUnsent, Unsettled
  <2>2. \A id \in Ids : pingStates'[id] # "none" => pingStates[id] # "none"
    BY <2>1 DEF Find
  <2>3. UNCHANGED <<lastSend, retries, storedLate>>
    BY <1>6 DEF MarkTimedOut, MarkCompleted, MarkUnsent, OnlyRetry, OnlyReceive, vars, rttVars
  <2>. QED  BY <1>0, <1>1, <2>2, <2>3
<1>7. CASE ClearStates
  BY <1>7 DEF ClearStates
<1>8. CASE UNCHANGED <<lastSend, retries, storedLate, pingStates>>
  BY <1>0, <1>1, <1>8
<1>9. CASE SendPing \/ SendPingFails \/ CountUnsent
           \/ \E count \in 1..(MaxMsg + 1 - nextLocalId) : StartSeries(count)
  BY <1>8, <1>9 DEF SendPing, SendPingFails, CountUnsent, StartSeries, SubmitMessage, SubmitFails,
     OnlyMain, vars, rttVars
<1>10. CASE PingResend \/ PingTimeOut \/ CountLost \/ UNCHANGED allVars
  BY <1>8, <1>10 DEF PingResend, PingTimeOut, CountLost, Resend, TimeOut, OnlyRetry, allVars, vars,
     pingVars, rttVars
<1>11. CASE PingReply \/ CountReceived
  BY <1>8, <1>11 DEF PingReply, CountReceived, ReceiveReply, OnlyReceive, vars, rttVars
<1>12. CASE PingServerStep
  BY <1>8, <1>12 DEF PingServerStep, AnswerPing, ProcessNew, DropIncoming, AnswerDuplicate,
     clientVars, pingVars, rttVars
<1>. QED
  BY <1>2, <1>3, <1>4, <1>5, <1>6, <1>7, <1>9, <1>10, <1>11, <1>12
     DEF PingNext, MainStep, RetryStep, ReceiveStep

LEMMA TimeBooksStep ==
    ASSUME Below, Below', MainBooks, HandsOK, StatesOK, CountBooks, WireBooks, PongBooks,
           TimeBooks, [PingNext]_allVars
    PROVE  TimeBooks'
<1>. DEFINE Rest == /\ \A id \in Ids : measured[id] # 0 => answered[id] # 0
                    /\ RttNotOverstated
<1>0. TimeBooks' <=> Rest' /\ \A id \in Ids : pingStates'[id] # "none" => TimeKept(id)'
  BY DEF TimeBooks
<1>00. Rest
  BY DEF TimeBooks
<1>. SUFFICES Rest'
  BY <1>0, TimeKeptStep
<1>1. storedLate \subseteq storedLate'
  <2>1. CASE StoreSendTime
    BY <2>1 DEF StoreSendTime
  <2>2. CASE ~StoreSendTime
    BY <2>2, OthersLeave DEF PingNext, MainStep, StartSeries, ClearStates, AddState, SendPing,
       RegisterPing, SendPingFails, MarkUnsent, CountUnsent, rttVars
  <2>. QED  BY <2>1, <2>2
<1>2. CASE AnswerPing
  <2>1. PICK id \in Ids : \A k \in Ids : (k = id /\ answered[k] = 0) \/ answered'[k] = answered[k]
    BY <1>2, AnswerPingStep
  <2>3. UNCHANGED <<measured, storedLate>>
    BY <1>2 DEF AnswerPing
  <2>4. \A k \in Ids : measured[k] # 0 => answered'[k] = answered[k]
    BY <1>00, <2>1
  <2>. QED  BY <1>00, <2>3, <2>4 DEF RttNotOverstated
<1>3. CASE MarkCompleted
  <2>1. PICK ids \in SUBSET ponged :
            /\ \A id \in ids : pingStates[id] = "open"
            /\ measured' = [id \in Ids |-> IF id \in ids THEN lastSend[id] ELSE measured[id]]
    BY <1>3 DEF MarkCompleted, Unsettled
  <2>2. UNCHANGED <<answered, storedLate>>
    BY <1>3 DEF MarkCompleted, OnlyReceive
  <2>3. ASSUME NEW id \in Ids, id \in ids
        PROVE  answered[id] # 0 /\ (lastSend[id] < answered[id] => id \in storedLate)
    <3>1. answered[id] # 0 /\ TimeKept(id)
      BY <2>1, <2>3 DEF PongBooks, TimeBooks
    <3>2. answered[id] <= sends[id] /\ CopiesOf(id)
      BY DEF WireBooks, Below, RetryBooks
    <3>3. answered[id] \in Nat /\ retries[id] \in Nat /\ lastSend[id] \in Nat
      BY ReliabilityAssumption DEF WireBooks, Below, TypeOK, StatesOK
    <3>4. sends[id] \in Nat /\ sends[id] <= retries[id] + 1
      BY <3>2, <3>3 DEF CopiesOf
    <3>. QED  BY <3>1, <3>2, <3>3, <3>4 DEF TimeKept
  <2>. QED  BY <1>00, <2>1, <2>2, <2>3 DEF RttNotOverstated
<1>4. CASE ~AnswerPing /\ ~MarkCompleted
  <2>1. answered' = answered
    BY <1>4, OnlyServerAnswers
  <2>2. ReceiveStep => measured' = measured
    BY <1>4 DEF ReceiveStep, PingReply, CountReceived
  <2>3. (\E expired \in SUBSET pending : PingScan(expired)) => measured' = measured
    BY DEF PingScan, OnlyRetry, rttVars
  <2>4. RetryStep => measured' = measured
    BY DEF RetryStep, PingResend, PingTimeOut, MarkTimedOut, CountLost, OnlyRetry, pingVars, rttVars
  <2>5. PingServerStep \/ UNCHANGED allVars => measured' = measured
    BY <1>4 DEF PingServerStep, pingVars, allVars, rttVars
  <2>6. measured' = measured
    BY <2>2, <2>3, <2>4, <2>5, MainLeaves DEF PingNext
  <2>. QED  BY <1>00, <1>1, <2>1, <2>6 DEF RttNotOverstated
<1>. QED  BY <1>2, <1>3, <1>4

\* A round-trip time is never measured from an earlier copy than the one answered,
\* unless main stored the time of the first copy after a retry: for any number of
\* copies on the wire, and whenever the thread that resends moves the time.
THEOREM RttFromAnsweredCopy == PingSpec => []RttNotOverstated
<1>1. PingInit => TimeBooks
  BY DEF PingInit, TimeBooks, RttNotOverstated
<1>2. TimeBooks => RttNotOverstated
  BY DEF TimeBooks
<1>. QED
  BY <1>1, <1>2, TimeBooksStep, BelowKept, MainBooksKept, HandsKept, StatesKept, CountBooksKept,
     WireBooksKept, PongBooksKept, PTL DEF PingSpec

-----------------------------------------------------------------------------
(* The clock.                                                              *)

\* A ping that has a state has a time of sending.
TimesSet == \A id \in Ids : id \in Added => lastSend[id] # 0

\* What a step does to the times of sending.
LEMMA TimesMoved ==
    ASSUME Below, Below', MainBooks, StatesOK, [PingNext]_allVars, lastSend' # lastSend
    PROVE  \/ AddState /\ \A id \in Ids :
                  lastSend'[id] = IF id = nextLocalId THEN 1 ELSE lastSend[id]
           \/ StoreSendTime /\ nextLocalId - 1 \in Submitted /\ \A id \in Ids :
                  lastSend'[id] = IF id = nextLocalId - 1 THEN 1 ELSE lastSend[id]
           \/ /\ \E expired \in SUBSET pending : PingScan(expired)
              /\ \A id \in Ids : \/ lastSend'[id] = lastSend[id]
                                 \/ id \in pending /\ lastSend'[id] # 0
<1>0. lastSend \in [Ids -> 0..(MAX_RETRIES + 1)]
  BY DEF StatesOK
<1>1. CASE AddState
  BY <1>0, <1>1 DEF AddState
<1>2. CASE StoreSendTime
  <2>1. nextLocalId \in 1..(MaxMsg + 1) /\ nextLocalId > 1
    BY <1>2 DEF StoreSendTime, MainBooks, Below, TypeOK
  <2>2. nextLocalId - 1 \in Submitted
    BY <2>1 DEF Submitted
  <2>3. lastSend' = [lastSend EXCEPT ![nextLocalId - 1] = 1]
    BY <1>2 DEF StoreSendTime
  <2>. QED  BY <1>0, <1>2, <2>2, <2>3
<1>3. ASSUME NEW expired \in SUBSET pending, PingScan(expired)
      PROVE  \A id \in Ids : lastSend'[id] = lastSend[id] \/ (id \in pending /\ lastSend'[id] # 0)
  <2>1. /\ toResend' \subseteq pending
        /\ \A id \in Ids : lastSend'[id] = IF id \in toResend' /\ pingStates[id] # "none"
                                           THEN retries'[id] + 1 ELSE lastSend[id]
    BY <1>3 DEF PingScan, ScanPending, TimesOfResends
  <2>2. \A id \in Ids : retries'[id] + 1 # 0
    BY ReliabilityAssumption DEF Below, TypeOK
  <2>. QED  BY <2>1, <2>2
<1>4. CASE SendPing \/ RegisterPing \/ ClearStates \/ SendPingFails \/ MarkUnsent \/ CountUnsent
           \/ \E count \in 1..(MaxMsg + 1 - nextLocalId) : StartSeries(count)
  BY <1>4 DEF SendPing, RegisterPing, ClearStates, SendPingFails, MarkUnsent, CountUnsent,
     StartSeries
<1>5. CASE RetryStep \/ ReceiveStep \/ PingServerStep \/ UNCHANGED allVars
  BY <1>5 DEF RetryStep, PingResend, PingTimeOut, MarkTimedOut, CountLost, ReceiveStep, PingReply,
     MarkCompleted, CountReceived, OnlyReceive, PingServerStep, AnswerPing, pingVars, allVars
<1>. QED  BY <1>1, <1>2, <1>3, <1>4, <1>5 DEF PingNext, MainStep

LEMMA TimesSetStep ==
    ASSUME Below, Below', MainBooks, HandsOK, StatesOK, TimesSet, [PingNext]_allVars
    PROVE  TimesSet'
<1>1. Added' = Added \/ (AddState /\ Added' = Added \cup {nextLocalId})
  BY WayIntoStatistics
<1>2. ASSUME ~AddState PROVE Added' = Added
  BY <1>1, <1>2
<1>3. CASE lastSend' = lastSend
  <2>1. ~AddState \/ \A id \in Ids : id = nextLocalId => lastSend'[id] = 1
    BY DEF AddState, StatesOK
  <2>. QED  BY <1>1, <1>3, <2>1 DEF TimesSet
<1>4. CASE lastSend' # lastSend
  <2>1. ASSUME AddState,
               \A id \in Ids : lastSend'[id] = IF id = nextLocalId THEN 1 ELSE lastSend[id]
        PROVE  TimesSet'
    BY <1>1, <2>1 DEF TimesSet
  <2>2. ASSUME Added' = Added, \A id \in Ids : lastSend'[id] = lastSend[id] \/ lastSend'[id] # 0
        PROVE  TimesSet'
    BY <2>2 DEF TimesSet
  <2>3. CASE ~AddState
    <3>1. \A id \in Ids : lastSend'[id] = lastSend[id] \/ lastSend'[id] # 0
      BY <1>4, <2>3, TimesMoved
    <3>. QED  BY <1>2, <2>2, <2>3, <3>1
  <2>4. CASE AddState
    <3>1. \A id \in Ids : lastSend'[id] = IF id = nextLocalId THEN 1 ELSE lastSend[id]
      BY <2>4 DEF AddState, StatesOK
    <3>. QED  BY <2>1, <2>4, <3>1
  <2>. QED  BY <2>3, <2>4
<1>. QED  BY <1>3, <1>4

\* The ping whose PONG went through handleAck is out of the client's map for good,
\* unless main had still to put it there.
AnsweredLeftBooks ==
    pongAt = "mark" =>
        \A id \in ponged : id \in overtaken \/ id \in Submitted \ (pending \cup sending)

\* Only of a ping that was submitted can there be a PONG.
LEMMA PongSubmitted ==
    ASSUME Below, HandsOK, WireBooks, PongBooks
    PROVE  /\ \A i \in 1..Len(toClient) : toClient[i].type = "PONG" => toClient[i].id \in Submitted
           /\ ponged \subseteq Submitted
<1>1. ASSUME NEW id \in Ids, answered[id] # 0 PROVE id \in Submitted
  <2>1. answered[id] \in Nat /\ answered[id] <= sends[id]
    BY DEF WireBooks
  <2>2. sends[id] # 0
    BY <1>1, <2>1 DEF Below, TypeOK
  <2>. QED  BY <2>2 DEF Below, RetryBooks, CopiesOf, Sent
<1>2. ASSUME NEW i \in 1..Len(toClient) PROVE toClient[i].id \in Ids
  <2>1. toClient[i] \in Replies
    BY <1>2 DEF Below, TypeOK
  <2>. QED  BY <2>1 DEF Replies
<1>. QED  BY <1>1, <1>2 DEF PongBooks, HandsOK

LEMMA AnsweredLeftStep ==
    ASSUME Below, MainBooks, HandsOK, WireBooks, PongBooks, AnsweredLeftBooks, [PingNext]_allVars
    PROVE  AnsweredLeftBooks'
<1>0. ponged \subseteq Submitted /\ nextLocalId \in Nat /\ nextLocalId > 0
  BY PongSubmitted DEF Below, TypeOK
<1>1. CASE PingReply
  <2>1. /\ toClient # <<>> /\ pongAt = "idle"
        /\ pending' = pending \ {Head(toClient).id} /\ UNCHANGED <<sending, nextLocalId>>
    BY <1>1 DEF PingReply, ReceiveReply
  <2>2. /\ Head(toClient) = toClient[1] /\ 1 \in 1..Len(toClient)
    BY <2>1 DEF Below, TypeOK
  <2>3. CASE Head(toClient).type = "PONG"
    <3>1. ponged' = {Head(toClient).id} /\ overtaken' = ponged' \cap sending
      BY <1>1, <2>3 DEF PingReply
    <3>2. Head(toClient).id \in Submitted /\ Submitted' = Submitted
      BY <2>1, <2>2, <2>3, PongSubmitted DEF Submitted
    <3>. QED  BY <2>1, <3>1, <3>2 DEF AnsweredLeftBooks
  <2>4. CASE Head(toClient).type # "PONG"
    <3>1. pongAt' = "idle"
      BY <1>1, <2>1, <2>4 DEF PingReply, pongVars
    <3>. QED  BY <3>1 DEF AnsweredLeftBooks
  <2>. QED  BY <2>3, <2>4
<1>2. CASE MarkCompleted
  <2>1. pongAt' # "mark"
    BY <1>2 DEF MarkCompleted
  <2>. QED  BY <2>1 DEF AnsweredLeftBooks
<1>3. CASE CountReceived
  <2>1. pongAt' # "mark"
    BY <1>3 DEF CountReceived
  <2>. QED  BY <2>1 DEF AnsweredLeftBooks
<1>4. ASSUME UNCHANGED <<pongAt, ponged, overtaken>>,
             \A id \in Submitted : /\ id \in Submitted'
                                   /\ id \in pending' \cup sending' => id \in pending \cup sending
      PROVE  AnsweredLeftBooks'
  BY <1>0, <1>4 DEF AnsweredLeftBooks
<1>5. CASE SendPing \/ SendPingFails
  <2>1. /\ UNCHANGED <<pongAt, ponged, overtaken, pending>>
        /\ sending' \subseteq sending \cup {nextLocalId} /\ nextLocalId' = nextLocalId + 1
    BY <1>5 DEF SendPing, SubmitMessage, SendPingFails, SubmitFails, OnlyMain, pongVars
  <2>2. Submitted \subseteq Submitted' /\ nextLocalId \notin Submitted
    BY <1>0, <2>1 DEF Submitted
  <2>. QED  BY <1>4, <2>1, <2>2
<1>6. CASE RegisterPing
  <2>1. /\ UNCHANGED <<pongAt, ponged, overtaken, nextLocalId>>
        /\ pending' \subseteq pending \cup sending /\ sending' = {}
    BY <1>6 DEF RegisterPing, RegisterPending, OnlyMain, pongVars
  <2>2. Submitted' = Submitted
    BY <2>1 DEF Submitted
  <2>. QED  BY <1>4, <2>1, <2>2
<1>7. ASSUME UNCHANGED <<pongAt, ponged, overtaken, nextLocalId, sending>>,
             pending' \subseteq pending
      PROVE  AnsweredLeftBooks'
  <2>1. Submitted' = Submitted
    BY <1>7 DEF Submitted
  <2>. QED  BY <1>4, <1>7, <2>1
<1>8. CASE ClearStates \/ AddState \/ StoreSendTime \/ MarkUnsent \/ CountUnsent
           \/ \E count \in 1..(MaxMsg + 1 - nextLocalId) : StartSeries(count)
  BY <1>7, <1>8 DEF ClearStates, AddState, StoreSendTime, MarkUnsent, CountUnsent, StartSeries,
     OnlyMain, vars, pongVars, rttVars
<1>9. CASE (\E expired \in SUBSET pending : PingScan(expired)) \/ RetryStep
  BY <1>7, <1>9 DEF PingScan, RetryStep, PingResend, PingTimeOut, MarkTimedOut, CountLost,
     OnlyRetry, ScanPending, Resend, TimeOut, vars, pingVars, pongVars, rttVars
<1>10. CASE PingServerStep \/ UNCHANGED allVars
  BY <1>7, <1>10 DEF PingServerStep, AnswerPing, ProcessNew, DropIncoming, AnswerDuplicate,
     clientVars, allVars, vars, pingVars, pongVars, rttVars
<1>. QED
  BY <1>1, <1>2, <1>3, <1>5, <1>6, <1>8, <1>9, <1>10 DEF PingNext, MainStep, ReceiveStep

\* The clock that onPingSuccess reads before it takes pingMutex is never behind
\* last_send_ms, unless the PONG had overtaken the registration of its ping: for
\* any number of retries, and wherever the retry thread is meanwhile.
THEOREM ClockNotBehind == PingSpec => RttNotNegative
<1>1. PingInit => TimesSet /\ AnsweredLeftBooks
  BY DEF PingInit, Init, TimesSet, AnsweredLeftBooks, Added, Submitted
<1>2. Below /\ Below' /\ MainBooks /\ HandsOK /\ StatesOK /\ WireBooks /\ PongBooks /\ TimesSet
        /\ AnsweredLeftBooks /\ [PingNext]_allVars
        => [\A id \in ponged :
               pongAt = "mark" /\ lastSend'[id] > lastSend[id] => id \in overtaken]_allVars
  <2>. SUFFICES ASSUME Below, Below', MainBooks, HandsOK, StatesOK, WireBooks, PongBooks, TimesSet,
                       AnsweredLeftBooks, [PingNext]_allVars, NEW id \in ponged,
                       pongAt = "mark", lastSend'[id] > lastSend[id]
                PROVE  id \in overtaken
    OBVIOUS
  <2>1. id \in Ids /\ id \in Submitted /\ id \in Added
    BY PongSubmitted DEF HandsOK, Added
  <2>2. lastSend[id] \in Nat /\ lastSend[id] > 0
    BY <2>1, ReliabilityAssumption DEF StatesOK, TimesSet
  <2>3. nextLocalId \notin Submitted
    BY DEF Submitted, Below, TypeOK
  <2>4. lastSend' # lastSend
    BY <2>2
  <2>5. id # nextLocalId
    BY <2>1, <2>3
  <2>6. lastSend'[id] # lastSend[id] /\ lastSend'[id] # 1
    BY <2>2
  <2>7. id \in pending
    BY <2>1, <2>4, <2>5, <2>6, TimesMoved
  <2>. QED  BY <2>7 DEF AnsweredLeftBooks
<1>. QED
  BY <1>1, <1>2, TimesSetStep, AnsweredLeftStep, BelowKept, MainBooksKept, HandsKept, StatesKept,
     WireBooksKept, PongBooksKept, PTL DEF PingSpec, RttNotNegative

=============================================================================
