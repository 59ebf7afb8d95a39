------------------------------ MODULE FrameFifo ------------------------------
(***************************************************************************)
(* What a connection is for the rest of the program: whole frames, each    *)
(* received at most once, in the order in which the sends were completed,  *)
(* and the frames of one thread in the order of its calls.                 *)
(***************************************************************************)
EXTENDS Naturals, Sequences

CONSTANTS Writers, PerWriter    \* threads, and how many frames each one sends

VARIABLES inTransit, received

vars == <<inTransit, received>>

Frames == Writers \X (1..PerWriter)

Sent == {inTransit[i] : i \in 1..Len(inTransit)} \cup {received[i] : i \in 1..Len(received)}

Init == inTransit = <<>> /\ received = <<>>

Send(w, k) ==
    /\ <<w, k>> \notin Sent
    /\ \A j \in 1..(k - 1) : <<w, j>> \in Sent
    /\ inTransit' = Append(inTransit, <<w, k>>)
    /\ UNCHANGED received

Receive ==
    /\ inTransit # <<>>
    /\ received' = Append(received, Head(inTransit))
    /\ inTransit' = Tail(inTransit)

Next == Receive \/ \E w \in Writers, k \in 1..PerWriter : Send(w, k)

Spec == Init /\ [][Next]_vars

=============================================================================
