------------------------- MODULE AtMostOnceDelivery -------------------------
(***************************************************************************)
(* What the retry/ACK layer of LAB6 promises its two users, without any of *)
(* its machinery: the server application does not process a message again  *)
(* before it has processed Window others, and the sending user is told     *)
(* "ACK received" only of a message the server has processed.  Nothing is  *)
(* said of how many copies travel, of the order of distinct messages, or   *)
(* of how long anything takes.                                             *)
(***************************************************************************)
EXTENDS Integers, Sequences

CONSTANTS
    Ids,            \* the messages the user may hand over
    Window          \* how far back the application recognises a message

VARIABLES
    processed,      \* ids the server application has processed, in order
    acked           \* ids reported to the user as acknowledged

vars == <<processed, acked>>

Delivered == {processed[i] : i \in 1..Len(processed)}

Remembered == {processed[i] : i \in {k \in 1..Len(processed) : k > Len(processed) - Window}}

Init ==
    /\ processed = <<>>
    /\ acked = {}

Process(id) ==
    /\ id \notin Remembered
    /\ processed' = Append(processed, id)
    /\ UNCHANGED acked

Acknowledge(id) ==
    /\ id \in Delivered
    /\ acked' = acked \cup {id}
    /\ UNCHANGED processed

Next == \E id \in Ids : Process(id) \/ Acknowledge(id)

Spec == Init /\ [][Next]_vars

=============================================================================
