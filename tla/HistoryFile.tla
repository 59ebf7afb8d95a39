----------------------------- MODULE HistoryFile -----------------------------
(***************************************************************************)
(* The history of the server of LAB6: the vector historyRecords, what      *)
(* history.json keeps of it, and what loadHistoryFromFile makes of that.   *)
(* A record is abstracted to the message it is about, its msg_id and its   *)
(* two flags; NoMsg stands for the text of the records the server writes   *)
(* about itself ("User [x] connected").                                   *)
(***************************************************************************)
EXTENDS Subsequences

Rec(m, id, offline, delivered) ==
    [msg |-> m, id |-> id, offline |-> offline, delivered |-> delivered]

\* The first record with the id, which is the only one the loop reaches.
IsFirst(recs, i, id) == recs[i].id = id /\ \A j \in 1..(i - 1) : recs[j].id # id

\* The history is saved, with no flag set.
MarkNothing(recs, id) == recs

markHistoryDelivered(recs, id) ==
    [i \in 1..Len(recs) |->
        IF IsFirst(recs, i, id) THEN [recs[i] EXCEPT !.delivered = TRUE] ELSE recs[i]]

\* saveHistoryLocked truncates the file and writes it record by record: a
\* process that dies in between leaves the first records.  The pattern of
\* loadHistoryFromFile does not match the record that was cut.
Torn(recs) == {SubSeq(recs, 1, n) : n \in 0..Len(recs)}

IsUndelivered(rec) == rec.offline /\ ~rec.delivered

\* Every record goes back into the queue, whatever its type and flags.
ReloadedEverything(recs) == [i \in 1..Len(recs) |-> recs[i].msg]

\* What loadHistoryFromFile puts into offlineQueue, in the order of the file.
Reloaded(recs) ==
    LET kept == Pick(recs, {i \in 1..Len(recs) : IsUndelivered(recs[i])})
    IN  [i \in 1..Len(kept) |-> kept[i].msg]

=============================================================================
