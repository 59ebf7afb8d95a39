----------------------------- MODULE DedupWindow -----------------------------
(***************************************************************************)
(* The duplicate filter of one server session, LAB6/server.cpp: the array  *)
(* last_ids with its counter last_ids_count, kept per Client and protected *)
(* by dedupMutex.  The array and the counter together are a sequence: the  *)
(* slots past last_ids_count are never read.                               *)
(***************************************************************************)
EXTENDS Naturals, Sequences

CONSTANT DEDUP_WINDOW      \* 32 in the program

\* An array of no slots could not be indexed by the shift below.
ASSUME DedupWindowAssumption == DEDUP_WINDOW \in Nat \ {0}

-----------------------------------------------------------------------------
\* Forms with a plausible mistake, which the properties must tell apart.
HasSeenOnlyLast(lastIds, id) == lastIds # <<>> /\ lastIds[Len(lastIds)] = id

RememberOverwritesLast(lastIds, id) ==
    IF Len(lastIds) < DEDUP_WINDOW
    THEN Append(lastIds, id)
    ELSE [lastIds EXCEPT ![DEDUP_WINDOW] = id]

-----------------------------------------------------------------------------
\* Linear search of the first last_ids_count slots.
hasSeenMessageId(lastIds, id) == \E i \in 1..Len(lastIds) : lastIds[i] = id

\* Append while there is room; afterwards shift left by one and overwrite the
\* last slot, which forgets the oldest id.
rememberMessageId(lastIds, id) ==
    IF Len(lastIds) < DEDUP_WINDOW
    THEN Append(lastIds, id)
    ELSE Append(Tail(lastIds), id)

=============================================================================
