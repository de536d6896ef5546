--------------------------- MODULE BoundedUndoStack ---------------------------
(***************************************************************************)
(* What the undo stack promises its callers: recording a change pushes it  *)
(* and, in the same step, drops from the oldest end exactly as many        *)
(* changes as it takes to be within the entry and byte limits again; undo  *)
(* takes the newest; a new session empties it.  ChangeJournal implements   *)
(* this with a counter and a loop.                                         *)
(***************************************************************************)
EXTENDS Integers, Sequences

CONSTANTS Changes, BytesOf(_), MaxEntries, MaxBytes

VARIABLE stack

Bytes(changes) ==
  LET sum[n \in 0..Len(changes)] ==
        IF n = 0 THEN 0 ELSE sum[n - 1] + BytesOf(changes[n])
  IN  sum[Len(changes)]

Fits(changes) == Len(changes) <= MaxEntries /\ Bytes(changes) <= MaxBytes

From(changes, k) == SubSeq(changes, k, Len(changes))

(* The longest run of newest changes that is within both limits *)
Newest(changes) ==
  From(changes,
       CHOOSE k \in 1..Len(changes) + 1 :
         /\ Fits(From(changes, k))
         /\ \A j \in 1..k - 1 : ~Fits(From(changes, j)))

Push(change) == stack' = Newest(Append(stack, change))

Pop == stack # <<>> /\ stack' = SubSeq(stack, 1, Len(stack) - 1)

Empty == stack' = <<>>

Init == stack = <<>>

Next == (\E change \in Changes : Push(change)) \/ Pop \/ Empty

Spec == Init /\ [][Next]_stack
=============================================================================
