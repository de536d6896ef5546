---------------------------- MODULE ChangeJournal ----------------------------
(***************************************************************************)
(* The bounded in-memory undo stack of code_operator/journal.py.           *)
(*                                                                         *)
(* A ChangeRecord is kept as the path it is about, what the file held      *)
(* before (Absent when the tool created it) and what the tool left.  The   *)
(* stack keeps the number of snapshot bytes in a counter of its own beside *)
(* the list, so record and discard each take several statements; every     *)
(* statement that changes one of the two is an action here, because a      *)
(* Ctrl-C may fall between any two of them.                                *)
(***************************************************************************)
EXTENDS Integers, Sequences

CONSTANTS
  Paths,              \* workspace files
  Contents,           \* file contents; a content stands for its hash too
  Absent,             \* no such file (before_content and before_hash None)
  SizeOf,             \* bytes of a content, a function on Contents
  MaxEntries,         \* MAX_JOURNAL_ENTRIES
  MaxSnapshotBytes,   \* MAX_JOURNAL_SNAPSHOT_BYTES
  MaxTears            \* bound: how often a Ctrl-C may cut journal code short

ASSUME AbsentAssumption == Absent \notin Contents
ASSUME SizeAssumption == SizeOf \in [Contents -> Nat]
ASSUME LimitAssumption ==          \* __init__ rejects limits that are not positive
  /\ MaxEntries \in Nat \ {0}
  /\ MaxSnapshotBytes \in Nat \ {0}
ASSUME TearAssumption == MaxTears \in Nat

VARIABLES
  records,         \* _records, the newest last
  snapshotBytes,   \* _snapshot_bytes
  jpc,             \* where the journal code stands, "rest" between calls
  owed,            \* snapshot_bytes of the record moved but not yet counted
  tears            \* history: journal calls a Ctrl-C cut short since the last clear

journalVars == <<records, snapshotBytes, jpc, owed, tears>>

ChangeRecord ==
  [path : Paths, before : Contents \cup {Absent}, after : Contents]

(* Bug: the bytes the file shrank by *)
RecordBytes_Shrunk(change) ==
  IF change.before = Absent THEN 0 ELSE SizeOf[change.before] - SizeOf[change.after]

RecordBytes(change) ==
  IF change.before = Absent THEN 0 ELSE SizeOf[change.before]

Depth == Len(records)

Top == records[Len(records)]

(* Bug: one entry too many is within the limit *)
OverLimit_OffByOne == Depth > MaxEntries + 1 \/ snapshotBytes > MaxSnapshotBytes

OverLimit == Depth > MaxEntries \/ snapshotBytes > MaxSnapshotBytes

-----------------------------------------------------------------------------
(* record: append, count, then evict from the oldest end while over a limit *)

AppendChange(change) ==
  /\ jpc = "rest"
  /\ records' = Append(records, change)
  /\ owed' = RecordBytes(change)
  /\ jpc' = "appended"
  /\ UNCHANGED <<snapshotBytes, tears>>

CountAppended ==
  /\ jpc = "appended"
  /\ snapshotBytes' = snapshotBytes + owed
  /\ owed' = 0
  /\ jpc' = "evicting"
  /\ UNCHANGED <<records, tears>>

(* Bug: the newest record is evicted *)
EvictOldest_Newest ==
  /\ jpc = "evicting"
  /\ OverLimit
  /\ records # <<>>
  /\ owed' = RecordBytes(Top)
  /\ records' = SubSeq(records, 1, Len(records) - 1)
  /\ jpc' = "evicted"
  /\ UNCHANGED <<snapshotBytes, tears>>

EvictOldest ==
  /\ jpc = "evicting"
  /\ OverLimit
  /\ records # <<>>
  /\ owed' = RecordBytes(Head(records))
  /\ records' = Tail(records)
  /\ jpc' = "evicted"
  /\ UNCHANGED <<snapshotBytes, tears>>

(* Bug: an evicted record's bytes stay in the counter *)
CountEvicted_Forgotten ==
  /\ jpc = "evicted"
  /\ owed' = 0
  /\ jpc' = "evicting"
  /\ UNCHANGED <<records, snapshotBytes, tears>>

CountEvicted ==
  /\ jpc = "evicted"
  /\ snapshotBytes' = snapshotBytes - owed
  /\ owed' = 0
  /\ jpc' = "evicting"
  /\ UNCHANGED <<records, tears>>

(* Bug: an if where the code has a while *)
FinishRecord_EvictOnce ==
  /\ jpc = "evicting"
  /\ jpc' = "rest"
  /\ UNCHANGED <<records, snapshotBytes, owed, tears>>

FinishRecord ==
  /\ jpc = "evicting"
  /\ ~OverLimit
  /\ jpc' = "rest"
  /\ UNCHANGED <<records, snapshotBytes, owed, tears>>

(* Bug: evicting from an empty list does nothing, and the loop goes on *)
EvictFromNothing_Spins ==
  /\ jpc = "evicting"
  /\ OverLimit
  /\ records = <<>>
  /\ UNCHANGED journalVars

(* pop(0) on an empty list: an earlier torn call left the counter too high *)
EvictFromNothing ==
  /\ jpc = "evicting"
  /\ OverLimit
  /\ records = <<>>
  /\ jpc' = "rest"
  /\ UNCHANGED <<records, snapshotBytes, owed, tears>>

-----------------------------------------------------------------------------
(* discard: only the record on top, then its bytes *)

DiscardTop ==
  /\ jpc = "rest"
  /\ records # <<>>
  /\ owed' = RecordBytes(Top)
  /\ records' = SubSeq(records, 1, Len(records) - 1)
  /\ jpc' = "discarded"
  /\ UNCHANGED <<snapshotBytes, tears>>

CountDiscarded ==
  /\ jpc = "discarded"
  /\ snapshotBytes' = snapshotBytes - owed
  /\ owed' = 0
  /\ jpc' = "rest"
  /\ UNCHANGED <<records, tears>>

(* clear: nothing looks at the journal, and no Ctrl-C is survived, inside it *)
ClearJournal ==
  /\ jpc = "rest"
  /\ records' = <<>>
  /\ snapshotBytes' = 0
  /\ tears' = 0
  /\ UNCHANGED <<jpc, owed>>

(* KeyboardInterrupt between two statements: the rest of the call is skipped *)
TearJournal ==
  /\ jpc # "rest"
  /\ tears < MaxTears
  /\ jpc' = "rest"
  /\ owed' = 0
  /\ tears' = tears + 1
  /\ UNCHANGED <<records, snapshotBytes>>

-----------------------------------------------------------------------------
JournalInit ==
  /\ records = <<>>
  /\ snapshotBytes = 0
  /\ jpc = "rest"
  /\ owed = 0
  /\ tears = 0

(* Statements that run once a call has begun *)
JournalStatement ==
  \/ CountAppended
  \/ EvictOldest
  \/ CountEvicted
  \/ FinishRecord
  \/ EvictFromNothing
  \/ CountDiscarded

JournalNext ==
  \/ \E change \in ChangeRecord : change.before # change.after /\ AppendChange(change)
  \/ DiscardTop
  \/ ClearJournal
  \/ JournalStatement
  \/ TearJournal

JournalSpec ==
  JournalInit /\ [][JournalNext]_journalVars /\ WF_journalVars(JournalStatement)

-----------------------------------------------------------------------------
SnapshotSum(changes) ==
  LET sum[n \in 0..Len(changes)] ==
        IF n = 0 THEN 0 ELSE sum[n - 1] + RecordBytes(changes[n])
  IN  sum[Len(changes)]

JournalTypeOK ==
  /\ records \in Seq(ChangeRecord)
  /\ snapshotBytes \in Int
  /\ jpc \in {"rest", "appended", "evicting", "evicted", "discarded"}
  /\ owed \in Nat
  /\ tears \in 0..MaxTears

(* The counter journal.py keeps beside the list never drifts from the bytes *)
(* the list holds, counting what the running statement still owes, unless a *)
(* Ctrl-C cut a call short; and a completed clear makes it exact again.     *)
CounterExact ==
  tears = 0 =>
    SnapshotSum(records) = CASE jpc = "appended" -> snapshotBytes + owed
                             [] jpc \in {"evicted", "discarded"} -> snapshotBytes - owed
                             [] OTHER -> snapshotBytes

(* Between calls the stack is over its entry limit by at most one record    *)
(* for each journal call a Ctrl-C cut short: record() never starts eviction *)
(* too late, and a later record() makes up for the evictions skipped.       *)
OverrunBounded == jpc = "rest" => Depth <= MaxEntries + tears

(* Between calls, with no call cut short, both limits hold of the counter.  *)
LimitsAtRest == (jpc = "rest" /\ tears = 0) => ~OverLimit

(* The eviction loop ends: every journal call comes back to its caller.     *)
CallsReturn == (jpc # "rest") ~> (jpc = "rest")

-----------------------------------------------------------------------------
(* The list is the promised stack, a statement at a time *)

List ==
  INSTANCE BoundedUndoStack
    WITH Changes <- ChangeRecord, BytesOf <- RecordBytes,
         MaxBytes <- MaxSnapshotBytes, stack <- records

(* The stack as its callers see it: what the running call has still to evict *)
(* is already gone                                                           *)
Shown ==
  IF jpc \in {"appended", "evicting", "evicted"} THEN List!Newest(records) ELSE records

Promised ==
  INSTANCE BoundedUndoStack
    WITH Changes <- ChangeRecord, BytesOf <- RecordBytes,
         MaxBytes <- MaxSnapshotBytes, stack <- Shown

(* Statement by statement, record, discard and clear do to the list exactly  *)
(* what one atomic push, pop or empty does to the promised stack: eviction   *)
(* stops at the first moment both limits hold, never earlier or later.  A    *)
(* Ctrl-C inside a call releases the code from this until clear() has run.   *)
ImplementsBoundedStack ==
  Promised!Init /\ [][tears' > 0 \/ Promised!Next]_Shown
=============================================================================
