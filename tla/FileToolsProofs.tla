--------------------------- MODULE FileToolsProofs ---------------------------
(***************************************************************************)
(* Two components, one above the other.  First the undo stack: its        *)
(* counter is exact, its limits hold whenever no push is half way, and it  *)
(* implements BoundedUndoStack.  Then the tools that use it: FileInvariant *)
(* is an inductive invariant of FileTools, for any files, contents and     *)
(* limits and any number of interruptions and outside changes; the         *)
(* properties that FileTools states follow from it.                        *)
(***************************************************************************)
EXTENDS FileTools, NatRecursion, SequenceTheorems, TLAPS

-----------------------------------------------------------------------------
(* THE UNDO STACK, for every limit, every set of contents and any number of *)
(* interruptions                                                            *)

(* The snapshot bytes of a change are a number: none for a created file *)
LEMMA RecordBytesNat ==
  ASSUME NEW change \in ChangeRecord
  PROVE  RecordBytes(change) \in Nat
  BY SizeAssumption DEF RecordBytes, ChangeRecord

(* The record on top is one of the stack's records *)
LEMMA TopIsRecord ==
  ASSUME JournalTypeOK, records # <<>>
  PROVE  Top \in ChangeRecord /\ Len(records) \in Nat /\ Len(records) >= 1
  <1>1. Len(records) \in Nat /\ Len(records) # 0 BY EmptySeq DEF JournalTypeOK
  <1>2. Len(records) >= 1 /\ Len(records) \in 1..Len(records) BY <1>1
  <1> QED BY <1>1, <1>2, ElementOfSeq DEF JournalTypeOK, Top

(* What is left when the record on top is gone *)
LEMMA WithoutTop ==
  ASSUME JournalTypeOK, records # <<>>,
         NEW rest, rest = SubSeq(records, 1, Len(records) - 1)
  PROVE  /\ rest \in Seq(ChangeRecord)
         /\ Len(rest) = Len(records) - 1
         /\ \A i \in 1..Len(rest) : rest[i] = records[i]
  <1> DEFINE n == Len(records) - 1
  <1>1. n \in Nat /\ n + 1 = Len(records) BY TopIsRecord
  <1>2. \A i \in 1..n : records[i] \in ChangeRecord
    BY <1>1, ElementOfSeq DEF JournalTypeOK
  <1>3. rest = SubSeq(records, 1, n) OBVIOUS
  <1> HIDE DEF n
  <1>4. /\ rest \in Seq(ChangeRecord)
        /\ Len(rest) = IF 1 <= n THEN n - 1 + 1 ELSE 0
        /\ \A i \in 1..n - 1 + 1 : rest[i] = records[1 + i - 1]
    BY <1>1, <1>2, <1>3, SubSeqProperties
  <1>5. Len(rest) = n
    BY <1>1, <1>4
  <1>6. \A i \in 1..n : rest[i] = records[i]
    BY <1>1, <1>4
  <1> QED BY <1>1, <1>4, <1>5, <1>6 DEF n

(* Every statement of the journal keeps the types *)
LEMMA JournalTypeStep ==
  ASSUME JournalTypeOK, [JournalNext]_journalVars
  PROVE  JournalTypeOK'
  <1> USE DEF JournalTypeOK
  <1>1. CASE UNCHANGED journalVars
    BY <1>1 DEF journalVars
  <1>2. ASSUME NEW change \in ChangeRecord, AppendChange(change)
        PROVE  JournalTypeOK'
    BY <1>2, RecordBytesNat, AppendProperties DEF AppendChange
  <1>3. CASE DiscardTop
    <2>1. records' \in Seq(ChangeRecord) BY <1>3, WithoutTop DEF DiscardTop
    <2>2. owed' \in Nat BY <1>3, TopIsRecord, RecordBytesNat DEF DiscardTop
    <2> QED BY <1>3, <2>1, <2>2 DEF DiscardTop
  <1>4. CASE ClearJournal
    BY <1>4, TearAssumption, EmptySeq DEF ClearJournal
  <1>5. CASE CountAppended
    BY <1>5 DEF CountAppended
  <1>6. CASE EvictOldest
    <2>1. Head(records) \in ChangeRecord /\ Tail(records) \in Seq(ChangeRecord)
      BY <1>6, HeadTailProperties DEF EvictOldest
    <2> QED BY <1>6, <2>1, RecordBytesNat DEF EvictOldest
  <1>7. CASE CountEvicted
    BY <1>7 DEF CountEvicted
  <1>8. CASE FinishRecord
    BY <1>8 DEF FinishRecord
  <1>9. CASE EvictFromNothing
    BY <1>9 DEF EvictFromNothing
  <1>10. CASE CountDiscarded
    BY <1>10 DEF CountDiscarded
  <1>11. CASE TearJournal
    BY <1>11, TearAssumption DEF TearJournal
  <1> QED
    BY <1>1, <1>2, <1>3, <1>4, <1>5, <1>6, <1>7, <1>8, <1>9, <1>10, <1>11
    DEF JournalNext, JournalStatement

(* The initial state has the types *)
LEMMA JournalTypeInit ==
  ASSUME JournalInit
  PROVE  JournalTypeOK
  BY TearAssumption, EmptySeq DEF JournalInit, JournalTypeOK

(* The variables of the undo stack keep their types, whatever is recorded,   *)
(* discarded or cleared, and wherever a Ctrl-C falls.                        *)
THEOREM JournalTypeCorrect == JournalSpec => []JournalTypeOK
  <1>1. JournalInit => JournalTypeOK BY JournalTypeInit
  <1>2. JournalTypeOK /\ [JournalNext]_journalVars => JournalTypeOK' BY JournalTypeStep
  <1> QED BY <1>1, <1>2, PTL DEF JournalSpec

-----------------------------------------------------------------------------
(* While a record call is running one record may be over the bound *)
DepthInvariant ==
  Depth <= MaxEntries + tears + (IF jpc \in {"appended", "evicting", "evicted"} THEN 1 ELSE 0)

(* Every statement of the journal keeps the bound *)
LEMMA DepthStep ==
  ASSUME JournalTypeOK, DepthInvariant, [JournalNext]_journalVars
  PROVE  DepthInvariant'
  <1> USE LimitAssumption DEF JournalTypeOK, DepthInvariant, Depth
  <1>0. Len(records) \in Nat /\ tears \in Nat /\ MaxEntries \in Nat
    BY LenProperties, TearAssumption
  <1>1. CASE UNCHANGED journalVars
    BY <1>1 DEF journalVars
  <1>2. ASSUME NEW change \in ChangeRecord, AppendChange(change)
        PROVE  DepthInvariant'
    <2>1. Len(records') = Len(records) + 1 BY <1>2, AppendProperties DEF AppendChange
    <2> QED BY <1>0, <1>2, <2>1 DEF AppendChange
  <1>3. CASE DiscardTop
    <2>1. Len(records') = Len(records) - 1 BY <1>3, WithoutTop DEF DiscardTop
    <2> QED BY <1>0, <1>3, <2>1 DEF DiscardTop
  <1>4. CASE ClearJournal
    <2>1. Len(records') = 0 BY <1>4, EmptySeq DEF ClearJournal
    <2> QED BY <1>0, <1>4, <2>1 DEF ClearJournal
  <1>5. CASE CountAppended
    BY <1>0, <1>5 DEF CountAppended
  <1>6. CASE EvictOldest
    <2>1. Len(records') = Len(records) - 1 BY <1>6, HeadTailProperties DEF EvictOldest
    <2> QED BY <1>0, <1>6, <2>1 DEF EvictOldest
  <1>7. CASE CountEvicted
    BY <1>0, <1>7 DEF CountEvicted
  <1>8. CASE FinishRecord
    BY <1>0, <1>8 DEF FinishRecord, OverLimit
  <1>9. CASE EvictFromNothing
    <2>1. Len(records') = 0 BY <1>9, EmptySeq DEF EvictFromNothing
    <2> QED BY <1>0, <1>9, <2>1 DEF EvictFromNothing
  <1>10. CASE CountDiscarded
    BY <1>0, <1>10 DEF CountDiscarded
  <1>11. CASE TearJournal
    BY <1>0, <1>11 DEF TearJournal
  <1> QED
    BY <1>1, <1>2, <1>3, <1>4, <1>5, <1>6, <1>7, <1>8, <1>9, <1>10, <1>11
    DEF JournalNext, JournalStatement

(* Between calls that is the bound *)
LEMMA DepthBounds ==
  ASSUME JournalTypeOK, DepthInvariant
  PROVE  OverrunBounded
  BY LenProperties, LimitAssumption, TearAssumption
  DEF JournalTypeOK, DepthInvariant, OverrunBounded, Depth

(* Between calls the stack is over MAX_JOURNAL_ENTRIES by at most one record *)
(* for each journal call a Ctrl-C cut short since the last /new.             *)
THEOREM OverrunIsBounded == JournalSpec => []OverrunBounded
  <1>1. JournalInit => JournalTypeOK BY JournalTypeInit
  <1>2. JournalInit => DepthInvariant
    BY EmptySeq, LimitAssumption DEF JournalInit, DepthInvariant, Depth
  <1>3. JournalTypeOK /\ [JournalNext]_journalVars => JournalTypeOK' BY JournalTypeStep
  <1>4. JournalTypeOK /\ DepthInvariant /\ [JournalNext]_journalVars => DepthInvariant'
    BY DepthStep
  <1>5. JournalTypeOK /\ DepthInvariant => OverrunBounded
    BY DepthBounds
  <1> QED BY <1>1, <1>2, <1>3, <1>4, <1>5, PTL DEF JournalSpec

-----------------------------------------------------------------------------
(* The bytes of a list of changes *)

ByteWeights(changes) == [n \in 1..Len(changes) |-> RecordBytes(changes[n])]

LEMMA WeightsAre ==
  ASSUME NEW changes \in Seq(ChangeRecord)
  PROVE  /\ Len(changes) \in Nat
         /\ ByteWeights(changes) \in [1..Len(changes) -> Nat]
         /\ \A n \in 1..Len(changes) : ByteWeights(changes)[n] = RecordBytes(changes[n])
  <1>1. Len(changes) \in Nat
    BY LenProperties
  <1>2. \A n \in 1..Len(changes) : RecordBytes(changes[n]) \in Nat
    BY ElementOfSeq, RecordBytesNat
  <1> QED BY <1>1, <1>2 DEF ByteWeights

(* The recursion of SnapshotSum, unfolded *)
LEMMA SnapshotSumIs ==
  ASSUME NEW changes \in Seq(ChangeRecord)
  PROVE  SnapshotSum(changes) = SumOf(ByteWeights(changes), Len(changes))
  <1> DEFINE l == Len(changes)
             w == ByteWeights(changes)
             sum[n \in 0..l] == IF n = 0 THEN 0 ELSE sum[n - 1] + RecordBytes(changes[n])
  <1>1. l \in Nat /\ w \in [1..l -> Nat] /\ \A n \in 1..l : w[n] = RecordBytes(changes[n])
    BY WeightsAre
  <1>2. SnapshotSum(changes) = sum[l]
    BY DEF SnapshotSum
  <1>3. PICK f : Sums(f, w, l)
    BY <1>1, SumsExist
  <1>4. f = [n \in 0..l |-> IF n = 0 THEN 0 ELSE f[n - 1] + RecordBytes(changes[n])]
    BY <1>1, <1>3 DEF Sums, Adds
  <1>5. sum = [n \in 0..l |-> IF n = 0 THEN 0 ELSE sum[n - 1] + RecordBytes(changes[n])]
    BY <1>4
  <1> HIDE DEF sum
  <1>6. Adds(sum, w, l)
    BY <1>1, <1>5 DEF Adds
  <1> HIDE DEF w, l
  <1>7. sum[l] = f[l] /\ SumOf(w, l) = f[l]
    BY <1>1, <1>3, <1>6, SumsAgree, SumIs
  <1> QED BY <1>2, <1>7 DEF l, w

LEMMA SumOfNothing == SnapshotSum(<<>>) = 0
  <1>1. <<>> \in Seq(ChangeRecord) /\ Len(<<>>) = 0
    BY EmptySeq
  <1> QED BY <1>1, SnapshotSumIs, SumNothing

LEMMA SumOfAppended ==
  ASSUME NEW changes \in Seq(ChangeRecord), NEW change \in ChangeRecord
  PROVE  SnapshotSum(Append(changes, change)) = SnapshotSum(changes) + RecordBytes(change)
  <1> DEFINE all == Append(changes, change)
             l == Len(changes)
  <1>1. all \in Seq(ChangeRecord) /\ Len(all) = l + 1 /\ l \in Nat /\ all[l + 1] = change
        /\ \A n \in 1..l : all[n] = changes[n]
    BY AppendProperties, LenProperties
  <1> HIDE DEF all, l
  <1>2. l + 1 \in Nat \ {0} /\ (l + 1) - 1 = l /\ l + 1 \in 1..l + 1 /\ \A n \in 1..l : n \in 1..l + 1
    BY <1>1
  <1>3. /\ ByteWeights(all) \in [1..l + 1 -> Nat]
        /\ \A n \in 1..l + 1 : ByteWeights(all)[n] = RecordBytes(all[n])
    BY <1>1, WeightsAre
  <1>4. \A n \in 1..l : ByteWeights(changes)[n] = RecordBytes(changes[n])
    BY WeightsAre DEF l
  <1>5. \A n \in 1..l : ByteWeights(changes)[n] = ByteWeights(all)[n]
    BY <1>1, <1>2, <1>3, <1>4
  <1>6. SumOf(ByteWeights(all), l + 1) = SumOf(ByteWeights(changes), l) + ByteWeights(all)[l + 1]
    BY <1>2, <1>3, <1>5, SumLast
  <1>7. SnapshotSum(all) = SumOf(ByteWeights(all), l + 1)
        /\ SnapshotSum(changes) = SumOf(ByteWeights(changes), l)
    BY <1>1, SnapshotSumIs DEF l
  <1> QED BY <1>1, <1>2, <1>3, <1>6, <1>7 DEF all

LEMMA SumWithoutOldest ==
  ASSUME NEW changes \in Seq(ChangeRecord), changes # <<>>
  PROVE  /\ SnapshotSum(changes) = RecordBytes(Head(changes)) + SnapshotSum(Tail(changes))
         /\ SnapshotSum(changes) \in Int /\ RecordBytes(Head(changes)) \in Nat
         /\ SnapshotSum(Tail(changes)) \in Int
  <1> DEFINE rest == Tail(changes)
             l == Len(changes)
  <1>1. /\ rest \in Seq(ChangeRecord) /\ Len(rest) = l - 1 /\ l \in Nat \ {0}
        /\ Head(changes) = changes[1] /\ Head(changes) \in ChangeRecord
        /\ \A n \in 1..l - 1 : rest[n] = changes[n + 1]
    <2>1. l \in Nat /\ l # 0
      BY EmptySeq, LenProperties
    <2>2. \A n \in 1..Len(rest) : rest[n] = changes[n + 1]
      BY HeadTailProperties
    <2> QED BY <2>1, <2>2, HeadTailProperties
  <1> HIDE DEF rest, l
  <1>2. /\ ByteWeights(changes) \in [1..l -> Nat]
        /\ \A n \in 1..l : ByteWeights(changes)[n] = RecordBytes(changes[n])
    BY WeightsAre DEF l
  <1>3. /\ ByteWeights(rest) \in [1..l - 1 -> Nat] /\ l - 1 \in Nat
        /\ \A n \in 1..l - 1 : ByteWeights(rest)[n] = RecordBytes(rest[n])
    BY <1>1, WeightsAre
  <1>4. \A n \in 1..l - 1 : n + 1 \in 1..l
    BY <1>1
  <1>5. \A n \in 1..l - 1 : ByteWeights(rest)[n] = ByteWeights(changes)[n + 1]
    BY <1>1, <1>2, <1>3, <1>4
  <1>6. SumOf(ByteWeights(changes), l) = ByteWeights(changes)[1] + SumOf(ByteWeights(rest), l - 1)
    BY <1>1, <1>2, <1>5, SumFirst
  <1>7. SnapshotSum(changes) = SumOf(ByteWeights(changes), l)
        /\ SnapshotSum(rest) = SumOf(ByteWeights(rest), l - 1)
    BY <1>1, SnapshotSumIs DEF l
  <1>8. SumOf(ByteWeights(rest), l - 1) \in Nat /\ RecordBytes(Head(changes)) \in Nat
    BY <1>1, <1>3, SumNat, RecordBytesNat
  <1>9. ByteWeights(changes)[1] = RecordBytes(Head(changes))
    BY <1>1, <1>2
  <1> QED BY <1>6, <1>7, <1>8, <1>9 DEF rest

LEMMA SumWithoutTop ==
  ASSUME JournalTypeOK, records # <<>>,
         NEW rest, rest = SubSeq(records, 1, Len(records) - 1)
  PROVE  /\ SnapshotSum(records) = SnapshotSum(rest) + RecordBytes(Top)
         /\ RecordBytes(Top) \in Nat /\ SnapshotSum(rest) \in Nat
  <1> DEFINE l == Len(records)
  <1>1. /\ rest \in Seq(ChangeRecord) /\ Len(rest) = l - 1 /\ l \in Nat \ {0}
        /\ records \in Seq(ChangeRecord)
        /\ \A n \in 1..l - 1 : rest[n] = records[n]
    <2>1. /\ rest \in Seq(ChangeRecord) /\ Len(rest) = Len(records) - 1
          /\ \A n \in 1..Len(rest) : rest[n] = records[n]
      BY WithoutTop
    <2>2. Len(records) \in Nat \ {0} /\ records \in Seq(ChangeRecord)
      BY TopIsRecord DEF JournalTypeOK
    <2> QED BY <2>1, <2>2
  <1>2. /\ ByteWeights(records) \in [1..l -> Nat]
        /\ \A n \in 1..l : ByteWeights(records)[n] = RecordBytes(records[n])
    BY <1>1, WeightsAre
  <1>3. /\ ByteWeights(rest) \in [1..l - 1 -> Nat] /\ l - 1 \in Nat
        /\ \A n \in 1..l - 1 : ByteWeights(rest)[n] = RecordBytes(rest[n])
    BY <1>1, WeightsAre
  <1>4. SnapshotSum(records) = SumOf(ByteWeights(records), l)
        /\ SnapshotSum(rest) = SumOf(ByteWeights(rest), l - 1)
    BY <1>1, SnapshotSumIs
  <1>5. Top = records[l] /\ RecordBytes(Top) \in Nat
    BY TopIsRecord, RecordBytesNat DEF Top
  <1> HIDE DEF l
  <1>6. l \in 1..l /\ \A n \in 1..l - 1 : n \in 1..l
    BY <1>1
  <1>7. \A n \in 1..l - 1 : ByteWeights(rest)[n] = ByteWeights(records)[n]
    BY <1>1, <1>2, <1>3, <1>6
  <1>8. SumOf(ByteWeights(records), l) = SumOf(ByteWeights(rest), l - 1) + ByteWeights(records)[l]
    BY <1>1, <1>2, <1>7, SumLast
  <1>9. SumOf(ByteWeights(rest), l - 1) \in Nat /\ ByteWeights(records)[l] = RecordBytes(Top)
    BY <1>2, <1>3, <1>5, <1>6, SumNat
  <1> QED BY <1>4, <1>5, <1>8, <1>9

-----------------------------------------------------------------------------
(* The counter and the list *)

LEMMA CounterStep ==
  ASSUME JournalTypeOK, CounterExact, [JournalNext]_journalVars
  PROVE  CounterExact'
  <1> SUFFICES ASSUME tears' = 0
               PROVE  SnapshotSum(records') =
                        CASE jpc' = "appended" -> snapshotBytes' + owed'
                          [] jpc' \in {"evicted", "discarded"} -> snapshotBytes' - owed'
                          [] OTHER -> snapshotBytes'
    BY DEF CounterExact
  <1>0. records \in Seq(ChangeRecord) /\ snapshotBytes \in Int /\ owed \in Nat
        /\ jpc \in {"rest", "appended", "evicting", "evicted", "discarded"} /\ tears \in Nat
    BY TearAssumption DEF JournalTypeOK
  <1>a. /\ tears = 0 /\ jpc = "appended" => SnapshotSum(records) = snapshotBytes + owed
        /\ tears = 0 /\ jpc \in {"evicted", "discarded"} =>
             SnapshotSum(records) = snapshotBytes - owed
        /\ tears = 0 /\ jpc \in {"rest", "evicting"} => SnapshotSum(records) = snapshotBytes
    BY DEF CounterExact
  <1>1. CASE UNCHANGED journalVars
    BY <1>1 DEF journalVars, CounterExact
  <1>2. ASSUME NEW change \in ChangeRecord, AppendChange(change)
        PROVE  SnapshotSum(records') = snapshotBytes' + owed' /\ jpc' = "appended"
    BY <1>0, <1>a, <1>2, SumOfAppended DEF AppendChange
  <1>3. CASE DiscardTop
    <2>1. SnapshotSum(records') = snapshotBytes' - owed'
      <3>1. /\ SnapshotSum(records) = SnapshotSum(records') + RecordBytes(Top)
            /\ RecordBytes(Top) \in Nat /\ SnapshotSum(records') \in Nat
        BY <1>3, SumWithoutTop DEF DiscardTop
      <3> QED BY <1>a, <1>3, <3>1 DEF DiscardTop
    <2> QED BY <1>3, <2>1 DEF DiscardTop
  <1>4. CASE ClearJournal
    BY <1>4, SumOfNothing DEF ClearJournal
  <1>5. CASE CountAppended
    BY <1>0, <1>a, <1>5 DEF CountAppended
  <1>6. CASE EvictOldest
    <2>1. SnapshotSum(records') = snapshotBytes' - owed'
      <3>1. /\ SnapshotSum(records) = RecordBytes(Head(records)) + SnapshotSum(records')
            /\ RecordBytes(Head(records)) \in Nat /\ SnapshotSum(records') \in Int
        BY <1>0, <1>6, SumWithoutOldest DEF EvictOldest
      <3> QED BY <1>a, <1>6, <3>1 DEF EvictOldest
    <2> QED BY <1>6, <2>1 DEF EvictOldest
  <1>7. CASE CountEvicted
    BY <1>0, <1>a, <1>7 DEF CountEvicted
  <1>8. CASE FinishRecord \/ EvictFromNothing
    BY <1>a, <1>8 DEF FinishRecord, EvictFromNothing
  <1>9. CASE CountDiscarded
    BY <1>0, <1>a, <1>9 DEF CountDiscarded
  <1>10. CASE TearJournal
    BY <1>0, <1>10 DEF TearJournal
  <1> QED
    BY <1>1, <1>2, <1>3, <1>4, <1>5, <1>6, <1>7, <1>8, <1>9, <1>10
    DEF JournalNext, JournalStatement

LEMMA CounterInit ==
  ASSUME JournalInit
  PROVE  CounterExact
  BY SumOfNothing DEF JournalInit, CounterExact

(* The counter beside the list never drifts from the bytes of the snapshots  *)
(* that the list holds, whatever is recorded, evicted, discarded or cleared, *)
(* until a Ctrl-C cuts a call short; and clear() makes it exact again.       *)
THEOREM CounterIsExact == JournalSpec => []CounterExact
  <1>1. JournalInit => JournalTypeOK /\ CounterExact
    BY JournalTypeInit, CounterInit
  <1>2. JournalTypeOK /\ CounterExact /\ [JournalNext]_journalVars
          => JournalTypeOK' /\ CounterExact'
    BY JournalTypeStep, CounterStep
  <1> QED BY <1>1, <1>2, PTL DEF JournalSpec

-----------------------------------------------------------------------------
(* The promised stack: the longest run of newest changes within both limits *)

LEMMA FitsIs ==
  ASSUME NEW changes \in Seq(ChangeRecord)
  PROVE  List!Fits(changes) <=> Len(changes) <= MaxEntries /\ SnapshotSum(changes) <= MaxSnapshotBytes
  <1>1. List!Bytes(changes) = SnapshotSum(changes)
    BY DEF List!Bytes, SnapshotSum
  <1> QED BY <1>1 DEF List!Fits

LEMMA NothingFits == List!Fits(<<>>)
  <1>1. <<>> \in Seq(ChangeRecord) /\ Len(<<>>) = 0
    BY EmptySeq
  <1>2. List!Fits(<<>>) <=> Len(<<>>) <= MaxEntries /\ SnapshotSum(<<>>) <= MaxSnapshotBytes
    BY <1>1, FitsIs
  <1>3. 0 <= MaxEntries /\ 0 <= MaxSnapshotBytes
    BY LimitAssumption
  <1> QED BY <1>1, <1>2, <1>3, SumOfNothing

LEMMA PromisedIsList ==
  ASSUME NEW changes
  PROVE  Promised!Newest(changes) = List!Newest(changes)
  BY DEF Promised!Newest, List!Newest, Promised!Fits, List!Fits, Promised!From, List!From,
         Promised!Bytes, List!Bytes

LEMMA FromIs ==
  ASSUME NEW changes \in Seq(ChangeRecord), NEW k \in 1..Len(changes) + 1
  PROVE  /\ List!From(changes, k) \in Seq(ChangeRecord)
         /\ Len(List!From(changes, k)) = Len(changes) - k + 1
         /\ \A i \in 1..Len(changes) - k + 1 : List!From(changes, k)[i] = changes[k + i - 1]
  <1>1. Len(changes) \in Nat
    BY LenProperties
  <1>2. \A i \in k..Len(changes) : changes[i] \in ChangeRecord
    BY <1>1, ElementOfSeq
  <1>3. k \in Int /\ Len(changes) \in Int
    BY <1>1
  <1>4. /\ SubSeq(changes, k, Len(changes)) \in Seq(ChangeRecord)
        /\ Len(SubSeq(changes, k, Len(changes))) =
             IF k <= Len(changes) THEN Len(changes) - k + 1 ELSE 0
        /\ \A i \in 1..Len(changes) - k + 1 : SubSeq(changes, k, Len(changes))[i] = changes[k + i - 1]
    BY <1>2, <1>3, SubSeqProperties
  <1> QED BY <1>1, <1>4 DEF List!From

(* Where the longest run that fits begins *)
Begins(changes, k) ==
  /\ k \in 1..Len(changes) + 1
  /\ List!Fits(List!From(changes, k))
  /\ \A j \in 1..k - 1 : ~List!Fits(List!From(changes, j))

LEMMA NewestIs ==
  ASSUME NEW changes \in Seq(ChangeRecord), NEW k, Begins(changes, k)
  PROVE  List!Newest(changes) = List!From(changes, k)
  <1> DEFINE n == CHOOSE m \in 1..Len(changes) + 1 :
                    /\ List!Fits(List!From(changes, m))
                    /\ \A j \in 1..m - 1 : ~List!Fits(List!From(changes, j))
  <1>1. Len(changes) \in Nat
    BY LenProperties
  <1>2. Begins(changes, n)
    BY DEF Begins
  <1>3. List!Newest(changes) = List!From(changes, n)
    BY DEF List!Newest
  <1> HIDE DEF n
  <1>4. n \in Nat /\ k \in Nat /\ n >= 1 /\ k >= 1
    BY <1>1, <1>2 DEF Begins
  <1>5. ~(n < k) /\ ~(k < n)
    <2>1. n < k => n \in 1..k - 1
      BY <1>4
    <2>2. k < n => k \in 1..n - 1
      BY <1>4
    <2> QED BY <1>2, <2>1, <2>2 DEF Begins
  <1>6. n = k
    BY <1>4, <1>5
  <1> QED BY <1>3, <1>6

(* The empty run fits, so there is one *)
LEMMA OneBegins ==
  ASSUME NEW changes \in Seq(ChangeRecord)
  PROVE  \E k : Begins(changes, k)
  <1> DEFINE l == Len(changes)
             S == {k \in 1..l + 1 : List!Fits(List!From(changes, k))}
  <1>1. l \in Nat
    BY LenProperties
  <1>2. l + 1 \in S
    <2>1. l + 1 \in 1..l + 1 /\ l - (l + 1) + 1 = 0
      BY <1>1
    <2>2. /\ List!From(changes, l + 1) \in Seq(ChangeRecord)
          /\ Len(List!From(changes, l + 1)) = 0
      BY <2>1, FromIs
    <2>3. List!From(changes, l + 1) = <<>>
      BY <2>2, EmptySeq
    <2> QED BY <2>1, <2>3, NothingFits
  <1>3. S \subseteq Nat /\ S # {}
    BY <1>1, <1>2
  <1>4. PICK k \in S : \A j \in S : k <= j
    BY <1>3, Smallest
  <1>5. \A j \in 1..k - 1 : j \in 1..l + 1 /\ ~(k <= j)
    BY <1>1, <1>4
  <1>6. \A j \in 1..k - 1 : ~List!Fits(List!From(changes, j))
    BY <1>4, <1>5
  <1> QED BY <1>4, <1>6 DEF Begins

LEMMA FromFirst ==
  ASSUME NEW changes \in Seq(ChangeRecord)
  PROVE  List!From(changes, 1) = changes
  <1>1. Len(changes) \in Nat /\ 1 \in 1..Len(changes) + 1 /\ Len(changes) - 1 + 1 = Len(changes)
    BY LenProperties
  <1>2. /\ List!From(changes, 1) \in Seq(ChangeRecord)
        /\ Len(List!From(changes, 1)) = Len(changes)
        /\ \A i \in 1..Len(changes) : List!From(changes, 1)[i] = changes[1 + i - 1]
    BY <1>1, FromIs
  <1>3. \A i \in 1..Len(changes) : 1 + i - 1 = i
    BY <1>1
  <1>4. \A i \in 1..Len(changes) : List!From(changes, 1)[i] = changes[i]
    BY <1>2, <1>3
  <1> QED BY <1>2, <1>4, SeqEqual

(* All of a list that fits; and evicting the oldest of one that does not *)
(* leaves the run as it is                                               *)
LEMMA AllIfItFits ==
  ASSUME NEW changes \in Seq(ChangeRecord), List!Fits(changes)
  PROVE  List!Newest(changes) = changes
  <1>1. List!From(changes, 1) = changes
    BY FromFirst
  <1>2. Begins(changes, 1)
    <2>1. Len(changes) \in Nat
      BY LenProperties
    <2>2. 1 \in 1..Len(changes) + 1 /\ \A j \in 1..1 - 1 : FALSE
      BY <2>1
    <2> QED BY <1>1, <2>2 DEF Begins
  <1> QED BY <1>1, <1>2, NewestIs

LEMMA FromTail ==
  ASSUME NEW changes \in Seq(ChangeRecord), changes # <<>>, NEW k \in 1..Len(changes)
  PROVE  List!From(Tail(changes), k) = List!From(changes, k + 1)
  <1> DEFINE l == Len(changes)
             rest == Tail(changes)
             a == List!From(rest, k)
             b == List!From(changes, k + 1)
  <1>1. rest \in Seq(ChangeRecord) /\ Len(rest) = l - 1 /\ l \in Nat
        /\ \A n \in 1..l - 1 : rest[n] = changes[n + 1]
    <2>1. \A n \in 1..Len(rest) : rest[n] = changes[n + 1]
      BY HeadTailProperties
    <2>2. Len(rest) = l - 1
      BY HeadTailProperties
    <2> QED BY <2>1, <2>2, HeadTailProperties, LenProperties
  <1>2. k \in 1..(l - 1) + 1 /\ (l - 1) - k + 1 = l - k /\ k + 1 \in 1..l + 1 /\ l - (k + 1) + 1 = l - k
    BY <1>1
  <1>3. /\ a \in Seq(ChangeRecord) /\ Len(a) = l - k
        /\ \A i \in 1..l - k : a[i] = rest[k + i - 1]
    <2> HIDE DEF rest, l
    <2> QED BY <1>1, <1>2, FromIs
  <1>4. /\ b \in Seq(ChangeRecord) /\ Len(b) = l - k
        /\ \A i \in 1..l - k : b[i] = changes[(k + 1) + i - 1]
    BY <1>2, FromIs
  <1> HIDE DEF a, b, rest, l
  <1>5. \A i \in 1..l - k : k + i - 1 \in 1..l - 1 /\ (k + 1) + i - 1 = (k + i - 1) + 1
    BY <1>1, <1>2
  <1>6. \A i \in 1..l - k : a[i] = b[i]
    BY <1>1, <1>3, <1>4, <1>5
  <1>7. a = b
    BY <1>3, <1>4, <1>6, SeqEqual
  <1> QED BY <1>7 DEF a, b, rest

LEMMA EvictionIsPromised ==
  ASSUME NEW changes \in Seq(ChangeRecord), changes # <<>>, ~List!Fits(changes)
  PROVE  List!Newest(Tail(changes)) = List!Newest(changes)
  <1> DEFINE l == Len(changes)
             rest == Tail(changes)
  <1>1. rest \in Seq(ChangeRecord) /\ Len(rest) = l - 1 /\ l \in Nat /\ l # 0
    BY HeadTailProperties, LenProperties, EmptySeq
  <1>2. PICK k : Begins(rest, k)
    BY <1>1, OneBegins
  <1>3. k \in 1..l /\ k + 1 \in 1..l + 1
    BY <1>1, <1>2 DEF Begins
  <1>4. List!From(rest, k) = List!From(changes, k + 1)
    BY <1>3, FromTail
  <1>5. ASSUME NEW j \in 1..(k + 1) - 1 PROVE ~List!Fits(List!From(changes, j))
    <2>1. CASE j = 1
      <3>1. List!From(changes, 1) = changes
        BY FromFirst
      <3> QED BY <2>1, <3>1
    <2>2. CASE j # 1
      <3>1. j - 1 \in 1..k - 1 /\ j - 1 \in 1..l /\ (j - 1) + 1 = j
        BY <1>3, <2>2
      <3>2. ~List!Fits(List!From(rest, j - 1))
        BY <1>2, <3>1 DEF Begins
      <3>3. List!From(rest, j - 1) = List!From(changes, (j - 1) + 1)
        BY <3>1, FromTail
      <3> QED BY <3>1, <3>2, <3>3
    <2> QED BY <2>1, <2>2
  <1>6. Begins(changes, k + 1)
    BY <1>2, <1>3, <1>4, <1>5 DEF Begins
  <1> QED BY <1>1, <1>2, <1>4, <1>6, NewestIs

(* With no call cut short the eviction loop decides by the bytes there are *)
LEMMA LimitIsReal ==
  ASSUME JournalTypeOK, CounterExact, tears = 0, jpc \in {"rest", "evicting"}
  PROVE  OverLimit <=> ~List!Fits(records)
  <1>1. SnapshotSum(records) = snapshotBytes
    BY DEF CounterExact
  <1>2. records \in Seq(ChangeRecord) /\ snapshotBytes \in Int /\ Len(records) \in Nat
    BY LenProperties DEF JournalTypeOK
  <1>3. List!Fits(records) <=> Len(records) <= MaxEntries /\ snapshotBytes <= MaxSnapshotBytes
    BY <1>1, <1>2, FitsIs
  <1> QED BY <1>2, <1>3, LimitAssumption DEF OverLimit, Depth

LEMMA JournalRefines ==
  ASSUME JournalTypeOK, CounterExact, [JournalNext]_journalVars
  PROVE  [tears' > 0 \/ Promised!Next]_Shown
  <1> SUFFICES ASSUME ~(tears' > 0) PROVE Promised!Next \/ Shown' = Shown
    OBVIOUS
  <1>0. tears \in Nat /\ records \in Seq(ChangeRecord)
    BY TearAssumption DEF JournalTypeOK
  <1>1. CASE UNCHANGED journalVars
    BY <1>1 DEF journalVars, Shown, List!Newest, List!Fits, List!From, List!Bytes
  <1>2. ASSUME NEW change \in ChangeRecord, AppendChange(change)
        PROVE  Promised!Push(change)
    <2>1. Shown = records /\ Shown' = List!Newest(records)'
      BY <1>2 DEF AppendChange, Shown
    <2>2. List!Newest(records)' = List!Newest(Append(records, change))
      BY <1>2 DEF AppendChange, List!Newest, List!Fits, List!From, List!Bytes
    <2>3. Promised!Newest(Append(records, change)) = List!Newest(Append(records, change))
      BY PromisedIsList
    <2> QED BY <2>1, <2>2, <2>3 DEF Promised!Push
  <1>3. CASE DiscardTop
    BY <1>3 DEF DiscardTop, Shown, Promised!Pop, Promised!Next
  <1>4. CASE ClearJournal
    BY <1>4 DEF ClearJournal, Shown, Promised!Empty, Promised!Next
  <1>5. CASE CountAppended \/ CountEvicted
    BY <1>5 DEF CountAppended, CountEvicted, Shown
  <1>6. CASE EvictOldest
    <2>1. tears = 0
      BY <1>0, <1>6 DEF EvictOldest
    <2>2. ~List!Fits(records)
      BY <1>6, <2>1, LimitIsReal DEF EvictOldest
    <2>3. List!Newest(Tail(records)) = List!Newest(records)
      BY <1>0, <1>6, <2>2, EvictionIsPromised DEF EvictOldest
    <2>4. Shown = List!Newest(records) /\ Shown' = List!Newest(Tail(records))
      BY <1>6 DEF EvictOldest, Shown
    <2> QED BY <2>3, <2>4
  <1>7. CASE FinishRecord
    <2>1. tears = 0
      BY <1>0, <1>7 DEF FinishRecord
    <2>2. List!Fits(records)
      BY <1>7, <2>1, LimitIsReal DEF FinishRecord
    <2>3. List!Newest(records) = records
      BY <1>0, <2>2, AllIfItFits
    <2> QED BY <1>7, <2>3 DEF FinishRecord, Shown
  <1>8. CASE EvictFromNothing
    <2>1. tears = 0 /\ records = <<>> /\ jpc = "evicting" /\ OverLimit
      BY <1>0, <1>8 DEF EvictFromNothing
    <2>2. ~List!Fits(<<>>)
      BY <2>1, LimitIsReal
    <2>3. List!Fits(<<>>)
      BY NothingFits
    <2> QED BY <2>2, <2>3
  <1>9. CASE CountDiscarded
    BY <1>9 DEF CountDiscarded, Shown
  <1>10. CASE TearJournal
    BY <1>0, <1>10 DEF TearJournal
  <1>11. \A change \in ChangeRecord : Promised!Push(change) => Promised!Next
    BY DEF Promised!Next
  <1> QED
    BY <1>1, <1>2, <1>3, <1>4, <1>5, <1>6, <1>7, <1>8, <1>9, <1>10, <1>11
    DEF JournalNext, JournalStatement

LEMMA PromisedInit ==
  ASSUME JournalInit
  PROVE  Promised!Init
  BY DEF JournalInit, Shown, Promised!Init

(* Statement by statement, record, discard and clear implement the promised  *)
(* stack: a push drops as many of the oldest changes as it takes to fit both *)
(* limits and no more, a pop takes the newest, a clear empties; until a      *)
(* Ctrl-C cuts a call short, and again from the next clear on.               *)
THEOREM JournalImplementsStack == JournalSpec => ImplementsBoundedStack
  <1>1. JournalInit => JournalTypeOK /\ CounterExact /\ Promised!Init
    BY JournalTypeInit, CounterInit, PromisedInit
  <1>2. JournalTypeOK /\ CounterExact /\ [JournalNext]_journalVars
          => JournalTypeOK' /\ CounterExact'
    BY JournalTypeStep, CounterStep
  <1>3. JournalTypeOK /\ CounterExact /\ [JournalNext]_journalVars
          => [tears' > 0 \/ Promised!Next]_Shown
    BY JournalRefines
  <1> QED BY <1>1, <1>2, <1>3, PTL DEF JournalSpec, ImplementsBoundedStack

-----------------------------------------------------------------------------
(* Discarding only makes room *)
WithinLimits == tears = 0 /\ jpc \in {"rest", "discarded"} => List!Fits(records)

LEMMA LimitsStep ==
  ASSUME JournalTypeOK, CounterExact, WithinLimits, [JournalNext]_journalVars
  PROVE  WithinLimits'
  <1>0. tears \in Nat /\ records \in Seq(ChangeRecord)
    BY TearAssumption DEF JournalTypeOK
  <1>1. List!Fits(<<>>)
    BY NothingFits
  <1>2. CASE records' = records /\ tears' = tears /\ jpc' = jpc
    BY <1>2 DEF WithinLimits, List!Fits, List!Bytes
  <1>3. CASE jpc' \notin {"rest", "discarded"}
    BY <1>3 DEF WithinLimits
  <1>4. CASE ClearJournal
    BY <1>1, <1>4 DEF ClearJournal, WithinLimits, List!Fits, List!Bytes
  <1>5. CASE DiscardTop
    <2> SUFFICES ASSUME tears = 0 PROVE List!Fits(records')
      BY <1>5 DEF DiscardTop, WithinLimits, List!Fits, List!Bytes
    <2>1. List!Fits(records)
      BY <1>5 DEF DiscardTop, WithinLimits
    <2>2. /\ records' \in Seq(ChangeRecord) /\ Len(records') = Len(records) - 1
          /\ SnapshotSum(records) = SnapshotSum(records') + RecordBytes(Top)
          /\ RecordBytes(Top) \in Nat /\ SnapshotSum(records') \in Nat /\ Len(records) \in Nat
      BY <1>5, WithoutTop, SumWithoutTop, TopIsRecord DEF DiscardTop
    <2>3. Len(records) <= MaxEntries /\ SnapshotSum(records) <= MaxSnapshotBytes
      BY <1>0, <2>1, FitsIs
    <2>4. Len(records') <= MaxEntries /\ SnapshotSum(records') <= MaxSnapshotBytes
      BY <2>2, <2>3, LimitAssumption
    <2> QED BY <2>2, <2>4, FitsIs
  <1>6. CASE FinishRecord \/ EvictFromNothing
    <2> SUFFICES ASSUME tears = 0 PROVE List!Fits(records)
      BY <1>6 DEF FinishRecord, EvictFromNothing, WithinLimits, List!Fits, List!Bytes
    <2>1. CASE FinishRecord
      BY <2>1, LimitIsReal DEF FinishRecord
    <2>2. CASE EvictFromNothing
      BY <1>1, <2>2 DEF EvictFromNothing
    <2> QED BY <1>6, <2>1, <2>2
  <1>7. CASE CountDiscarded
    BY <1>7 DEF CountDiscarded, WithinLimits, List!Fits, List!Bytes
  <1>8. CASE TearJournal
    BY <1>0, <1>8 DEF TearJournal, WithinLimits
  <1> QED
    BY <1>2, <1>3, <1>4, <1>5, <1>6, <1>7, <1>8
    DEF JournalNext, JournalStatement, AppendChange, CountAppended, EvictOldest, CountEvicted,
        journalVars

LEMMA LimitsInit ==
  ASSUME JournalInit
  PROVE  WithinLimits
  BY NothingFits DEF JournalInit, WithinLimits

LEMMA LimitsBound ==
  ASSUME JournalTypeOK, CounterExact, WithinLimits
  PROVE  LimitsAtRest
  <1>1. ASSUME jpc = "rest", tears = 0 PROVE ~OverLimit
    BY <1>1, LimitIsReal DEF WithinLimits
  <1> QED BY <1>1 DEF LimitsAtRest

(* Between calls, with no call cut short, both limits hold, of the counter   *)
(* and of the bytes that the list holds                                      *)
THEOREM LimitsHoldAtRest == JournalSpec => [](LimitsAtRest /\ WithinLimits)
  <1>1. JournalInit => JournalTypeOK /\ CounterExact /\ WithinLimits
    BY JournalTypeInit, CounterInit, LimitsInit
  <1>2. JournalTypeOK /\ CounterExact /\ WithinLimits /\ [JournalNext]_journalVars
          => JournalTypeOK' /\ CounterExact' /\ WithinLimits'
    BY JournalTypeStep, CounterStep, LimitsStep
  <1>3. JournalTypeOK /\ CounterExact /\ WithinLimits => LimitsAtRest
    BY LimitsBound
  <1> QED BY <1>1, <1>2, <1>3, PTL DEF JournalSpec

-----------------------------------------------------------------------------
(* THE FILE TOOLS over it *)

(* A call that is running has all its fields *)
LEMMA RunningCall ==
  ASSUME FileTypeOK, call # Idle
  PROVE  /\ call \in Call
         /\ call.path \in Paths
         /\ call.before \in Contents \cup {Absent}
         /\ call.after \in Contents
  BY DEF FileTypeOK, Call

(* Every record is about a workspace file *)
LEMMA RecordsOfPaths ==
  ASSUME FileTypeOK
  PROVE  /\ DOMAIN records = 1..Len(records)
         /\ Len(records) \in Nat
         /\ \A i \in DOMAIN records : records[i] \in ChangeRecord /\ records[i].path \in Paths
  <1>1. records \in Seq(ChangeRecord) BY DEF FileTypeOK, JournalTypeOK
  <1>2. DOMAIN records = 1..Len(records) /\ Len(records) \in Nat BY <1>1, LenProperties
  <1>3. \A i \in 1..Len(records) : records[i] \in ChangeRecord BY <1>1, ElementOfSeq
  <1> QED BY <1>2, <1>3 DEF ChangeRecord

LEMMA IdleIsNoCall == Idle \notin Call
  BY DEF Idle, Call

LEMMA ChangeIsRecord ==
  ASSUME FileTypeOK, call # Idle
  PROVE  Change \in ChangeRecord
  BY RunningCall DEF Change, ChangeRecord

(* Beginning a call gives it all its fields *)
LEMMA BeginIsCall ==
  ASSUME NEW tool \in {"read", "write", "edit", "undo"}, NEW path \in Paths,
         NEW content \in Contents \cup {Absent}, NEW after \in Contents
  PROVE  Begin(tool, path, content, after) \in Call
  BY DEF Begin, Call

(* Every step of the file tools is a step of the undo stack, or leaves it alone *)
LEMMA FileStepIsJournalStep ==
  ASSUME FileTypeOK, [FileNext]_vars
  PROVE  [JournalNext]_journalVars
  <1> USE DEF JournalUnchanged, journalVars
  <1>1. CASE UNCHANGED vars
    BY <1>1 DEF vars
  <1>2. CASE RecordChange
    <2>1. CASE call.before # call.after /\ AppendChange(Change)
      <3>1. Change \in ChangeRecord BY <1>2, ChangeIsRecord DEF RecordChange, At
      <3>2. Change.before # Change.after BY <2>1 DEF Change
      <3> QED BY <2>1, <3>1, <3>2 DEF JournalNext
    <2> QED BY <1>2, <2>1 DEF RecordChange
  <1>3. CASE FinishRecording
    BY <1>3 DEF FinishRecording, JournalNext, JournalStatement
  <1>4. CASE DiscardUndone \/ FinishDiscard \/ NewSession
    BY <1>4 DEF DiscardUndone, FinishDiscard, NewSession, JournalNext, JournalStatement
  <1>5. CASE Interrupt
    BY <1>5 DEF Interrupt, JournalNext
  <1>6. CASE \E path \in Paths : ReadWhole(path)
    BY <1>6 DEF ReadWhole
  <1>7. CASE \E path \in Paths, content \in Text : StartWrite(path, content) \/ StartEdit(path, content)
    BY <1>7 DEF StartWrite, StartEdit, Compose
  <1>8. CASE Overwrite \/ Create \/ FillCreated \/ ChangeFails \/ NoteHash
    BY <1>8 DEF Overwrite, Create, FillCreated, ChangeFails, NoteHash
  <1>9. CASE StartUndo \/ RestoreFile \/ UndoFails \/ RestoreReadState
    BY <1>9 DEF StartUndo, RestoreFile, UndoFails, RestoreReadState
  <1>10. CASE AlreadyDiscarded \/ ReconcileRestored \/ ReconcileGivesUp \/ Return \/ ResetReadState
    BY <1>10 DEF AlreadyDiscarded, ReconcileRestored, ReconcileGivesUp, Return, ResetReadState
  <1>11. CASE \E path \in Paths, state \in DiskStates : OutsideChange(path, state)
    BY <1>11 DEF OutsideChange
  <1> QED
    BY <1>1, <1>2, <1>3, <1>4, <1>5, <1>6, <1>7, <1>8, <1>9, <1>10, <1>11
    DEF FileNext, ToolStep

-----------------------------------------------------------------------------
(* Types *)

LEMMA FileTypeStep ==
  ASSUME FileTypeOK, [FileNext]_vars
  PROVE  FileTypeOK'
  <1>0. JournalTypeOK'
    BY FileStepIsJournalStep, JournalTypeStep DEF FileTypeOK
  <1> USE <1>0, ContentAssumption, DistinctAssumption DEF FileTypeOK, DiskStates
  <1>1. CASE UNCHANGED vars
    BY <1>1 DEF vars
  <1>2. ASSUME NEW path \in Paths, ReadWhole(path)
        PROVE  FileTypeOK'
    <2>1. disk[path] \in Contents BY <1>2 DEF ReadWhole
    <2>2. call' \in Call BY <1>2, <2>1 DEF ReadWhole, Begin, Call
    <2>3. known' \in [Paths -> SUBSET Contents] BY <1>2, <2>1 DEF ReadWhole
    <2>4. readHash' \in [Paths -> Contents \cup {NoHash}] BY <1>2, <2>1 DEF ReadWhole
    <2> QED BY <1>2, <2>2, <2>3, <2>4 DEF ReadWhole
  <1>3. ASSUME NEW path \in Paths, NEW content \in Text,
               StartWrite(path, content) \/ StartEdit(path, content)
        PROVE  FileTypeOK'
    <2>1. disk[path] \in Contents \cup {Absent} /\ content \in Contents
      BY <1>3 DEF StartWrite, StartEdit, Authorised
    <2>2. call' \in Call BY <1>3, <2>1, BeginIsCall DEF StartWrite, StartEdit, Compose
    <2>3. known' \in [Paths -> SUBSET Contents]
      BY <1>3, <2>1 DEF StartWrite, StartEdit, Compose
    <2> QED BY <1>3, <2>2, <2>3 DEF StartWrite, StartEdit, Compose
  <1>4. CASE Overwrite \/ Create \/ FillCreated
    BY <1>4, RunningCall DEF Overwrite, Create, FillCreated, At, GoTo, Call
  <1>5. CASE ChangeFails
    BY <1>5, RunningCall DEF ChangeFails, At
  <1>6. CASE NoteHash \/ RestoreReadState
    BY <1>6, RunningCall DEF NoteHash, RestoreReadState, At, GoTo, Call
  <1>7. CASE RecordChange \/ FinishRecording
    BY <1>7, RunningCall DEF RecordChange, FinishRecording, At, GoTo, Call
  <1>8. CASE StartUndo
    <2>1. Top \in ChangeRecord BY <1>8, TopIsRecord DEF StartUndo
    <2>2. call' \in Call BY <1>8, <2>1, BeginIsCall DEF StartUndo, ChangeRecord
    <2> QED BY <1>8, <2>2 DEF StartUndo
  <1>9. CASE RestoreFile
    BY <1>9, RunningCall DEF RestoreFile, At, GoTo, Call
  <1>10. CASE UndoFails \/ ReconcileGivesUp \/ Return
    BY <1>10 DEF UndoFails, ReconcileGivesUp, Return
  <1>11. CASE DiscardUndone \/ AlreadyDiscarded \/ FinishDiscard \/ ReconcileRestored
    BY <1>11, RunningCall
    DEF DiscardUndone, AlreadyDiscarded, FinishDiscard, ReconcileRestored, At, GoTo, Call
  <1>12. CASE Interrupt
    BY <1>12, RunningCall DEF Interrupt, Call
  <1>13. ASSUME NEW path \in Paths, NEW state \in DiskStates, OutsideChange(path, state)
         PROVE  FileTypeOK'
    BY <1>13, RunningCall DEF OutsideChange, Call
  <1>14. CASE ResetReadState \/ NewSession
    BY <1>14 DEF ResetReadState, NewSession
  <1> QED
    BY <1>1, <1>2, <1>3, <1>4, <1>5, <1>6, <1>7, <1>8, <1>9, <1>10, <1>11, <1>12, <1>13, <1>14
    DEF FileNext, ToolStep

LEMMA FileTypeInit ==
  ASSUME FileInit
  PROVE  FileTypeOK
  BY JournalTypeInit DEF FileInit, FileTypeOK

(* The files, the read state, the call in progress and the undo stack keep  *)
(* their types.                                                             *)
THEOREM FileTypeCorrect == FileSpec => []FileTypeOK
  <1>1. FileInit => FileTypeOK BY FileTypeInit
  <1>2. FileTypeOK /\ [FileNext]_vars => FileTypeOK' BY FileTypeStep
  <1> QED BY <1>1, <1>2, PTL DEF FileSpec

-----------------------------------------------------------------------------
(* A call that goes on keeps its other fields *)
LEMMA CallGoesOn ==
  ASSUME FileTypeOK, call # Idle, NEW pc, GoTo(pc), pc # "idle"
  PROVE  /\ call' # Idle
         /\ call'.pc = pc
         /\ call'.tool = call.tool
         /\ call'.path = call.path
         /\ call'.before = call.before
         /\ call'.after = call.after
         /\ call'.kept = call.kept
         /\ call'.raced = call.raced
  BY RunningCall DEF GoTo, Call, Idle

(* A Ctrl-C ends the call, or turns an undo into its reconciliation *)
LEMMA InterruptedCall ==
  ASSUME FileTypeOK, Interrupt
  PROVE  \/ call' = Idle
         \/ /\ call' # Idle
            /\ call.tool = "undo"
            /\ call'.tool = "reconcile"
            /\ call'.pc = "checked"
            /\ call'.path = call.path
            /\ call'.before = call.before
            /\ call'.after = call.after
            /\ call'.kept = call.kept
            /\ call'.raced = call.raced
            /\ UNCHANGED unlogged
  BY RunningCall DEF Interrupt, Call, Idle

(* Ending a call whose file is at odds with the undo stack is remembered *)
LEMMA InterruptKeepsTrack ==
  ASSUME FileTypeOK, Interrupt, call' = Idle, ~unlogged'[call.path]
  PROVE  ~unlogged[call.path] /\ ~Unfinished
  <1>1. call # Idle /\ call.path \in Paths BY RunningCall DEF Interrupt
  <1>2. unlogged' = [unlogged EXCEPT ![call.path] = @ \/ Unfinished]
    BY <1>1, RunningCall DEF Interrupt, Call, Idle
  <1>3. unlogged'[call.path] = (unlogged[call.path] \/ Unfinished)
    BY <1>1, <1>2, Zenon DEF FileTypeOK
  <1> QED BY <1>3

(* Something outside leaves the call as it was, or races it *)
LEMMA RacedCall ==
  ASSUME FileTypeOK, NEW path \in Paths, NEW state \in DiskStates, OutsideChange(path, state)
  PROVE  \/ call' = call /\ (call = Idle \/ call.path # path)
         \/ /\ call # Idle
            /\ call' # Idle
            /\ call.path = path
            /\ call'.tool = call.tool
            /\ call'.pc = call.pc
            /\ call'.path = call.path
            /\ call'.before = call.before
            /\ call'.after = call.after
            /\ call'.kept = call.kept
            /\ call'.raced
  BY RunningCall DEF OutsideChange, Call, Idle

(* The undone record leaves the call when it leaves the stack *)
LEMMA DiscardingCall ==
  ASSUME FileTypeOK, DiscardUndone
  PROVE  /\ call # Idle
         /\ call' # Idle
         /\ call'.pc = "recording"
         /\ call'.tool = call.tool
         /\ call'.path = call.path
         /\ call'.before = call.before
         /\ call'.after = call.after
         /\ ~call'.kept
         /\ call'.raced = call.raced
  BY RunningCall DEF DiscardUndone, At, Call, Idle

(* The first state of a write or an edit *)
LEMMA ComposedCall ==
  ASSUME NEW path, NEW content, StartWrite(path, content) \/ StartEdit(path, content)
  PROVE  /\ call' # Idle
         /\ call'.pc = "checked"
         /\ call'.tool \in Writing
         /\ call'.path = path
         /\ call'.before = disk[path]
         /\ call'.after = content
         /\ ~call'.kept
         /\ ~call'.raced
  <1>1. CASE StartWrite(path, content)
    BY <1>1 DEF StartWrite, Compose, Begin, Idle, Writing
  <1>2. CASE StartEdit(path, content)
    BY <1>2 DEF StartEdit, Compose, Begin, Idle, Writing
  <1> QED BY <1>1, <1>2

(* The first state of an undo *)
LEMMA UndoCall ==
  ASSUME FileTypeOK, StartUndo
  PROVE  /\ call' # Idle
         /\ call'.pc = "checked"
         /\ call'.tool = "undo"
         /\ call'.path = Top.path
         /\ call'.before = Top.before
         /\ call'.after = Top.after
         /\ call'.kept
         /\ ~call'.raced
         /\ Top = [path |-> Top.path, before |-> Top.before, after |-> Top.after]
         /\ Top' = Top
  <1>1. Top = [path |-> Top.path, before |-> Top.before, after |-> Top.after]
    BY TopIsRecord DEF StartUndo, FileTypeOK, ChangeRecord
  <1>2. Top' = Top BY DEF StartUndo, JournalUnchanged, journalVars, Top
  <1> QED BY <1>1, <1>2 DEF StartUndo, Begin, Idle

(* A whole read is over at once *)
LEMMA ReadCall ==
  ASSUME NEW path, ReadWhole(path)
  PROVE  /\ call' # Idle
         /\ call'.pc = "done"
         /\ call'.tool = "read"
         /\ call'.path = path
         /\ call'.before = disk[path]
         /\ call'.after = disk[path]
         /\ ~call'.kept
         /\ ~call'.raced
  BY DEF ReadWhole, Begin, Idle

-----------------------------------------------------------------------------
(* The journal runs in a call, and the record being undone is on top *)

LEMMA JournalInCallStep ==
  ASSUME FileTypeOK, JournalInCall, [FileNext]_vars
  PROVE  JournalInCall'
  <1> USE DEF JournalInCall, JournalUnchanged, journalVars, At, Writing, Undoing
  <1>1. CASE UNCHANGED vars
    BY <1>1 DEF vars
  <1>2. ASSUME NEW path \in Paths, ReadWhole(path)
        PROVE  JournalInCall'
    BY <1>2, ReadCall DEF ReadWhole
  <1>3. ASSUME NEW path \in Paths, NEW content \in Text,
               StartWrite(path, content) \/ StartEdit(path, content)
        PROVE  JournalInCall'
    BY <1>3, ComposedCall DEF StartWrite, StartEdit, Compose
  <1>4. CASE Overwrite \/ Create \/ FillCreated \/ NoteHash
    BY <1>4, CallGoesOn DEF Overwrite, Create, FillCreated, NoteHash
  <1>5. CASE ChangeFails \/ UndoFails \/ ReconcileGivesUp \/ Return
    BY <1>5 DEF ChangeFails, UndoFails, ReconcileGivesUp, Return
  <1>6. CASE RecordChange
    BY <1>6, CallGoesOn DEF RecordChange, AppendChange
  <1>7. CASE FinishRecording
    BY <1>7, CallGoesOn
    DEF FinishRecording, CountAppended, EvictOldest, CountEvicted, FinishRecord, EvictFromNothing
  <1>8. CASE StartUndo
    BY <1>8, UndoCall DEF StartUndo
  <1>9. CASE RestoreFile \/ RestoreReadState \/ AlreadyDiscarded \/ ReconcileRestored
    BY <1>9, CallGoesOn DEF RestoreFile, RestoreReadState, AlreadyDiscarded, ReconcileRestored
  <1>10. CASE DiscardUndone
    BY <1>10, DiscardingCall DEF DiscardUndone, DiscardTop
  <1>11. CASE FinishDiscard
    BY <1>11, CallGoesOn DEF FinishDiscard, CountDiscarded
  <1>12. CASE Interrupt
    BY <1>12, InterruptedCall DEF Interrupt, TearJournal
  <1>13. ASSUME NEW path \in Paths, NEW state \in DiskStates, OutsideChange(path, state)
         PROVE  JournalInCall'
    BY <1>13, RacedCall DEF OutsideChange
  <1>14. CASE ResetReadState \/ NewSession
    BY <1>14 DEF ResetReadState, NewSession, ClearJournal
  <1> QED
    BY <1>1, <1>2, <1>3, <1>4, <1>5, <1>6, <1>7, <1>8, <1>9, <1>10, <1>11, <1>12, <1>13, <1>14
    DEF FileNext, ToolStep

LEMMA UndoneOnTopStep ==
  ASSUME FileTypeOK, JournalInCall, UndoneOnTop, [FileNext]_vars
  PROVE  UndoneOnTop'
  <1> USE DEF UndoneOnTop, JournalUnchanged, journalVars, At, Writing, Undoing, Change
  <1>1. CASE UNCHANGED vars
    BY <1>1 DEF vars, Top
  <1>2. ASSUME NEW path \in Paths, ReadWhole(path)
        PROVE  UndoneOnTop'
    BY <1>2, ReadCall DEF ReadWhole
  <1>3. ASSUME NEW path \in Paths, NEW content \in Text,
               StartWrite(path, content) \/ StartEdit(path, content)
        PROVE  UndoneOnTop'
    BY <1>3, ComposedCall DEF StartWrite, StartEdit, Compose
  <1>4. CASE Overwrite \/ Create \/ FillCreated \/ NoteHash
    BY <1>4, CallGoesOn DEF Overwrite, Create, FillCreated, NoteHash
  <1>5. CASE ChangeFails \/ UndoFails \/ ReconcileGivesUp \/ Return
    BY <1>5 DEF ChangeFails, UndoFails, ReconcileGivesUp, Return
  <1>6. CASE RecordChange \/ FinishRecording
    BY <1>6, CallGoesOn DEF RecordChange, FinishRecording
  <1>8. CASE StartUndo
    BY <1>8, UndoCall DEF StartUndo
  <1>9. CASE RestoreFile \/ RestoreReadState \/ AlreadyDiscarded \/ ReconcileRestored
    BY <1>9, CallGoesOn DEF Top, RestoreFile, RestoreReadState, AlreadyDiscarded, ReconcileRestored
  <1>10. CASE DiscardUndone
    BY <1>10, DiscardingCall DEF DiscardUndone, DiscardTop
  <1>11. CASE FinishDiscard
    BY <1>11, CallGoesOn DEF FinishDiscard, CountDiscarded
  <1>12. CASE Interrupt
    BY <1>12, InterruptedCall DEF Top, Interrupt, TearJournal
  <1>13. ASSUME NEW path \in Paths, NEW state \in DiskStates, OutsideChange(path, state)
         PROVE  UndoneOnTop'
    BY <1>13, RacedCall DEF Top, OutsideChange
  <1>14. CASE ResetReadState \/ NewSession
    BY <1>14 DEF ResetReadState, NewSession, ClearJournal
  <1> QED
    BY <1>1, <1>2, <1>3, <1>4, <1>5, <1>6, <1>8, <1>9, <1>10, <1>11, <1>12, <1>13, <1>14
    DEF FileNext, ToolStep

-----------------------------------------------------------------------------
(* What a call's file holds, and whether something raced it *)

LEMMA RacesUnloggedStep ==
  ASSUME FileTypeOK, RacesUnlogged, [FileNext]_vars
  PROVE  RacesUnlogged'
  <1> USE DEF RacesUnlogged, At, FileTypeOK
  <1>1. CASE UNCHANGED vars
    BY <1>1 DEF vars
  <1>2. ASSUME NEW path \in Paths, ReadWhole(path)
        PROVE  RacesUnlogged'
    BY <1>2, ReadCall DEF ReadWhole
  <1>3. ASSUME NEW path \in Paths, NEW content \in Text,
               StartWrite(path, content) \/ StartEdit(path, content)
        PROVE  RacesUnlogged'
    BY <1>3, ComposedCall
  <1>4. CASE Overwrite \/ Create \/ FillCreated \/ NoteHash
    BY <1>4, CallGoesOn DEF Overwrite, Create, FillCreated, NoteHash
  <1>5. CASE ChangeFails \/ UndoFails \/ ReconcileGivesUp \/ Return
    BY <1>5 DEF ChangeFails, UndoFails, ReconcileGivesUp, Return
  <1>6. CASE RecordChange \/ FinishRecording
    BY <1>6, CallGoesOn DEF RecordChange, FinishRecording
  <1>7. CASE StartUndo
    BY <1>7, UndoCall DEF StartUndo
  <1>8. CASE RestoreFile \/ RestoreReadState \/ AlreadyDiscarded \/ ReconcileRestored
    BY <1>8, CallGoesOn DEF RestoreFile, RestoreReadState, AlreadyDiscarded, ReconcileRestored
  <1>9. CASE DiscardUndone
    BY <1>9, DiscardingCall DEF DiscardUndone
  <1>10. CASE FinishDiscard
    BY <1>10, CallGoesOn DEF FinishDiscard
  <1>11. CASE Interrupt
    BY <1>11, InterruptedCall DEF Interrupt
  <1>12. ASSUME NEW path \in Paths, NEW state \in DiskStates, OutsideChange(path, state)
         PROVE  RacesUnlogged'
    BY <1>12, RacedCall, RunningCall DEF OutsideChange
  <1>13. CASE ResetReadState \/ NewSession
    BY <1>13 DEF ResetReadState, NewSession
  <1> QED
    BY <1>1, <1>2, <1>3, <1>4, <1>5, <1>6, <1>7, <1>8, <1>9, <1>10, <1>11, <1>12, <1>13
    DEF FileNext, ToolStep

LEMMA DiskInCallStep ==
  ASSUME FileTypeOK, UndoneOnTop, DiskInCall, [FileNext]_vars
  PROVE  DiskInCall'
  <1> USE DEF DiskInCall, Active, At, Writing, Undoing
  <1>1. CASE UNCHANGED vars
    BY <1>1 DEF vars
  <1>2. ASSUME NEW path \in Paths, ReadWhole(path)
        PROVE  DiskInCall'
    BY <1>2, ReadCall DEF ReadWhole
  <1>3. ASSUME NEW path \in Paths, NEW content \in Text,
               StartWrite(path, content) \/ StartEdit(path, content)
        PROVE  DiskInCall'
    BY <1>3, ComposedCall DEF StartWrite, StartEdit, Compose
  <1>4. CASE Overwrite \/ Create \/ FillCreated
    BY <1>4, CallGoesOn, RunningCall DEF Overwrite, Create, FillCreated, FileTypeOK
  <1>5. CASE ChangeFails \/ UndoFails \/ ReconcileGivesUp \/ Return
    BY <1>5 DEF ChangeFails, UndoFails, ReconcileGivesUp, Return
  <1>6. CASE NoteHash \/ RecordChange \/ FinishRecording
    BY <1>6, CallGoesOn DEF NoteHash, RecordChange, FinishRecording
  <1>7. CASE StartUndo
    BY <1>7, UndoCall DEF StartUndo
  <1>8. CASE RestoreFile
    BY <1>8, CallGoesOn, RunningCall DEF RestoreFile, FileTypeOK
  <1>9. CASE RestoreReadState \/ AlreadyDiscarded \/ FinishDiscard
    BY <1>9, CallGoesOn DEF RestoreReadState, AlreadyDiscarded, FinishDiscard
  <1>10. CASE ReconcileRestored
    BY <1>10, CallGoesOn DEF ReconcileRestored
  <1>11. CASE DiscardUndone
    BY <1>11, DiscardingCall DEF DiscardUndone
  <1>12. CASE Interrupt
    <2>1. UNCHANGED disk BY <1>12 DEF Interrupt
    <2>2. call # Idle => call.pc \in {"checked", "created", "replaced", "hashed", "recording", "done"}
      BY RunningCall DEF Call
    <2>3. CASE call' # Idle
      <3>1. call # Idle BY <1>12 DEF Interrupt
      <3>2. call.pc # "created" => call.pc \in {"checked", "replaced", "hashed", "recording", "done"}
        BY <2>2, <3>1
      <3> QED BY <1>12, <2>1, <2>3, <3>1, <3>2, InterruptedCall DEF UndoneOnTop
    <2> QED BY <2>3
  <1>13. ASSUME NEW path \in Paths, NEW state \in DiskStates, OutsideChange(path, state)
         PROVE  DiskInCall'
    BY <1>13, RacedCall, RunningCall DEF OutsideChange, FileTypeOK
  <1>14. CASE ResetReadState \/ NewSession
    BY <1>14 DEF ResetReadState, NewSession
  <1> QED
    BY <1>1, <1>2, <1>3, <1>4, <1>5, <1>6, <1>7, <1>8, <1>9, <1>10, <1>11, <1>12, <1>13, <1>14
    DEF FileNext, ToolStep

-----------------------------------------------------------------------------
(* Everything read, composed or recorded is known *)

LEMMA ContentsKnownStep ==
  ASSUME FileTypeOK, JournalInCall, ContentsKnown, [FileNext]_vars
  PROVE  ContentsKnown'
  <1> USE DEF ContentsKnown, Known, At, JournalUnchanged, journalVars
  <1>1. CASE UNCHANGED vars
    BY <1>1 DEF vars
  <1>2. ASSUME NEW path \in Paths, ReadWhole(path)
        PROVE  ContentsKnown'
    <2>1. \A p \in Paths : /\ known[p] \subseteq known'[p]
                           /\ p # path => readHash'[p] = readHash[p]
      BY <1>2 DEF ReadWhole, FileTypeOK
    <2>2. disk[path] \in known'[path] /\ readHash'[path] = disk[path]
      BY <1>2 DEF ReadWhole, FileTypeOK
    <2> QED BY <1>2, <2>1, <2>2, RecordsOfPaths, ReadCall DEF ReadWhole
  <1>3. ASSUME NEW path \in Paths, NEW content \in Text,
               StartWrite(path, content) \/ StartEdit(path, content)
        PROVE  ContentsKnown'
    <2>1. \A p \in Paths : known[p] \subseteq known'[p]
      BY <1>3 DEF StartWrite, StartEdit, Compose, FileTypeOK
    <2>2. content \in known'[path]
      BY <1>3 DEF StartWrite, StartEdit, Compose, FileTypeOK
    <2>3. disk[path] # Absent => disk[path] \in known[path]
      BY <1>3, ContentAssumption, DistinctAssumption DEF StartWrite, StartEdit, Authorised
    <2>4. UNCHANGED <<readHash, records>>
      BY <1>3 DEF StartWrite, StartEdit, Compose
    <2> QED BY <1>3, <2>1, <2>2, <2>3, <2>4, RecordsOfPaths, ComposedCall
  <1>4. CASE Overwrite \/ Create \/ FillCreated
    BY <1>4, CallGoesOn DEF Overwrite, Create, FillCreated
  <1>5. CASE ChangeFails \/ UndoFails \/ ReconcileGivesUp \/ Return
    BY <1>5 DEF ChangeFails, UndoFails, ReconcileGivesUp, Return
  <1>6. CASE NoteHash
    BY <1>6, CallGoesOn, RunningCall DEF NoteHash, FileTypeOK
  <1>7. CASE RecordChange
    <2>1. CASE AppendChange(Change)
      <3>1. Change \in ChangeRecord BY <1>7, ChangeIsRecord DEF RecordChange
      <3>2. /\ DOMAIN records' = 1..Len(records) + 1
            /\ DOMAIN records = 1..Len(records)
            /\ \A i \in 1..Len(records) : records'[i] = records[i]
            /\ records'[Len(records) + 1] = Change
        BY <2>1, <3>1, AppendProperties, LenProperties
        DEF AppendChange, FileTypeOK, JournalTypeOK
      <3>3. /\ Known(Change.path, Change.after)
            /\ Change.before # Absent => Known(Change.path, Change.before)
        BY <1>7 DEF RecordChange, Change
      <3>4. \A i \in DOMAIN records' : i \in DOMAIN records \/ i = Len(records) + 1
        BY <3>2, LenProperties DEF FileTypeOK, JournalTypeOK
      <3> QED BY <1>7, <3>2, <3>3, <3>4, CallGoesOn DEF RecordChange
    <2>2. CASE JournalUnchanged
      BY <1>7, <2>2, CallGoesOn DEF RecordChange
    <2> QED BY <1>7, <2>1, <2>2 DEF RecordChange
  <1>8. CASE FinishRecording
    <2>1. CASE EvictOldest
      <3>1. \A i \in DOMAIN records' : i + 1 \in DOMAIN records /\ records'[i] = records[i + 1]
        BY <2>1, HeadTailProperties, LenProperties DEF EvictOldest, FileTypeOK, JournalTypeOK
      <3> QED BY <1>8, <2>1, <3>1, CallGoesOn
        DEF FinishRecording, EvictOldest, CountAppended, CountEvicted, FinishRecord, EvictFromNothing
    <2>2. CASE UNCHANGED records
      BY <1>8, <2>2, CallGoesOn DEF FinishRecording
    <2> QED BY <1>8, <2>1, <2>2
      DEF FinishRecording, CountAppended, CountEvicted, FinishRecord, EvictFromNothing
  <1>9. CASE StartUndo
    <2>1. Len(records) \in DOMAIN records
      BY <1>9, TopIsRecord, LenProperties DEF StartUndo, FileTypeOK, JournalTypeOK
    <2> QED BY <1>9, <2>1, UndoCall DEF StartUndo, Top
  <1>10. CASE RestoreFile \/ AlreadyDiscarded \/ ReconcileRestored
    BY <1>10, CallGoesOn DEF RestoreFile, AlreadyDiscarded, ReconcileRestored
  <1>11. CASE RestoreReadState
    BY <1>11, CallGoesOn, RunningCall DEF RestoreReadState, FileTypeOK
  <1>12. CASE DiscardUndone
    <2>1. \A i \in DOMAIN records' : i \in DOMAIN records /\ records'[i] = records[i]
      BY <1>12, WithoutTop, TopIsRecord, LenProperties
      DEF DiscardUndone, DiscardTop, FileTypeOK, JournalTypeOK
    <2> QED BY <1>12, <2>1, DiscardingCall DEF DiscardUndone
  <1>13. CASE FinishDiscard
    BY <1>13, CallGoesOn DEF FinishDiscard, CountDiscarded
  <1>14. CASE Interrupt
    BY <1>14, InterruptedCall DEF Interrupt, TearJournal
  <1>15. ASSUME NEW path \in Paths, NEW state \in DiskStates, OutsideChange(path, state)
         PROVE  ContentsKnown'
    BY <1>15, RacedCall DEF OutsideChange
  <1>16. CASE ResetReadState
    BY <1>16 DEF ResetReadState
  <1>17. CASE NewSession
    BY <1>17, EmptySeq DEF NewSession, ClearJournal
  <1> QED
    BY <1>1, <1>2, <1>3, <1>4, <1>5, <1>6, <1>7, <1>8, <1>9, <1>10, <1>11, <1>12, <1>13,
       <1>14, <1>15, <1>16, <1>17
    DEF FileNext, ToolStep

-----------------------------------------------------------------------------
(* The read state of paths nobody else touched *)

LEMMA HashInCallStep ==
  ASSUME FileTypeOK, UndoneOnTop, RacesUnlogged, DiskInCall, HashInCall, [FileNext]_vars
  PROVE  HashInCall'
  <1> SUFFICES ASSUME NEW p \in Paths, ~unlogged'[p]
               PROVE  \/ readHash'[p] = NoHash
                      \/ /\ readHash'[p] = disk'[p]
                         /\ ~(Active(Writing, {"created"}) /\ call.path = p)'
                      \/ /\ call' # Idle /\ call'.path = p
                         /\ \/ /\ Active(Writing, {"created", "replaced"})'
                               /\ readHash'[p] = call'.before
                            \/ /\ Active(Undoing, {"checked", "replaced"})'
                               /\ call'.kept
                               /\ readHash'[p] = call'.after
    BY DEF HashInCall
  <1> DEFINE Goal == \/ readHash'[p] = NoHash
                     \/ /\ readHash'[p] = disk'[p]
                        /\ ~(Active(Writing, {"created"}) /\ call.path = p)'
                     \/ /\ call' # Idle /\ call'.path = p
                        /\ \/ /\ Active(Writing, {"created", "replaced"})'
                              /\ readHash'[p] = call'.before
                           \/ /\ Active(Undoing, {"checked", "replaced"})'
                              /\ call'.kept
                              /\ readHash'[p] = call'.after
  <1> USE DEF HashInCall, Active, At, Writing, Undoing, RacesUnlogged, DiskInCall, UndoneOnTop
  <1>1. CASE UNCHANGED vars
    BY <1>1 DEF vars
  <1>2. ASSUME NEW path \in Paths, ReadWhole(path)
        PROVE  Goal
    BY <1>2, ReadCall DEF ReadWhole, FileTypeOK
  <1>3. ASSUME NEW path \in Paths, NEW content \in Text,
               StartWrite(path, content) \/ StartEdit(path, content)
        PROVE  Goal
    BY <1>3, ComposedCall DEF StartWrite, StartEdit, Compose
  <1>4. CASE Overwrite
    BY <1>4, CallGoesOn, RunningCall DEF Overwrite, FileTypeOK
  <1>5. CASE Create \/ FillCreated
    BY <1>5, CallGoesOn, RunningCall DEF Create, FillCreated, FileTypeOK
  <1>6. CASE ChangeFails
    BY <1>6, RunningCall DEF ChangeFails, FileTypeOK
  <1>7. CASE NoteHash
    BY <1>7, CallGoesOn, RunningCall DEF NoteHash, FileTypeOK
  <1>8. CASE RecordChange \/ FinishRecording
    BY <1>8, CallGoesOn DEF RecordChange, FinishRecording
  <1>9. CASE StartUndo
    BY <1>9, UndoCall DEF StartUndo
  <1>10. CASE RestoreFile
    BY <1>10, CallGoesOn, RunningCall DEF RestoreFile, FileTypeOK
  <1>11. CASE UndoFails \/ ReconcileGivesUp \/ Return
    BY <1>11 DEF UndoFails, ReconcileGivesUp, Return
  <1>12. CASE RestoreReadState
    BY <1>12, CallGoesOn, RunningCall DEF RestoreReadState, FileTypeOK
  <1>13. CASE DiscardUndone
    BY <1>13, DiscardingCall DEF DiscardUndone
  <1>14. CASE AlreadyDiscarded \/ FinishDiscard \/ ReconcileRestored
    BY <1>14, CallGoesOn DEF AlreadyDiscarded, FinishDiscard, ReconcileRestored
  <1>15. CASE Interrupt
    <2>1. ~unlogged[p] /\ UNCHANGED <<readHash, disk>>
      BY <1>15, RunningCall DEF Interrupt, FileTypeOK
    <2>2. CASE call' = Idle
      <3>1. call.path = p => ~Unfinished
        BY <1>15, <2>2, RunningCall, InterruptKeepsTrack
      <3>2. readHash[p] = NoHash \/ readHash[p] = disk[p]
        BY <1>15, <2>1, <3>1, RunningCall, AbsentAssumption DEF Interrupt, Unfinished
      <3> QED BY <2>1, <2>2, <3>2
    <2>3. CASE call' # Idle
      BY <1>15, <2>1, <2>3, InterruptedCall
    <2> QED BY <2>2, <2>3
  <1>16. ASSUME NEW path \in Paths, NEW state \in DiskStates, OutsideChange(path, state)
         PROVE  Goal
    <2>1. p # path BY <1>16 DEF OutsideChange, FileTypeOK
    <2> QED BY <1>16, <2>1, RacedCall DEF OutsideChange, FileTypeOK
  <1>17. CASE ResetReadState \/ NewSession
    BY <1>17 DEF ResetReadState, NewSession
  <1> QED
    BY <1>1, <1>2, <1>3, <1>4, <1>5, <1>6, <1>7, <1>8, <1>9, <1>10, <1>11, <1>12, <1>13,
       <1>14, <1>15, <1>16, <1>17
    DEF FileNext, ToolStep

-----------------------------------------------------------------------------
(* The records of a path nobody else touched link up *)

(* A step that leaves the stack alone, and what its records should have left *)
LEMMA HistoryKept ==
  ASSUME HistoryInCall, UNCHANGED records,
         \A path \in Paths :
           ~unlogged'[path] => ~unlogged[path] /\ Recorded(path)' = Recorded(path)
  PROVE  HistoryInCall'
  BY DEF HistoryInCall, LatestOf, Linked

(* Appending the change of the running call *)
LEMMA HistoryAppended ==
  ASSUME FileTypeOK, RacesUnlogged, UndoneOnTop, DiskInCall, HistoryInCall, RecordChange,
         AppendChange(Change), GoTo("recording")
  PROVE  HistoryInCall'
  <1> DEFINE n == Len(records)
  <1>1. /\ n \in Nat
        /\ DOMAIN records = 1..n
        /\ DOMAIN records' = 1..n + 1
        /\ \A i \in 1..n : records'[i] = records[i]
        /\ records'[n + 1] = Change
    BY ChangeIsRecord, RecordsOfPaths, AppendProperties, LenProperties
    DEF RecordChange, At, AppendChange, FileTypeOK, JournalTypeOK
  <1>2. /\ call # Idle /\ call.tool \in Writing /\ call.pc = "hashed" /\ ~call.kept
        /\ call' # Idle /\ call'.pc = "recording" /\ call'.path = call.path /\ ~call'.kept
        /\ Change.path = call.path /\ Change.before = call.before /\ Change.after = call.after
        /\ UNCHANGED <<disk, unlogged>>
    BY CallGoesOn DEF RecordChange, At, Change, UndoneOnTop, Writing, Undoing
  <1>3. ASSUME NEW path \in Paths, ~unlogged'[path]
        PROVE  /\ \A i \in DOMAIN records' : LatestOf(path, i)' => records'[i].after = Recorded(path)'
               /\ Linked(path)'
    <2>1. ~unlogged[path] BY <1>2, <1>3
    <2>2. \A i \in DOMAIN records : LatestOf(path, i) => records[i].after = Recorded(path)
      BY <2>1 DEF HistoryInCall
    <2>3. \A i, j \in DOMAIN records :
            (/\ i < j /\ records[i].path = path /\ records[j].path = path
             /\ \A k \in i + 1..j - 1 : records[k].path # path)
              => records[j].before = records[i].after
      BY <2>1 DEF HistoryInCall, Linked
    <2>4. path = call.path => Recorded(path) = call.before /\ Recorded(path)' = call.after
      BY <1>2, <2>1 DEF Recorded, Active, RacesUnlogged, DiskInCall, Writing
    <2>5. path # call.path => Recorded(path)' = Recorded(path)
      BY <1>2 DEF Recorded, Active
    <2> HIDE DEF n
    <2>6. ASSUME NEW i \in DOMAIN records', LatestOf(path, i)'
          PROVE  records'[i].after = Recorded(path)'
      <3>1. i \in 1..n + 1 /\ records'[i].path = path
            /\ \A j \in 1..n + 1 : j > i => records'[j].path # path
        BY <1>1, <2>6 DEF LatestOf
      <3>2. CASE i = n + 1
        BY <1>1, <1>2, <2>4, <3>1, <3>2
      <3>3. CASE i # n + 1
        <4>1. i \in 1..n /\ n + 1 > i /\ n + 1 \in 1..n + 1 BY <1>1, <3>1, <3>3
        <4>2. path # call.path BY <1>1, <1>2, <3>1, <4>1
        <4>3. LatestOf(path, i) BY <1>1, <3>1, <4>1 DEF LatestOf
        <4> QED BY <1>1, <2>2, <2>5, <4>1, <4>2, <4>3
      <3> QED BY <3>2, <3>3
    <2>7. ASSUME NEW i \in DOMAIN records', NEW j \in DOMAIN records', i < j,
                 records'[i].path = path, records'[j].path = path,
                 \A k \in i + 1..j - 1 : records'[k].path # path
          PROVE  records'[j].before = records'[i].after
      <3>1. i \in 1..n /\ j \in 1..n + 1 BY <1>1, <2>7
      <3>2. CASE j = n + 1
        <4>1. LatestOf(path, i) BY <1>1, <2>7, <3>1, <3>2 DEF LatestOf
        <4> QED BY <1>1, <1>2, <2>2, <2>4, <2>7, <3>1, <3>2, <4>1
      <3>3. CASE j # n + 1
        <4>1. j \in 1..n BY <1>1, <3>1, <3>3
        <4>2. \A k \in i + 1..j - 1 : k \in 1..n BY <1>1, <3>1, <4>1
        <4> QED BY <1>1, <2>3, <2>7, <3>1, <4>1, <4>2
      <3> QED BY <3>2, <3>3
    <2> QED BY <2>6, <2>7 DEF Linked
  <1> QED BY <1>3 DEF HistoryInCall

(* Evicting the oldest record *)
LEMMA HistoryEvicted ==
  ASSUME FileTypeOK, HistoryInCall, FinishRecording, EvictOldest
  PROVE  HistoryInCall'
  <1> DEFINE n == Len(records)
  <1>1. /\ n \in Nat /\ n > 0
        /\ DOMAIN records = 1..n
        /\ DOMAIN records' = 1..n - 1
        /\ \A i \in 1..n - 1 : records'[i] = records[i + 1]
    BY RecordsOfPaths, HeadTailProperties, LenProperties, EmptySeq
    DEF EvictOldest, FileTypeOK, JournalTypeOK
  <1>2. UNCHANGED <<disk, unlogged, call>>
    BY DEF FinishRecording, EvictOldest, FinishRecord, EvictFromNothing
  <1> HIDE DEF n
  <1>3. ASSUME NEW path \in Paths, ~unlogged'[path]
        PROVE  /\ \A i \in DOMAIN records' : LatestOf(path, i)' => records'[i].after = Recorded(path)'
               /\ Linked(path)'
    <2>1. ~unlogged[path] BY <1>2, <1>3
    <2>2. \A i \in DOMAIN records : LatestOf(path, i) => records[i].after = Recorded(path)
      BY <2>1 DEF HistoryInCall
    <2>3. Linked(path)
      BY <2>1 DEF HistoryInCall
    <2>4. Recorded(path)' = Recorded(path)
      BY <1>2 DEF Recorded, Active
    <2>5. ASSUME NEW i \in DOMAIN records', LatestOf(path, i)'
          PROVE  records'[i].after = Recorded(path)'
      <3>1. i \in 1..n - 1 /\ i + 1 \in 1..n BY <1>1
      <3>2. records[i + 1].path = path BY <1>1, <2>5, <3>1 DEF LatestOf
      <3>3. ASSUME NEW j \in 1..n, j > i + 1
            PROVE  records[j].path # path
        <4>1. j - 1 \in 1..n - 1 /\ j - 1 > i /\ (j - 1) + 1 = j BY <1>1, <3>1, <3>3
        <4> QED BY <1>1, <2>5, <4>1 DEF LatestOf
      <3>4. LatestOf(path, i + 1) BY <1>1, <3>1, <3>2, <3>3 DEF LatestOf
      <3> QED BY <1>1, <2>2, <2>4, <3>1, <3>4
    <2>6. ASSUME NEW i \in DOMAIN records', NEW j \in DOMAIN records', i < j,
                 records'[i].path = path, records'[j].path = path,
                 \A k \in i + 1..j - 1 : records'[k].path # path
          PROVE  records'[j].before = records'[i].after
      <3>1. i \in 1..n - 1 /\ j \in 1..n - 1 /\ i + 1 \in 1..n /\ j + 1 \in 1..n /\ i + 1 < j + 1
        BY <1>1, <2>6
      <3>2. ASSUME NEW k \in (i + 1) + 1..(j + 1) - 1
            PROVE  records[k].path # path
        <4>1. k - 1 \in i + 1..j - 1 /\ k - 1 \in 1..n - 1 /\ (k - 1) + 1 = k BY <1>1, <3>1
        <4> QED BY <1>1, <2>6, <4>1
      <3> QED BY <1>1, <2>3, <2>6, <3>1, <3>2 DEF Linked
    <2> QED BY <2>5, <2>6 DEF Linked
  <1> QED BY <1>3 DEF HistoryInCall

(* Discarding the record just undone *)
LEMMA HistoryDiscarded ==
  ASSUME FileTypeOK, RacesUnlogged, UndoneOnTop, DiskInCall, HistoryInCall, DiscardUndone
  PROVE  HistoryInCall'
  <1> DEFINE n == Len(records)
  <1>1. /\ n \in Nat /\ n > 0
        /\ DOMAIN records = 1..n
        /\ DOMAIN records' = 1..n - 1
        /\ \A i \in 1..n - 1 : records'[i] = records[i]
        /\ records[n] = Change
    BY RecordsOfPaths, TopIsRecord, WithoutTop, LenProperties
    DEF DiscardUndone, DiscardTop, FileTypeOK, JournalTypeOK, UndoneOnTop, At, Top
  <1>2. /\ call # Idle /\ call.tool \in Undoing /\ call.pc = "hashed"
        /\ call' # Idle /\ call'.tool = call.tool /\ call'.pc = "recording"
        /\ call'.path = call.path /\ ~call'.kept
        /\ Change.path = call.path /\ Change.before = call.before
        /\ UNCHANGED <<disk, unlogged>>
    BY DiscardingCall DEF DiscardUndone, At, Change
  <1>3. ASSUME NEW path \in Paths, ~unlogged'[path]
        PROVE  /\ \A i \in DOMAIN records' : LatestOf(path, i)' => records'[i].after = Recorded(path)'
               /\ Linked(path)'
    <2>1. ~unlogged[path] BY <1>2, <1>3
    <2>2. \A i \in DOMAIN records : LatestOf(path, i) => records[i].after = Recorded(path)
      BY <2>1 DEF HistoryInCall
    <2>3. Linked(path)
      BY <2>1 DEF HistoryInCall
    <2>4. path = call.path => Recorded(path)' = call.before
      BY <1>2, <2>1 DEF Recorded, Active, RacesUnlogged, DiskInCall, Writing, Undoing
    <2>5. path # call.path => Recorded(path)' = Recorded(path)
      BY <1>2 DEF Recorded, Active
    <2> HIDE DEF n
    <2>6. ASSUME NEW i \in DOMAIN records', LatestOf(path, i)'
          PROVE  records'[i].after = Recorded(path)'
      <3>1. /\ i \in 1..n - 1 /\ i \in 1..n /\ n \in 1..n /\ i < n
            /\ records[i].path = path
            /\ \A j \in 1..n - 1 : j > i => records[j].path # path
        BY <1>1, <2>6 DEF LatestOf
      <3>2. CASE path = call.path
        <4>1. \A k \in i + 1..n - 1 : records[k].path # path
          BY <1>1, <3>1
        <4>2. records[n].before = records[i].after
          BY <1>1, <1>2, <2>3, <3>1, <3>2, <4>1 DEF Linked
        <4> QED BY <1>1, <1>2, <2>4, <3>1, <3>2, <4>2
      <3>3. CASE path # call.path
        <4>1. \A j \in 1..n : j > i => records[j].path # path
          BY <1>1, <1>2, <3>1, <3>3
        <4>2. LatestOf(path, i) BY <1>1, <3>1, <4>1 DEF LatestOf
        <4> QED BY <1>1, <2>2, <2>5, <3>1, <3>3, <4>2
      <3> QED BY <3>2, <3>3
    <2>7. ASSUME NEW i \in DOMAIN records', NEW j \in DOMAIN records', i < j,
                 records'[i].path = path, records'[j].path = path,
                 \A k \in i + 1..j - 1 : records'[k].path # path
          PROVE  records'[j].before = records'[i].after
      <3>1. i \in 1..n - 1 /\ j \in 1..n - 1 /\ i \in 1..n /\ j \in 1..n BY <1>1
      <3>2. \A k \in i + 1..j - 1 : k \in 1..n - 1 BY <1>1, <3>1
      <3> QED BY <1>1, <2>3, <2>7, <3>1, <3>2 DEF Linked
    <2> QED BY <2>6, <2>7 DEF Linked
  <1> QED BY <1>3 DEF HistoryInCall

LEMMA HistoryInCallStep ==
  ASSUME FileTypeOK, JournalInCall, UndoneOnTop, RacesUnlogged, DiskInCall, HistoryInCall,
         [FileNext]_vars
  PROVE  HistoryInCall'
  <1> DEFINE Kept == /\ UNCHANGED records
                     /\ \A path \in Paths : ~unlogged'[path] =>
                          ~unlogged[path] /\ Recorded(path)' = Recorded(path)
  <1>0. Kept => HistoryInCall'
    BY HistoryKept
  <1> USE DEF Recorded, Active, At, Writing, Undoing, UndoneOnTop, RacesUnlogged, DiskInCall,
              JournalUnchanged, journalVars
  <1>1. CASE UNCHANGED vars
    <2>1. Kept BY <1>1 DEF vars
    <2> QED BY <1>0, <2>1
  <1>2. ASSUME NEW path \in Paths, ReadWhole(path)
        PROVE  HistoryInCall'
    <2>1. Kept BY <1>2, ReadCall DEF ReadWhole
    <2> QED BY <1>0, <2>1
  <1>3. ASSUME NEW path \in Paths, NEW content \in Text,
               StartWrite(path, content) \/ StartEdit(path, content)
        PROVE  HistoryInCall'
    <2>1. Kept BY <1>3, ComposedCall DEF StartWrite, StartEdit, Compose
    <2> QED BY <1>0, <2>1
  <1>4. CASE Overwrite
    <2>1. Kept BY <1>4, CallGoesOn DEF Overwrite, FileTypeOK
    <2> QED BY <1>0, <2>1
  <1>5. CASE Create
    <2>1. Kept BY <1>5, CallGoesOn DEF Create, FileTypeOK
    <2> QED BY <1>0, <2>1
  <1>6. CASE FillCreated
    <2>1. Kept BY <1>6, CallGoesOn DEF FillCreated, FileTypeOK
    <2> QED BY <1>0, <2>1
  <1>7. CASE ChangeFails
    <2>1. Kept BY <1>7, RunningCall DEF ChangeFails, FileTypeOK
    <2> QED BY <1>0, <2>1
  <1>8. CASE NoteHash \/ Return \/ ResetReadState
    <2>1. Kept BY <1>8, CallGoesOn DEF NoteHash, Return, ResetReadState
    <2> QED BY <1>0, <2>1
  <1>9. CASE RecordChange
    <2>1. CASE AppendChange(Change) /\ GoTo("recording")
      BY <1>9, <2>1, HistoryAppended
    <2>2. CASE call.before = call.after /\ GoTo("done") /\ JournalUnchanged
      <3>1. Kept BY <1>9, <2>2, CallGoesOn DEF RecordChange
      <3> QED BY <1>0, <3>1
    <2> QED BY <1>9, <2>1, <2>2 DEF RecordChange
  <1>10. CASE FinishRecording
    <2>1. CASE EvictOldest
      BY <1>10, <2>1, HistoryEvicted
    <2>2. CASE ~EvictOldest
      <3>1. Kept BY <1>10, <2>2, CallGoesOn
        DEF FinishRecording, CountAppended, CountEvicted, FinishRecord, EvictFromNothing
      <3> QED BY <1>0, <3>1
    <2> QED BY <2>1, <2>2
  <1>11. CASE StartUndo
    <2>1. Kept BY <1>11, UndoCall DEF StartUndo
    <2> QED BY <1>0, <2>1
  <1>12. CASE RestoreFile
    <2>1. Kept BY <1>12, CallGoesOn DEF RestoreFile, FileTypeOK
    <2> QED BY <1>0, <2>1
  <1>13. CASE UndoFails \/ ReconcileGivesUp
    <2>1. Kept BY <1>13 DEF UndoFails, ReconcileGivesUp
    <2> QED BY <1>0, <2>1
  <1>14. CASE RestoreReadState \/ AlreadyDiscarded \/ ReconcileRestored
    <2>1. Kept BY <1>14, CallGoesOn DEF RestoreReadState, AlreadyDiscarded, ReconcileRestored
    <2> QED BY <1>0, <2>1
  <1>15. CASE DiscardUndone
    BY <1>15, HistoryDiscarded
  <1>16. CASE FinishDiscard
    <2>1. Kept BY <1>16, CallGoesOn DEF FinishDiscard, CountDiscarded
    <2> QED BY <1>0, <2>1
  <1>17. CASE Interrupt
    <2>1. UNCHANGED <<records, disk>> BY <1>17 DEF Interrupt, TearJournal
    <2>2. CASE call' = Idle
      <3>1. ASSUME NEW path \in Paths, ~unlogged'[path]
            PROVE  ~unlogged[path] /\ Recorded(path)' = Recorded(path)
        <4>1. ~unlogged[path] BY <1>17, <3>1, RunningCall DEF Interrupt, FileTypeOK
        <4>2. call.path = path => ~Unfinished
          BY <1>17, <2>2, <3>1, RunningCall, InterruptKeepsTrack
        <4>3. Recorded(path) = disk[path]
          BY <1>17, <4>1, <4>2, RunningCall, AbsentAssumption DEF Interrupt, Unfinished
        <4> QED BY <2>1, <2>2, <4>1, <4>3
      <3> QED BY <1>0, <2>1, <3>1
    <2>3. CASE call' # Idle
      <3>1. Kept BY <1>17, <2>1, <2>3, InterruptedCall DEF Interrupt
      <3> QED BY <1>0, <3>1
    <2> QED BY <2>2, <2>3
  <1>18. ASSUME NEW path \in Paths, NEW state \in DiskStates, OutsideChange(path, state)
         PROVE  HistoryInCall'
    <2>1. Kept BY <1>18, RacedCall DEF OutsideChange, FileTypeOK
    <2> QED BY <1>0, <2>1
  <1>19. CASE NewSession
    BY <1>19, EmptySeq DEF NewSession, ClearJournal, HistoryInCall, LatestOf, Linked
  <1> QED
    BY <1>1, <1>2, <1>3, <1>4, <1>5, <1>6, <1>7, <1>8, <1>9, <1>10, <1>11, <1>12, <1>13,
       <1>14, <1>15, <1>16, <1>17, <1>18, <1>19
    DEF FileNext, ToolStep

-----------------------------------------------------------------------------
(* The inductive invariant and what follows from it *)

LEMMA FileInvariantInit ==
  ASSUME FileInit
  PROVE  FileInvariant
  <1>1. records = <<>> /\ DOMAIN records = {}
    BY EmptySeq DEF FileInit, JournalInit
  <1> QED
    BY <1>1, FileTypeInit
    DEF FileInit, JournalInit, FileInvariant, JournalInCall, UndoneOnTop, ContentsKnown,
        RacesUnlogged, DiskInCall, HashInCall, HistoryInCall, LatestOf, Linked

LEMMA FileInvariantStep ==
  ASSUME FileInvariant, [FileNext]_vars
  PROVE  FileInvariant'
  BY FileTypeStep, JournalInCallStep, UndoneOnTopStep, RacesUnloggedStep, DiskInCallStep,
     ContentsKnownStep, HashInCallStep, HistoryInCallStep
  DEF FileInvariant

(* Between any two statements of any call, wherever a Ctrl-C or an outside   *)
(* change falls, the file, its hash, the call and the undo stack agree as    *)
(* FileInvariant says.                                                       *)
THEOREM FileInvariantHolds == FileSpec => []FileInvariant
  <1>1. FileInit => FileInvariant BY FileInvariantInit
  <1>2. FileInvariant /\ [FileNext]_vars => FileInvariant' BY FileInvariantStep
  <1> QED BY <1>1, <1>2, PTL DEF FileSpec

(* After its own calls the agent never meets STALE_FILE: between calls, the  *)
(* read state of a path that nothing else touched is empty or what the file  *)
(* holds, after any number of reads, writes, edits and undos.                *)
THEOREM ReadStateNeverStale == FileSpec => []OwnChangesNeverStale
  <1>1. FileInvariant => OwnChangesNeverStale
    BY DEF FileInvariant, HashInCall, OwnChangesNeverStale
  <1> QED BY <1>1, FileInvariantHolds, PTL

(* The undo history of a path that nothing else touched is unbroken: every   *)
(* record starts from what the record before it left, and the file holds     *)
(* what the latest one left, across eviction, undo and cut-short calls.      *)
THEOREM HistoryIsUnbroken == FileSpec => []HistoryLinksUp
  <1>1. ASSUME FileInvariant PROVE HistoryLinksUp
    <2>1. ASSUME NEW path \in Paths, ~unlogged[path], call = Idle
          PROVE  Recorded(path) = disk[path]
      BY <2>1 DEF Recorded, Active
    <2> QED BY <1>1, <2>1 DEF FileInvariant, HistoryInCall, HistoryLinksUp
  <1> QED BY <1>1, FileInvariantHolds, PTL

(* An undo that reports success left its file as it was before the change,   *)
(* and its record gone, also when a Ctrl-C turned it into a reconciliation.  *)
THEOREM SuccessfulUndoIsHonest == FileSpec => []UndoIsHonest
  <1>1. FileInvariant => UndoIsHonest
    BY DEF FileInvariant, UndoneOnTop, DiskInCall, UndoIsHonest, At, Active, Undoing
  <1> QED BY <1>1, FileInvariantHolds, PTL

-----------------------------------------------------------------------------
(* What a step of the tools may never do *)

(* What a step of the tools does to the files *)
LEMMA ToolStepOnDisk ==
  ASSUME FileTypeOK, ToolStep, NEW path \in Paths, disk'[path] # disk[path]
  PROVE  /\ call # Idle
         /\ call.path = path
         /\ \/ call.tool \in Writing /\ call.pc = "checked" /\ call.before # Absent
            \/ call.tool = "write" /\ call.pc = "checked" /\ disk[path] = Absent
            \/ call.tool = "write" /\ call.pc = "created"
            \/ call.tool = "undo" /\ call.pc = "checked"
  <1> USE DEF At, Writing, FileTypeOK
  <1>1. CASE Overwrite
    BY <1>1, RunningCall DEF Overwrite
  <1>2. CASE Create \/ FillCreated
    BY <1>2, RunningCall DEF Create, FillCreated
  <1>3. CASE RestoreFile
    BY <1>3, RunningCall DEF RestoreFile
  <1>4. CASE UNCHANGED disk
    BY <1>4
  <1>5. Overwrite \/ Create \/ FillCreated \/ RestoreFile \/ UNCHANGED disk
    BY DEF ToolStep, ReadWhole, StartWrite, StartEdit, Compose, ChangeFails, NoteHash,
           RecordChange, FinishRecording, StartUndo, UndoFails, RestoreReadState,
           DiscardUndone, AlreadyDiscarded, FinishDiscard, ReconcileRestored,
           ReconcileGivesUp, Return
  <1> QED BY <1>1, <1>2, <1>3, <1>4, <1>5

(* The agent never destroys content it does not know: what a step of a tool  *)
(* overwrites or removes was read completely or composed in this session, or *)
(* appeared after the call had checked the file.                             *)
THEOREM NothingForeignIsLost == FileSpec => NoForeignLoss
  <1> DEFINE Loss ==
        \A path \in Paths :
          (ToolStep /\ disk'[path] # disk[path] /\ disk[path] \in Contents /\ ~call.raced)
            => disk[path] \in known[path] \/ call.pc = "created"
  <1>1. ASSUME FileInvariant, [FileNext]_vars PROVE [Loss]_vars
    <2>1. ASSUME NEW path \in Paths, ToolStep, disk'[path] # disk[path],
                 disk[path] \in Contents, ~call.raced, call.pc # "created"
          PROVE  disk[path] \in known[path]
      BY <1>1, <2>1, ToolStepOnDisk, RunningCall, AbsentAssumption
      DEF FileInvariant, ContentsKnown, Known, DiskInCall, Active, Writing
    <2> QED BY <2>1
  <1> QED BY <1>1, FileInvariantHolds, PTL DEF FileSpec, NoForeignLoss

(* Creating a file never replaces one, even one that appeared after the tool *)
(* had looked.                                                               *)
THEOREM CreationIsExclusive == FileSpec => CreateIsExclusive
  <1> DEFINE Exclusive ==
        \A path \in Paths :
          (ToolStep /\ disk'[path] # disk[path] /\ call.tool = "write"
             /\ call.before = Absent /\ call.pc = "checked")
            => disk[path] = Absent
  <1>1. ASSUME FileInvariant, [FileNext]_vars PROVE [Exclusive]_vars
    BY <1>1, ToolStepOnDisk DEF FileInvariant
  <1> QED BY <1>1, FileInvariantHolds, PTL DEF FileSpec, CreateIsExclusive

(* discard never meets another record than the one undone, and its file was  *)
(* seen restored: discard's RuntimeError is unreachable.                     *)
THEOREM OnlyTheUndoneIsDiscarded == FileSpec => DiscardsWhatItUndid
  <1> DEFINE Undone ==
        (ToolStep /\ Len(records') < Len(records) /\ jpc' = "discarded") =>
          /\ Top = Change
          /\ call.raced \/ disk[call.path] = call.before
  <1>1. ASSUME FileInvariant, [FileNext]_vars PROVE [Undone]_vars
    <2>1. ASSUME ToolStep, Len(records') < Len(records), jpc' = "discarded"
          PROVE  DiscardUndone
      <3>1. records' # records
        BY <1>1, <2>1, RecordsOfPaths DEF FileInvariant
      <3> QED
        BY <2>1, <3>1
        DEF ToolStep, ReadWhole, StartWrite, StartEdit, Compose, Overwrite, Create, FillCreated,
            ChangeFails, NoteHash, RecordChange, AppendChange, FinishRecording, CountAppended,
            EvictOldest, CountEvicted, FinishRecord, EvictFromNothing, StartUndo, RestoreFile,
            UndoFails, RestoreReadState, AlreadyDiscarded, FinishDiscard, CountDiscarded,
            ReconcileRestored, ReconcileGivesUp, Return, JournalUnchanged, journalVars
    <2>2. ASSUME DiscardUndone
          PROVE  Top = Change /\ (call.raced \/ disk[call.path] = call.before)
      BY <1>1, <2>2
      DEF FileInvariant, UndoneOnTop, DiskInCall, DiscardUndone, At, Active, Undoing
    <2> QED BY <2>1, <2>2
  <1> QED BY <1>1, FileInvariantHolds, PTL DEF FileSpec, DiscardsWhatItUndid

(* Under the file tools too the stack is over MAX_JOURNAL_ENTRIES by at most *)
(* one record for each journal call a Ctrl-C cut short since the last /new.  *)
THEOREM OverrunIsBoundedInUse == FileSpec => []OverrunBounded
  <1>1. FileInit => DepthInvariant
    BY EmptySeq, LimitAssumption DEF FileInit, JournalInit, DepthInvariant, Depth
  <1>2. FileInvariant /\ DepthInvariant /\ [FileNext]_vars => DepthInvariant'
    BY FileStepIsJournalStep, DepthStep DEF FileInvariant, FileTypeOK
  <1>3. FileInvariant /\ DepthInvariant => OverrunBounded
    BY DepthBounds DEF FileInvariant, FileTypeOK
  <1> QED BY <1>1, <1>2, <1>3, FileInvariantHolds, PTL DEF FileSpec

(* Beneath the file tools too the counter stays exact, and the undo stack    *)
(* is the promised one                                                       *)
THEOREM CounterIsExactInUse == FileSpec => []CounterExact
  <1>1. FileInit => CounterExact
    BY CounterInit DEF FileInit
  <1>2. FileInvariant /\ CounterExact /\ [FileNext]_vars => CounterExact'
    BY FileStepIsJournalStep, CounterStep DEF FileInvariant, FileTypeOK
  <1> QED BY <1>1, <1>2, FileInvariantHolds, PTL DEF FileSpec

THEOREM StackIsImplementedInUse == FileSpec => ImplementsBoundedStack
  <1>1. FileInit => Promised!Init
    BY PromisedInit DEF FileInit
  <1>2. FileInvariant /\ CounterExact /\ [FileNext]_vars => [tears' > 0 \/ Promised!Next]_Shown
    BY FileStepIsJournalStep, JournalRefines DEF FileInvariant, FileTypeOK
  <1> QED BY <1>1, <1>2, FileInvariantHolds, CounterIsExactInUse, PTL
          DEF FileSpec, ImplementsBoundedStack
=============================================================================
