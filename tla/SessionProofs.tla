---------------------------- MODULE SessionProofs ----------------------------
(***************************************************************************)
(* Theorems about Session for any files and any bounds: what the queue of  *)
(* undo events, the read state and the announcements keep through every    *)
(* command, refusal and Ctrl-C.                                            *)
(***************************************************************************)
EXTENDS Session, SequenceTheorems, TLAPS

-----------------------------------------------------------------------------
LEMMA ConsIsSeq ==
  ASSUME NEW S, NEW e \in S, NEW s \in Seq(S)
  PROVE  <<e>> \o s \in Seq(S)
  OBVIOUS

(* s is t with some elements left out *)
Within(s, t) ==
  \E place \in [DOMAIN s -> DOMAIN t] :
    /\ \A k \in DOMAIN s : t[place[k]] = s[k]
    /\ \A j, k \in DOMAIN s : j < k => place[j] < place[k]

LEMMA WithinItself ==
  ASSUME NEW S, NEW s \in Seq(S)
  PROVE  Within(s, s)
  <1> DEFINE place == [k \in DOMAIN s |-> k]
  <1>1. place \in [DOMAIN s -> DOMAIN s] OBVIOUS
  <1> QED BY <1>1 DEF Within

(* The first element left out as well *)
LEMMA WithinTail ==
  ASSUME NEW S, NEW s \in Seq(S), NEW t \in Seq(S), NEW e \in S, Within(<<e>> \o s, t)
  PROVE  Within(s, t) /\ t # <<>>
  <1> DEFINE es == <<e>> \o s
  <1>1. es \in Seq(S) /\ Len(es) = Len(s) + 1 /\ \A k \in 1..Len(s) : es[k + 1] = s[k]
    OBVIOUS
  <1>2. PICK p \in [DOMAIN es -> DOMAIN t] :
          /\ \A k \in DOMAIN es : t[p[k]] = es[k]
          /\ \A j, k \in DOMAIN es : j < k => p[j] < p[k]
    BY DEF Within
  <1> DEFINE q == [k \in DOMAIN s |-> p[k + 1]]
  <1>3. \A k \in DOMAIN s : k \in 1..Len(s) /\ k + 1 \in DOMAIN es
    BY <1>1
  <1>4. q \in [DOMAIN s -> DOMAIN t] BY <1>2, <1>3
  <1>5. \A k \in DOMAIN s : t[q[k]] = s[k] BY <1>1, <1>2, <1>3
  <1>6. \A j, k \in DOMAIN s : j < k => q[j] < q[k] BY <1>2, <1>3
  <1>7. t # <<>>
    <2>1. 1 \in DOMAIN es BY <1>1
    <2>2. p[1] \in DOMAIN t BY <1>2, <2>1
    <2> QED BY <2>2
  <1> QED BY <1>4, <1>5, <1>6, <1>7 DEF Within

(* The same element in front of both *)
LEMMA WithinCons ==
  ASSUME NEW S, NEW s \in Seq(S), NEW t \in Seq(S), NEW e \in S, Within(s, t)
  PROVE  Within(<<e>> \o s, <<e>> \o t)
  <1> DEFINE es == <<e>> \o s
             et == <<e>> \o t
  <1>1. /\ es \in Seq(S) /\ Len(es) = Len(s) + 1 /\ es[1] = e
        /\ \A k \in 2..Len(es) : k - 1 \in DOMAIN s /\ es[k] = s[k - 1]
    OBVIOUS
  <1>2. /\ et \in Seq(S) /\ Len(et) = Len(t) + 1 /\ et[1] = e
        /\ \A k \in DOMAIN t : k \in Nat \ {0} /\ k + 1 \in DOMAIN et /\ et[k + 1] = t[k]
    OBVIOUS
  <1>3. PICK p \in [DOMAIN s -> DOMAIN t] :
          /\ \A k \in DOMAIN s : t[p[k]] = s[k]
          /\ \A j, k \in DOMAIN s : j < k => p[j] < p[k]
    BY DEF Within
  <1> DEFINE q == [k \in DOMAIN es |-> IF k = 1 THEN 1 ELSE p[k - 1] + 1]
  <1>4. \A k \in DOMAIN es : k = 1 \/ (k \in 2..Len(es) /\ p[k - 1] \in DOMAIN t)
    BY <1>1, <1>3
  <1>5. q \in [DOMAIN es -> DOMAIN et] BY <1>2, <1>4
  <1>6. \A k \in DOMAIN es : et[q[k]] = es[k] BY <1>1, <1>2, <1>3, <1>4
  <1>7. \A j, k \in DOMAIN es : j < k => q[j] < q[k]
    <2> SUFFICES ASSUME NEW j \in DOMAIN es, NEW k \in DOMAIN es, j < k PROVE q[j] < q[k]
      OBVIOUS
    <2>1. k # 1 /\ k \in 2..Len(es) /\ p[k - 1] \in DOMAIN t BY <1>1, <1>4
    <2>2. CASE j = 1 BY <1>2, <2>1, <2>2
    <2>3. CASE j # 1
      <3>1. j - 1 \in DOMAIN s /\ k - 1 \in DOMAIN s /\ j - 1 < k - 1 BY <1>1, <1>4, <2>1, <2>3
      <3>2. p[j - 1] < p[k - 1] /\ p[j - 1] \in Nat /\ p[k - 1] \in Nat BY <1>2, <1>3, <3>1
      <3> QED BY <2>1, <2>3, <3>2
    <2> QED BY <2>2, <2>3
  <1> QED BY <1>5, <1>6, <1>7 DEF Within

(* The element in front of both taken away *)
LEMMA WithinBehead ==
  ASSUME NEW S, NEW s \in Seq(S), NEW t \in Seq(S), NEW e \in S, t # <<>>,
         Within(<<e>> \o s, t)
  PROVE  Within(s, Tail(t))
  <1> DEFINE es == <<e>> \o s
  <1>1. es \in Seq(S) /\ Len(es) = Len(s) + 1 /\ \A k \in 1..Len(s) : es[k + 1] = s[k]
    OBVIOUS
  <1>2. Tail(t) \in Seq(S) /\ Len(Tail(t)) = Len(t) - 1
        /\ \A k \in 1..Len(t) : k # 1 => k - 1 \in DOMAIN Tail(t) /\ Tail(t)[k - 1] = t[k]
    OBVIOUS
  <1>3. PICK p \in [DOMAIN es -> DOMAIN t] :
          /\ \A k \in DOMAIN es : t[p[k]] = es[k]
          /\ \A j, k \in DOMAIN es : j < k => p[j] < p[k]
    BY DEF Within
  <1> DEFINE q == [k \in DOMAIN s |-> p[k + 1] - 1]
  <1>4. \A k \in DOMAIN s :
          /\ k \in 1..Len(s) /\ k + 1 \in DOMAIN es
          /\ p[k + 1] \in 1..Len(t) /\ p[k + 1] # 1
    <2> SUFFICES ASSUME NEW k \in DOMAIN s
                 PROVE  /\ k \in 1..Len(s) /\ k + 1 \in DOMAIN es
                        /\ p[k + 1] \in 1..Len(t) /\ p[k + 1] # 1
      OBVIOUS
    <2>1. k \in 1..Len(s) /\ 1 \in DOMAIN es /\ k + 1 \in DOMAIN es /\ 1 < k + 1 BY <1>1
    <2>2. p[1] < p[k + 1] /\ p[1] \in 1..Len(t) /\ p[k + 1] \in 1..Len(t) BY <1>3, <2>1
    <2> QED BY <2>1, <2>2
  <1>5. q \in [DOMAIN s -> DOMAIN Tail(t)] BY <1>2, <1>4
  <1>6. \A k \in DOMAIN s : Tail(t)[q[k]] = s[k] BY <1>1, <1>2, <1>3, <1>4
  <1>7. \A j, k \in DOMAIN s : j < k => q[j] < q[k]
    <2> SUFFICES ASSUME NEW j \in DOMAIN s, NEW k \in DOMAIN s, j < k PROVE q[j] < q[k]
      OBVIOUS
    <2>1. p[j + 1] < p[k + 1] BY <1>3, <1>4
    <2> QED BY <1>4, <2>1
  <1> QED BY <1>5, <1>6, <1>7 DEF Within

(* The same element at the end of both *)
LEMMA WithinAppend ==
  ASSUME NEW S, NEW s \in Seq(S), NEW t \in Seq(S), NEW e \in S, Within(s, t)
  PROVE  Within(Append(s, e), Append(t, e))
  <1> DEFINE se == Append(s, e)
             te == Append(t, e)
  <1>1. /\ se \in Seq(S) /\ Len(se) = Len(s) + 1 /\ se[Len(s) + 1] = e
        /\ \A k \in DOMAIN s : k \in 1..Len(s) /\ se[k] = s[k]
        /\ \A k \in DOMAIN se : k \in DOMAIN s \/ k = Len(s) + 1
    OBVIOUS
  <1>2. /\ te \in Seq(S) /\ Len(te) = Len(t) + 1 /\ te[Len(t) + 1] = e
        /\ \A k \in DOMAIN t : k \in 1..Len(t) /\ k \in DOMAIN te /\ te[k] = t[k]
        /\ Len(t) + 1 \in DOMAIN te
    OBVIOUS
  <1>3. PICK p \in [DOMAIN s -> DOMAIN t] :
          /\ \A k \in DOMAIN s : t[p[k]] = s[k]
          /\ \A j, k \in DOMAIN s : j < k => p[j] < p[k]
    BY DEF Within
  <1> DEFINE q == [k \in DOMAIN se |-> IF k = Len(s) + 1 THEN Len(t) + 1 ELSE p[k]]
  <1>4. q \in [DOMAIN se -> DOMAIN te] BY <1>1, <1>2, <1>3
  <1>5. \A k \in DOMAIN se : te[q[k]] = se[k] BY <1>1, <1>2, <1>3
  <1>6. \A j, k \in DOMAIN se : j < k => q[j] < q[k]
    <2> SUFFICES ASSUME NEW j \in DOMAIN se, NEW k \in DOMAIN se, j < k PROVE q[j] < q[k]
      OBVIOUS
    <2>1. j \in DOMAIN s /\ j # Len(s) + 1 /\ p[j] \in 1..Len(t) BY <1>1, <1>2, <1>3
    <2>2. CASE k = Len(s) + 1 BY <2>1, <2>2
    <2>3. CASE k # Len(s) + 1
      <3>1. k \in DOMAIN s BY <1>1, <2>3
      <3> QED BY <1>3, <2>1, <2>3, <3>1
    <2> QED BY <2>2, <2>3
  <1> QED BY <1>4, <1>5, <1>6 DEF Within

(* An element more in the longer one *)
LEMMA WithinLonger ==
  ASSUME NEW S, NEW s \in Seq(S), NEW t \in Seq(S), NEW e \in S, Within(Append(s, e), t)
  PROVE  Within(s, t)
  <1> DEFINE se == Append(s, e)
  <1>1. \A k \in DOMAIN s : k \in DOMAIN se /\ se[k] = s[k]
    OBVIOUS
  <1>2. PICK p \in [DOMAIN se -> DOMAIN t] :
          /\ \A k \in DOMAIN se : t[p[k]] = se[k]
          /\ \A j, k \in DOMAIN se : j < k => p[j] < p[k]
    BY DEF Within
  <1> DEFINE q == [k \in DOMAIN s |-> p[k]]
  <1>3. q \in [DOMAIN s -> DOMAIN t] BY <1>1, <1>2
  <1>4. \A k \in DOMAIN s : t[q[k]] = s[k] BY <1>1, <1>2
  <1>5. \A j, k \in DOMAIN s : j < k => q[j] < q[k] BY <1>1, <1>2
  <1> HIDE DEF q
  <1> QED BY <1>3, <1>4, <1>5, Zenon DEF Within

-----------------------------------------------------------------------------
(* The inductive invariant *)

(* Undos the session still owes the conversation: those on their way first *)
Owed ==
  IF at \in {"taken", "refused"} /\ event # None THEN <<event>> \o pending
  ELSE IF at = "restored" THEN Append(pending, event)
  ELSE pending

EventsOwed ==
  /\ Within(Owed, untold)
  /\ ~cut /\ at \notin {"failing", "ended"} => Owed = untold

(* An entry of an earlier conversation was put there by an undo, or a Ctrl-C *)
(* kept the reset away, or the reset is the next thing to happen             *)
Excused(path) == path \in undone \/ torn \/ at \in {"replaced", "failing", "ended"}

ReadsOwned == \A path \in Paths : reads[path] = "replaced" => Excused(path)

AskedFirst ==
  /\ at \in {"confirm new", "confirm exit"} => warned
  /\ at = "reset" /\ stack # <<>> => warned

SessionInv ==
  /\ SessionTypeOK
  /\ at = "restored" => event \in Paths
  /\ EventsOwed
  /\ ReadsOwned
  /\ AskedFirst

LEMMA NoRecords == <<>> \in Seq(UndoRecord)
  OBVIOUS

(* The stack, seen as a function *)
LEMMA StackIsSeq ==
  ASSUME SessionTypeOK
  PROVE  /\ stack \in Seq(UndoRecord) /\ Len(stack) \in Nat /\ DOMAIN stack = 1..Len(stack)
         /\ \A k \in 1..Len(stack) : stack[k] \in UndoRecord
  <1>1. stack \in Seq(UndoRecord)
    BY Zenon DEF SessionTypeOK
  <1> HIDE DEF UndoRecord
  <1> QED BY <1>1, LenProperties

LEMMA NothingWithinNothing == <<>> \in Seq(Paths) /\ Within(<<>>, <<>>)
  <1>1. <<>> \in Seq(Paths)
    OBVIOUS
  <1> QED BY <1>1, WithinItself

LEMMA SessionInitial == SessionInit => SessionInv
  <1> SUFFICES ASSUME SessionInit PROVE SessionInv
    OBVIOUS
  <1>0. reads \in [Paths -> Provenance]
    BY DEF SessionInit, Provenance
  <1>1. SessionTypeOK
    BY <1>0, NoRecords, NothingWithinNothing DEF SessionInit, SessionTypeOK
  <1>2. EventsOwed
    BY NothingWithinNothing DEF SessionInit, EventsOwed, Owed
  <1> QED BY <1>1, <1>2 DEF SessionInit, SessionInv, ReadsOwned, AskedFirst

(* An event on its way to the model is one the conversation does not know of *)
LEMMA TakenIsUntold ==
  ASSUME SessionInv, at = "taken", event # None
  PROVE  untold # <<>> /\ Within(pending, untold) /\ Within(<<event>> \o pending, untold)
  <1>1. Within(<<event>> \o pending, untold)
    BY DEF SessionInv, EventsOwed, Owed
  <1>2. event \in Paths /\ pending \in Seq(Paths) /\ untold \in Seq(Paths)
    BY DEF SessionInv, SessionTypeOK
  <1> QED BY <1>1, <1>2, WithinTail

(* A new record, with some of the oldest gone *)
LEMMA RecordedIsSeq ==
  ASSUME SessionTypeOK, NEW path \in Paths, NEW before \in Provenance, RecordChange(path, before)
  PROVE  stack' \in Seq(UndoRecord)
  <1>1. stack \in Seq(UndoRecord) /\ Len(stack) \in Nat
        /\ \A k \in 1..Len(stack) : stack[k] \in UndoRecord
    BY StackIsSeq
  <1>2. PICK evicted \in 0..Len(stack) :
          stack' = Append(SubSeq(stack, evicted + 1, Len(stack)), [path |-> path, before |-> before])
    BY DEF RecordChange
  <1>3. [path |-> path, before |-> before] \in UndoRecord
    BY DEF UndoRecord
  <1>4. \A k \in (evicted + 1)..Len(stack) : k \in 1..Len(stack) /\ stack[k] \in UndoRecord
    BY <1>1
  <1>5. SubSeq(stack, evicted + 1, Len(stack)) \in Seq(UndoRecord)
    BY <1>1, <1>4, SubSeqProperties
  <1> QED BY <1>2, <1>3, <1>5, AppendProperties

LEMMA WorkKeepsTypes ==
  ASSUME SessionTypeOK, Work
  PROVE  SessionTypeOK' /\ at' = at /\ event' = event
  <1>1. PICK path \in Paths :
          \/ NoteHash(path) /\ UNCHANGED stack
          \/ NoteHash(path) /\ (RecordChange(path, "none") \/ RecordChange(path, reads[path]))
          \/ reads[path] # "none" /\ RecordChange(path, reads[path]) /\ UNCHANGED readState
    BY Zenon DEF Work
  <1>2. "none" \in Provenance /\ reads[path] \in Provenance /\ stack \in Seq(UndoRecord)
    BY DEF SessionTypeOK, Provenance
  <1>3. stack' \in Seq(UndoRecord)
    BY <1>1, <1>2, RecordedIsSeq, Zenon
  <1>4. UNCHANGED <<at, session, talked, pending, event, untold, incomplete, warned, cut>>
    BY Zenon DEF Work, events
  <1>5. reads' \in [Paths -> Provenance] /\ undone' \in SUBSET Paths /\ torn' \in BOOLEAN
    <2> USE DEF SessionTypeOK, Provenance
    <2>1. CASE NoteHash(path)
      BY <2>1 DEF NoteHash
    <2>2. CASE UNCHANGED readState
      BY <2>2 DEF readState
    <2> QED BY <1>1, <2>1, <2>2
  <1> QED BY <1>3, <1>4, <1>5, Zenon DEF SessionTypeOK

(* A replacement changes only what the records say of the read *)
LEMMA ReplacementKeepsTypes ==
  ASSUME SessionTypeOK, ReplaceHistory
  PROVE  SessionTypeOK' /\ at' = "replaced"
  <1>1. \A provenance \in Provenance : Outdated(provenance) \in Provenance
    BY DEF Outdated, Provenance
  <1>2. reads' \in [Paths -> Provenance]
    BY <1>1 DEF ReplaceHistory, SessionTypeOK
  <1>3. stack' \in Seq(UndoRecord)
    <2>1. DOMAIN stack = 1..Len(stack) /\ Len(stack) \in Nat
          /\ \A k \in 1..Len(stack) : stack[k] \in UndoRecord
      BY StackIsSeq
    <2>2. ASSUME NEW record \in UndoRecord
          PROVE  [record EXCEPT !.before = Outdated(@)] \in UndoRecord
      <3>1. Outdated(record.before) \in Provenance
        BY <1>1 DEF UndoRecord
      <3> QED BY <3>1 DEF UndoRecord
    <2>3. stack' = [k \in 1..Len(stack) |-> [stack[k] EXCEPT !.before = Outdated(@)]]
      BY <2>1 DEF ReplaceHistory
    <2> HIDE DEF UndoRecord
    <2>4. stack' \in [1..Len(stack) -> UndoRecord]
      BY <2>1, <2>2, <2>3
    <2> QED BY <2>1, <2>4, SeqDef
  <1>4. /\ UNCHANGED <<session, talked, pending, event, untold, incomplete, warned, undone, torn, cut>>
        /\ at' = "replaced"
    BY DEF ReplaceHistory, events
  <1> QED BY <1>2, <1>3, <1>4, Zenon DEF SessionTypeOK

(* What an undo takes from the newest record *)
LEMMA RestoredTypes ==
  ASSUME SessionTypeOK, RestoreFile
  PROVE  /\ stack' \in Seq(UndoRecord) /\ event' \in Paths /\ untold' \in Seq(Paths)
         /\ reads' \in [Paths -> Provenance] /\ undone' \in SUBSET Paths
  <1>1. stack \in Seq(UndoRecord) /\ stack # <<>> /\ Len(stack) \in 1..Len(stack)
        /\ \A k \in 1..Len(stack) : stack[k] \in UndoRecord
    BY StackIsSeq DEF RestoreFile
  <1> DEFINE record == stack[Len(stack)]
  <1>2. record \in UndoRecord
    BY <1>1
  <1>3. record.path \in Paths /\ record.before \in Provenance
    BY <1>2 DEF UndoRecord
  <1>4. stack' = SubSeq(stack, 1, Len(stack) - 1)
    BY DEF RestoreFile
  <1>5. stack' \in Seq(UndoRecord)
    <2>1. \A k \in 1..(Len(stack) - 1) : k \in 1..Len(stack) /\ stack[k] \in UndoRecord
      BY <1>1
    <2> QED BY <1>1, <1>4, <2>1, SubSeqProperties
  <1>6. /\ reads' = [reads EXCEPT ![record.path] = record.before]
        /\ undone' = undone \cup {record.path} /\ event' = record.path
        /\ untold' = Append(untold, record.path)
    BY DEF RestoreFile
  <1>7. reads \in [Paths -> Provenance] /\ undone \in SUBSET Paths /\ untold \in Seq(Paths)
    BY Zenon DEF SessionTypeOK
  <1>8. Append(untold, record.path) \in Seq(Paths)
    BY <1>3, <1>7, AppendProperties
  <1> HIDE DEF record
  <1>9. reads' \in [Paths -> Provenance]
    BY <1>3, <1>6, <1>7
  <1> QED BY <1>3, <1>5, <1>6, <1>7, <1>8, <1>9

LEMMA TypesKept ==
  ASSUME SessionInv, SessionNext
  PROVE  SessionTypeOK' /\ (at' = "restored" => event' \in Paths)
  <1> USE DEF SessionInv, SessionTypeOK, readState
  <1>1. CASE Command
    BY <1>1 DEF Command, TypeTask, TypeUndo, TypeCompact, TypeNew, TypeExit, EndOfInput, events
  <1>2. CASE TakeEvent
    BY <1>2 DEF TakeEvent
  <1>3. CASE Ask
    BY <1>3, TakenIsUntold DEF Ask
  <1>4. CASE Work
    BY <1>4, WorkKeepsTypes, Zenon
  <1>5. CASE Refuse \/ Requeue
    <2>1. event # None => <<event>> \o untold \in Seq(Paths) /\ <<event>> \o pending \in Seq(Paths)
      BY ConsIsSeq
    <2> QED BY <1>5, <2>1 DEF Refuse, Requeue, Prompt
  <1>6. CASE RestoreFile
    <2> HIDE DEF SessionTypeOK
    <2>1. UNCHANGED <<session, talked, pending, incomplete, warned, torn, cut>> /\ at' = "restored"
      BY <1>6 DEF RestoreFile
    <2> QED BY <1>6, <2>1, RestoredTypes DEF SessionTypeOK
  <1>7. CASE QueueEvent
    BY <1>7 DEF QueueEvent, Prompt
  <1>8. CASE CreationFails \/ Finish \/ UndoRefused \/ CompactFails
    BY <1>8 DEF CreationFails, Finish, UndoRefused, CompactFails, Prompt, events
  <1>12. CASE ReplaceHistory
    BY <1>12, ReplacementKeepsTypes, Zenon
  <1>13. ForgetReads => reads' \in [Paths -> Provenance] /\ undone' = {} /\ torn' = FALSE
    BY DEF ForgetReads, Provenance
  <1>14. CASE ResetReadState
    BY <1>13, <1>14 DEF ResetReadState, Prompt
  <1>15. CASE Reset
    <2> QED BY <1>13, <1>15, NoRecords, NothingWithinNothing DEF Reset, Prompt
  <1>9. CASE ConfirmNew \/ ConfirmExit \/ Decline \/ Close
    BY <1>9, NothingWithinNothing DEF ConfirmNew, ConfirmExit, Decline, Close, Prompt, events
  <1>10. CASE InterruptTask \/ InterruptCommand \/ BreakOut
    BY <1>10 DEF InterruptTask, InterruptCommand, BreakOut, Prompt, events
  <1> QED BY <1>1, <1>2, <1>3, <1>4, <1>5, <1>6, <1>7, <1>8, <1>9, <1>10, <1>12, <1>14, <1>15
          DEF SessionNext, Progress

LEMMA ReadsStayOwned ==
  ASSUME SessionInv, SessionNext
  PROVE  ReadsOwned'
  <1>1. reads \in [Paths -> Provenance]
    BY DEF SessionInv, SessionTypeOK
  <1>2. ASSUME NEW path \in Paths, reads[path] = "replaced"
        PROVE  Excused(path)
    BY <1>2 DEF SessionInv, ReadsOwned
  <1> USE DEF ReadsOwned, Excused
  (* Steps that leave the read state alone and do not come from a place where *)
  (* an entry is excused                                                      *)
  <1>3. ASSUME UNCHANGED readState, at \in {"replaced", "failing", "ended"} =>
                 at' \in {"replaced", "failing", "ended"}
        PROVE  ReadsOwned'
    BY <1>2, <1>3 DEF readState
  <1>4. CASE Command
    BY <1>3, <1>4 DEF Command, TypeTask, TypeUndo, TypeCompact, TypeNew, TypeExit, EndOfInput
  <1>5. CASE CreationFails \/ TakeEvent \/ Ask \/ Refuse \/ Requeue \/ Finish
    BY <1>3, <1>5 DEF CreationFails, TakeEvent, Ask, Refuse, Requeue, Finish
  <1>6. CASE UndoRefused \/ QueueEvent \/ CompactFails \/ ConfirmNew \/ ConfirmExit \/ Decline \/ Close
    BY <1>3, <1>6 DEF UndoRefused, QueueEvent, CompactFails, ConfirmNew, ConfirmExit, Decline, Close
  <1>7. CASE Work
    <2>1. PICK path \in Paths : NoteHash(path) \/ UNCHANGED readState
      BY <1>7 DEF Work
    <2>2. at = "asked"
      BY <1>7 DEF Work
    <2>3. CASE NoteHash(path)
      BY <1>1, <1>2, <2>2, <2>3 DEF NoteHash
    <2> QED BY <1>3, <2>1, <2>2, <2>3
  <1>8. CASE RestoreFile
    <2> DEFINE record == stack[Len(stack)]
    <2>1. /\ reads' = [reads EXCEPT ![record.path] = record.before]
          /\ undone' = undone \cup {record.path} /\ torn' = torn /\ at = "undo"
      BY <1>8 DEF RestoreFile
    <2> HIDE DEF record
    <2> QED BY <1>1, <1>2, <2>1
  <1>9. CASE ReplaceHistory
    BY <1>9 DEF ReplaceHistory
  <1>10. CASE ResetReadState \/ Reset
    BY <1>10 DEF ResetReadState, Reset, ForgetReads
  <1>11. CASE InterruptTask \/ BreakOut
    BY <1>3, <1>11 DEF InterruptTask, BreakOut
  <1>12. CASE InterruptCommand
    <2>1. UNCHANGED <<reads, undone>> /\ torn' = (torn \/ at = "replaced")
          /\ at \notin {"failing", "ended"}
      BY <1>12 DEF InterruptCommand
    <2> QED BY <1>2, <2>1
  <1> QED BY <1>4, <1>5, <1>6, <1>7, <1>8, <1>9, <1>10, <1>11, <1>12 DEF SessionNext, Progress

LEMMA AskingComesFirst ==
  ASSUME SessionInv, SessionNext
  PROVE  AskedFirst'
  <1> USE DEF SessionInv, AskedFirst
  <1>1. CASE Command
    BY <1>1 DEF Command, TypeTask, TypeUndo, TypeCompact, TypeNew, TypeExit, EndOfInput
  <1>2. CASE CreationFails \/ TakeEvent \/ Ask \/ Refuse \/ Requeue \/ Finish
    BY <1>2 DEF CreationFails, TakeEvent, Ask, Refuse, Requeue, Finish, Prompt
  <1>3. CASE Work \/ RestoreFile \/ ReplaceHistory
    <2>1. at' \in {"asked", "restored", "replaced"}
      BY <1>3 DEF Work, RestoreFile, ReplaceHistory
    <2> QED BY <2>1
  <1>4. CASE UndoRefused \/ QueueEvent \/ CompactFails \/ ResetReadState \/ Reset
    BY <1>4 DEF UndoRefused, QueueEvent, CompactFails, ResetReadState, Reset, Prompt
  <1>5. CASE ConfirmNew \/ ConfirmExit \/ Decline \/ Close
    BY <1>5 DEF ConfirmNew, ConfirmExit, Decline, Close, Prompt
  <1>6. CASE InterruptTask \/ InterruptCommand \/ BreakOut
    BY <1>6 DEF InterruptTask, InterruptCommand, BreakOut, Prompt
  <1> QED BY <1>1, <1>2, <1>3, <1>4, <1>5, <1>6 DEF SessionNext, Progress

(* Steps that leave the events alone and do not come from or to a place *)
(* where one is on its way                                              *)
LEMMA EventsUntouched ==
  ASSUME SessionInv, UNCHANGED <<pending, untold>>, cut => cut',
         at \notin {"taken", "refused", "restored"}, at \notin {"failing", "ended"},
         at' \notin {"taken", "refused", "restored"}
  PROVE  EventsOwed'
  BY DEF SessionInv, EventsOwed, Owed

LEMMA EventsStayOwed ==
  ASSUME SessionInv, SessionNext
  PROVE  EventsOwed'
  <1>t. pending \in Seq(Paths) /\ untold \in Seq(Paths) /\ event \in Paths \cup {None}
        /\ (at = "restored" => event \in Paths) /\ None \notin Paths
    BY SessionAssumption DEF SessionInv, SessionTypeOK
  <1>e. Within(Owed, untold) /\ (~cut /\ at \notin {"failing", "ended"} => Owed = untold)
    BY DEF SessionInv, EventsOwed
  <1>1. CASE Command
    <2>1. UNCHANGED <<pending, untold>> /\ cut' = cut /\ at = "input"
          /\ at' \in {"task", "undo", "compact", "reset", "confirm new", "leaving", "confirm exit"}
      BY <1>1 DEF Command, TypeTask, TypeUndo, TypeCompact, TypeNew, TypeExit, EndOfInput, events
    <2> QED BY <2>1, EventsUntouched
  <1>2. CASE TakeEvent
    <2>1. Owed = pending /\ ~(at \in {"failing", "ended"}) /\ cut' = cut /\ untold' = untold
          /\ at' = "taken"
      BY <1>2 DEF TakeEvent, Owed
    <2>2. Owed' = pending
      <3>1. CASE pending = <<>>
        BY <1>2, <2>1, <3>1 DEF TakeEvent, Owed
      <3>2. CASE pending # <<>>
        <4>1. event' = Head(pending) /\ pending' = Tail(pending) /\ event' # None
          BY <1>2, <1>t, <3>2 DEF TakeEvent
        <4>2. <<Head(pending)>> \o Tail(pending) = pending
          BY <1>t, <3>2
        <4> QED BY <2>1, <4>1, <4>2 DEF Owed
      <3> QED BY <3>1, <3>2
    <2> QED BY <1>e, <2>1, <2>2 DEF EventsOwed
  <1>3. CASE Ask
    <2>1. Owed' = pending /\ UNCHANGED <<pending, cut, event>> /\ at = "taken"
      BY <1>3 DEF Ask, Owed
    <2>2. CASE event = None
      <3>1. Owed = pending /\ untold' = untold BY <1>3, <2>1, <2>2 DEF Ask, Owed
      <3> QED BY <1>e, <2>1, <3>1 DEF EventsOwed
    <2>3. CASE event # None
      <3>1. Owed = <<event>> \o pending /\ event \in Paths BY <1>t, <2>1, <2>3 DEF Owed
      <3>2. Within(pending, untold) /\ untold # <<>> BY <2>1, <2>3, TakenIsUntold
      <3>3. CASE event = Head(untold)
        <4>1. untold' = Tail(untold) BY <1>3, <2>3, <3>3 DEF Ask
        <4>2. Within(pending, Tail(untold)) BY <1>e, <1>t, <3>1, <3>2, WithinBehead
        <4>3. <<event>> \o pending = untold => pending = Tail(untold) BY <1>t, <3>1
        <4> QED BY <1>e, <2>1, <3>1, <4>1, <4>2, <4>3 DEF EventsOwed
      <3>4. CASE event # Head(untold)
        <4>1. untold' = untold BY <1>3, <3>4 DEF Ask
        <4>2. Head(<<event>> \o pending) = event BY <1>t, <3>1
        <4>3. cut BY <1>e, <2>1, <3>1, <3>4, <4>2
        <4> QED BY <2>1, <3>2, <4>1, <4>3 DEF EventsOwed
      <3> QED BY <3>3, <3>4
    <2> QED BY <2>2, <2>3
  <1>4. CASE Refuse
    <2>1. Owed = pending /\ UNCHANGED <<pending, cut, event>> /\ at = "asked" /\ at' = "refused"
      BY <1>4 DEF Refuse, Owed
    <2>2. CASE event = None
      <3>1. Owed' = pending /\ untold' = untold BY <1>4, <2>1, <2>2 DEF Refuse, Owed
      <3> QED BY <1>e, <2>1, <3>1 DEF EventsOwed
    <2>3. CASE event # None
      <3>1. Owed' = <<event>> \o pending /\ untold' = <<event>> \o untold /\ event \in Paths
        BY <1>4, <1>t, <2>1, <2>3 DEF Refuse, Owed
      <3>2. Within(<<event>> \o pending, <<event>> \o untold)
        BY <1>e, <1>t, <2>1, <3>1, WithinCons
      <3> QED BY <1>e, <2>1, <3>1, <3>2 DEF EventsOwed
    <2> QED BY <2>2, <2>3
  <1>5. CASE Requeue
    <2>1. Owed' = Owed /\ UNCHANGED <<untold, cut>> /\ at = "refused"
      BY <1>5 DEF Requeue, Owed, Prompt
    <2> QED BY <1>e, <2>1 DEF EventsOwed
  <1>6. CASE RestoreFile
    <2>1. Owed = pending /\ UNCHANGED <<pending, cut>> /\ at = "undo" /\ at' = "restored"
          /\ Owed' = Append(pending, event') /\ untold' = Append(untold, event')
      BY <1>6 DEF RestoreFile, Owed
    <2>2. event' \in Paths
      BY <1>6, RestoredTypes DEF SessionInv
    <2> QED BY <1>e, <1>t, <2>1, <2>2, WithinAppend DEF EventsOwed
  <1>7. CASE QueueEvent
    <2>1. Owed' = Owed /\ UNCHANGED <<untold, cut>> /\ at = "restored"
      BY <1>7 DEF QueueEvent, Owed, Prompt
    <2> QED BY <1>e, <2>1 DEF EventsOwed
  <1>8. CASE Work \/ Finish \/ CreationFails \/ UndoRefused \/ CompactFails \/ ReplaceHistory
             \/ ResetReadState \/ ConfirmNew \/ ConfirmExit \/ Decline
    <2>1. UNCHANGED <<pending, untold>> /\ cut' = cut
          /\ at \in {"asked", "input", "undo", "compact", "replaced", "confirm new", "confirm exit"}
          /\ at' \in {"asked", "input", "failing", "replaced", "reset", "leaving"}
      BY <1>8 DEF Work, Finish, CreationFails, UndoRefused, CompactFails, ReplaceHistory,
                  ResetReadState, ConfirmNew, ConfirmExit, Decline, Prompt, events
    <2> QED BY <2>1, EventsUntouched
  <1>9. CASE Reset
    <2>1. Owed' = <<>> /\ untold' = <<>> BY <1>9 DEF Reset, Owed, Prompt
    <2> QED BY <2>1, NothingWithinNothing DEF EventsOwed
  <1>10. CASE Close
    <2>1. Owed = pending /\ Owed' = pending /\ untold' = untold /\ at' = "ended"
      BY <1>10 DEF Close, Owed, events
    <2> QED BY <1>e, <2>1 DEF EventsOwed
  <1>w. Within(pending, untold)
    <2>1. CASE at \in {"taken", "refused"} /\ event # None
      BY <1>e, <1>t, <2>1, WithinTail DEF Owed
    <2>2. CASE at = "restored"
      BY <1>e, <1>t, <2>2, WithinLonger DEF Owed
    <2>3. CASE ~(at \in {"taken", "refused"} /\ event # None) /\ at # "restored"
      BY <1>e, <2>3 DEF Owed
    <2> QED BY <2>1, <2>2, <2>3
  <1>11. CASE InterruptTask \/ InterruptCommand \/ BreakOut
    <2>1. Owed' = pending /\ untold' = untold /\ (cut' \/ at' = "failing")
      BY <1>11 DEF InterruptTask, InterruptCommand, BreakOut, Owed, Prompt, events
    <2> QED BY <1>w, <2>1 DEF EventsOwed
  <1> QED BY <1>1, <1>2, <1>3, <1>4, <1>5, <1>6, <1>7, <1>8, <1>9, <1>10, <1>11
          DEF SessionNext, Progress

LEMMA SessionStep ==
  ASSUME SessionInv, [SessionNext]_sessionVars
  PROVE  SessionInv'
  <1>1. CASE SessionNext
    BY <1>1, TypesKept, ReadsStayOwned, AskingComesFirst, EventsStayOwed DEF SessionInv
  <1>2. CASE UNCHANGED sessionVars
    <2>1. UNCHANGED <<at, session, stack, pending, untold, event, reads, undone, torn, talked,
                      incomplete, warned, cut>>
      BY <1>2, Zenon DEF sessionVars
    <2>2. SessionTypeOK'
      BY <2>1, Zenon DEF SessionInv, SessionTypeOK
    <2>3. EventsOwed'
      <3>1. Owed' = Owed
        BY <2>1, Zenon DEF Owed
      <3> QED BY <2>1, <3>1, Zenon DEF SessionInv, EventsOwed
    <2>4. ReadsOwned' /\ AskedFirst' /\ (at' = "restored" => event' \in Paths)
      BY <2>1, Zenon DEF SessionInv, ReadsOwned, Excused, AskedFirst
    <2> QED BY <2>2, <2>3, <2>4 DEF SessionInv
  <1> QED BY <1>1, <1>2

-----------------------------------------------------------------------------
(* The session's inductive invariant: types, the events owed to the          *)
(* conversation, the ownership of reads and the question before a loss       *)
THEOREM SessionInvariantHolds == SessionSpec => []SessionInv
  BY SessionInitial, SessionStep, PTL DEF SessionSpec

(* The variables keep their types, whatever is typed or interrupted *)
THEOREM SessionTyped == SessionSpec => []SessionTypeOK
  <1>1. SessionInv => SessionTypeOK
    BY DEF SessionInv
  <1> QED BY <1>1, SessionInvariantHolds, PTL

(* The queue holds the undos the conversation has not been told of, in order, *)
(* and all of them unless a Ctrl-C cut something short                        *)
THEOREM UndosAreToldInOrder == SessionSpec => []EventsMatchUndos
  <1>1. SessionInv => EventsMatchUndos
    BY DEF SessionInv, EventsOwed, Owed, Within, EventsMatchUndos
  <1> QED BY <1>1, SessionInvariantHolds, PTL

(* Only an undo, or a Ctrl-C at one place, leaves an entry in the read state *)
(* whose content no read or write of the present conversation showed         *)
THEOREM ReadsAreOfThisConversation == SessionSpec => []ReadsBelongToConversation
  <1>1. SessionInv => ReadsBelongToConversation
    BY DEF SessionInv, ReadsOwned, Excused, ReadsBelongToConversation
  <1> QED BY <1>1, SessionInvariantHolds, PTL

(* Undo records are given up only after the user was told *)
THEOREM LossesAreAnnounced == SessionSpec => LossIsAnnounced
  <1>1. SessionInv /\ [SessionNext]_sessionVars =>
          [(stack # <<>> /\ (at' = "leaving" \/ (at = "reset" /\ stack' = <<>>)))
             => (warned \/ warned')]_sessionVars
    <2> SUFFICES ASSUME SessionInv, SessionNext, stack # <<>>,
                        at' = "leaving" \/ (at = "reset" /\ stack' = <<>>)
                 PROVE  warned \/ warned'
      OBVIOUS
    <2> QED BY DEF SessionInv, AskedFirst, SessionNext, Command, Progress, TypeTask, TypeUndo,
            TypeCompact, TypeNew, TypeExit, EndOfInput, CreationFails, TakeEvent, Ask, Work, Refuse,
            Requeue, Finish, UndoRefused, RestoreFile, QueueEvent, CompactFails, ReplaceHistory,
            ResetReadState, ConfirmNew, Reset, ConfirmExit, Decline, Close, InterruptTask,
            InterruptCommand, BreakOut, Prompt, events
  <1> QED BY <1>1, SessionInvariantHolds, PTL DEF SessionSpec, LossIsAnnounced
=============================================================================
