---------------------------- MODULE AgentLoopProofs ----------------------------
(***************************************************************************)
(* Theorems about AgentLoop, for any limits, budget, calls and tasks: the  *)
(* history can always be replayed to the provider, a refused task leaves   *)
(* no trace in it, the tool budget holds and every reply is honest.  Then  *)
(* theorems about ContextTrim, for any list of messages: prepare, which    *)
(* the loop calls before every request, computes what AgentLoop takes it   *)
(* to compute.                                                             *)
(***************************************************************************)
EXTENDS AgentLoop, ContextTrim, NatRecursion, SequenceTheorems, TLAPS

-----------------------------------------------------------------------------
(* Choosing among the indices of a history *)

LEMMA FirstIsIn ==
  ASSUME NEW S, S \subseteq Nat, S # {}
  PROVE  First(S) \in S
  BY Smallest DEF First

LEMMA CurrentIsIn ==
  ASSUME NEW m, Len(m) \in Nat, DOMAIN m = 1..Len(m), UserAt(m) # {}
  PROVE  /\ CurrentUser(m) \in UserAt(m)
         /\ \A j \in UserAt(m) : j <= CurrentUser(m)
  <1> DEFINE S == {d \in Nat : \E j \in UserAt(m) : d = Len(m) - j}
  <1>1. S \subseteq Nat /\ S # {}
    <2>1. PICK j \in UserAt(m) : TRUE
      OBVIOUS
    <2>2. Len(m) - j \in S
      BY <2>1 DEF UserAt
    <2> QED BY <2>2
  <1>2. PICK d \in S : \A e \in S : d <= e
    BY <1>1, Smallest
  <1>3. PICK i \in UserAt(m) : d = Len(m) - i
    BY <1>2
  <1>4. ASSUME NEW j \in UserAt(m) PROVE j <= i
    <2>1. Len(m) - j \in S
      BY DEF UserAt
    <2> QED BY <1>2, <1>3, <2>1 DEF UserAt
  <1> QED BY <1>3, <1>4 DEF CurrentUser

-----------------------------------------------------------------------------
(* Replayable histories: groups move as a whole, and appending to or cutting *)
(* from a history leaves it replayable                                       *)

LEMMA CallsAreIds ==
  ASSUME NEW m \in Seq(Message), NEW i \in DOMAIN m, m[i].role = "assistant"
  PROVE  m[i].calls \in Seq(CallIds)
  <1>1. m[i] \in Message
    BY ElementOfSeq
  <1> QED BY <1>1 DEF Message, System

LEMMA NextIndex ==
  ASSUME NEW i \in Nat, NEW c \in Nat, NEW l \in Nat, NEW d \in Int, i + c <= l, i + c # l
  PROVE  i + c + 1 \in i..l /\ i + c + 1 + d = i + d + c + 1
  OBVIOUS

LEMMA GroupMoves ==
  ASSUME NEW m \in Seq(Message), NEW n \in Seq(Message), NEW i \in 1..Len(m), NEW d \in Int,
         m[i].role = "assistant", GroupAt(m, i),
         \A j \in i..Len(m) : j + d \in 1..Len(n) /\ n[j + d] = m[j],
         ~IsRole(n, Len(m) + d + 1, "tool")
  PROVE  GroupAt(n, i + d)
  <1> DEFINE calls == m[i].calls
  <1>0. Len(m) \in Nat /\ DOMAIN m = 1..Len(m)
    BY LenProperties
  <1>1. calls \in Seq(CallIds) /\ n[i + d].calls = calls
    BY CallsAreIds
  <1>2. Len(calls) \in Nat /\ DOMAIN calls = 1..Len(calls)
    BY <1>1, LenProperties
  <1>3. ASSUME NEW k \in DOMAIN calls
        PROVE  /\ i + k \in i..Len(m)
               /\ IsRole(n, i + d + k, "tool") /\ n[i + d + k].id = calls[k]
    <2>1. i + k \in 1..Len(m) /\ m[i + k].role = "tool" /\ m[i + k].id = calls[k]
      BY <1>0, <1>2, <1>3 DEF GroupAt, IsRole
    <2>2. i + k \in i..Len(m) /\ i + k + d = i + d + k
      BY <1>2, <1>3, <2>1
    <2>3. i + d + k \in 1..Len(n) /\ n[i + d + k] = m[i + k]
      BY <2>2
    <2> QED BY <2>1, <2>2, <2>3 DEF IsRole
  <1> HIDE DEF calls
  <1>4. i + Len(calls) <= Len(m)
    <2>1. CASE Len(calls) = 0
      BY <2>1
    <2>2. CASE Len(calls) # 0
      <3>1. Len(calls) \in DOMAIN calls
        BY <1>2, <2>2
      <3> QED BY <1>3, <3>1
    <2> QED BY <2>1, <2>2
  <1>5. ~IsRole(n, i + d + Len(calls) + 1, "tool")
    <2>1. CASE i + Len(calls) = Len(m)
      <3>1. i + d + Len(calls) + 1 = Len(m) + d + 1
        BY <1>0, <1>2, <2>1
      <3> QED BY <3>1
    <2>2. CASE i + Len(calls) # Len(m)
      <3>1. i + Len(calls) + 1 \in i..Len(m)
            /\ i + Len(calls) + 1 + d = i + d + Len(calls) + 1
        <4>1. i \in Nat /\ Len(calls) \in Nat /\ Len(m) \in Nat
          BY <1>0, <1>2
        <4> QED BY <4>1, <1>4, <2>2, NextIndex, Zenon
      <3>2. ~IsRole(m, i + Len(calls) + 1, "tool")
        BY DEF GroupAt, calls
      <3>3. m[i + Len(calls) + 1].role # "tool"
        BY <3>1, <3>2 DEF IsRole
      <3>4. n[i + d + Len(calls) + 1] = m[i + Len(calls) + 1]
        BY <3>1, SMTT(40)
      <3> QED BY <3>3, <3>4, SMTT(40) DEF IsRole
    <2> QED BY <2>1, <2>2
  <1>6. DistinctIds(calls)
    BY DEF GroupAt, calls
  <1> QED BY <1>1, <1>3, <1>5, <1>6 DEF GroupAt

(* What is kept of a history from a message on that is no tool message *)
LEMMA CutReplayable ==
  ASSUME NEW m \in Seq(Message), NEW n \in Seq(Message), Replayable(m),
         NEW a \in 2..Len(m), NEW d \in Int, m[a].role # "tool", a + d \in {2, 3},
         Len(n) = Len(m) + d,
         \A j \in a..Len(m) : n[j + d] = m[j],
         n[1].role = "system", n[2].role = "user"
  PROVE  Replayable(n)
  <1>1. Len(m) \in Nat /\ Len(n) \in Nat /\ Len(n) >= 2 /\ DOMAIN n = 1..Len(n) /\ DOMAIN m = 1..Len(m)
    BY LenProperties
  <1>2. IsRole(n, 1, "system") /\ IsRole(n, 2, "user")
    BY <1>1 DEF IsRole
  <1>3. ASSUME NEW i \in 3..Len(n)
        PROVE  \/ IsRole(n, i, "user")
               \/ IsRole(n, i, "assistant") /\ GroupAt(n, i)
               \/ IsRole(n, i, "tool") /\ n[i - 1].role \in {"assistant", "tool"}
    <2> DEFINE j == i - d
    <2>1. j \in a..Len(m) /\ j \in 2..Len(m) /\ n[i] = m[j] /\ i \in DOMAIN n /\ j + d = i
      BY <1>1, <1>3
    <2>2. CASE IsRole(m, j, "user")
      BY <2>1, <2>2 DEF IsRole
    <2>3. CASE IsRole(m, j, "assistant") /\ GroupAt(m, j)
      <3>1. \A k \in j..Len(m) : k + d \in 1..Len(n) /\ n[k + d] = m[k]
        BY <1>1, <2>1
      <3>2. ~IsRole(n, Len(m) + d + 1, "tool")
        BY <1>1 DEF IsRole
      <3>3. j \in 1..Len(m) /\ m[j].role = "assistant"
        BY <2>1, <2>3 DEF IsRole
      <3> HIDE DEF j
      <3>4. GroupAt(n, j + d)
        BY <2>3, <3>1, <3>2, <3>3, GroupMoves
      <3> QED BY <2>1, <2>3, <3>4 DEF IsRole
    <2>4. CASE IsRole(m, j, "tool") /\ m[j - 1].role \in {"assistant", "tool"}
      <3>1. j # a
        BY <2>4 DEF IsRole
      <3>2. j - 1 \in a..Len(m) /\ j - 1 + d = i - 1
        BY <1>1, <2>1, <3>1
      <3>3. n[i - 1] = m[j - 1]
        BY <3>2
      <3> QED BY <2>1, <2>4, <3>3 DEF IsRole
    <2> QED BY <2>1, <2>2, <2>3, <2>4 DEF Replayable
  <1> QED BY <1>1, <1>2, <1>3 DEF Replayable

(* What is appended to a replayable history by whole users and groups *)
LEMMA ExtendedReplayable ==
  ASSUME NEW m \in Seq(Message), NEW n \in Seq(Message), Replayable(m), Len(n) > Len(m),
         \A j \in 1..Len(m) : n[j] = m[j],
         n[Len(m) + 1].role # "tool",
         \A i \in Len(m) + 1..Len(n) :
            \/ IsRole(n, i, "user")
            \/ IsRole(n, i, "assistant") /\ GroupAt(n, i)
            \/ IsRole(n, i, "tool") /\ n[i - 1].role \in {"assistant", "tool"}
  PROVE  Replayable(n)
  <1>1. Len(m) \in Nat /\ Len(n) \in Nat /\ DOMAIN n = 1..Len(n) /\ DOMAIN m = 1..Len(m)
    BY LenProperties
  <1>2. Len(m) >= 2 /\ IsRole(n, 1, "system") /\ IsRole(n, 2, "user")
    BY <1>1 DEF IsRole, Replayable
  <1>3. ASSUME NEW i \in 2..Len(m)
        PROVE  \/ IsRole(n, i, "user")
               \/ IsRole(n, i, "assistant") /\ GroupAt(n, i)
               \/ IsRole(n, i, "tool") /\ n[i - 1].role \in {"assistant", "tool"}
    <2>1. n[i] = m[i] /\ i \in DOMAIN n /\ n[i - 1] = m[i - 1]
      BY <1>1
    <2>2. CASE IsRole(m, i, "user")
      BY <2>1, <2>2 DEF IsRole
    <2>3. CASE IsRole(m, i, "assistant") /\ GroupAt(m, i)
      <3> DEFINE d == 0
      <3>0. d \in Int /\ i + d = i /\ Len(m) + d + 1 = Len(m) + 1 /\ \A j \in 1..Len(m) : j + d = j
        BY <1>1
      <3> HIDE DEF d
      <3>1. \A j \in i..Len(m) : j + d \in 1..Len(n) /\ n[j + d] = m[j]
        BY <1>1, <3>0
      <3>2. ~IsRole(n, Len(m) + d + 1, "tool")
        BY <1>1, <3>0 DEF IsRole
      <3>3. m[i].role = "assistant" /\ i \in 1..Len(m)
        BY <2>3 DEF IsRole
      <3>4. GroupAt(n, i + d)
        BY <2>3, <3>0, <3>1, <3>2, <3>3, GroupMoves, Zenon
      <3> QED BY <2>1, <2>3, <3>0, <3>4 DEF IsRole
    <2>4. CASE IsRole(m, i, "tool") /\ m[i - 1].role \in {"assistant", "tool"}
      BY <2>1, <2>4 DEF IsRole
    <2> QED BY <2>2, <2>3, <2>4 DEF Replayable
  <1>4. \A i \in 2..Len(n) : i \in 2..Len(m) \/ i \in Len(m) + 1..Len(n)
    BY <1>1
  <1> QED BY <1>2, <1>3, <1>4 DEF Replayable

LEMMA MessagesAre ==
  /\ System \in Message
  /\ \A size \in Nat : User(size) \in Message
  /\ \A ids \in Seq(CallIds) : Assistant(ids) \in Message
  /\ \A id \in CallIds : ToolMessage(id) \in Message
  BY DEF Message, System, User, Assistant, ToolMessage

LEMMA Fields ==
  /\ \A id : ToolMessage(id).role = "tool" /\ ToolMessage(id).id = id
  /\ \A ids : Assistant(ids).role = "assistant" /\ Assistant(ids).calls = ids
  /\ \A size : User(size).role = "user" /\ User(size).size = size
  BY DEF ToolMessage, Assistant, User

LEMMA AppendUser ==
  ASSUME NEW m \in Seq(Message), NEW size \in Nat, m = <<System>> \/ Replayable(m)
  PROVE  Append(m, User(size)) \in Seq(Message) /\ Replayable(Append(m, User(size)))
  <1> DEFINE n == Append(m, User(size))
  <1>1. User(size) \in Message
    BY MessagesAre
  <1>2. /\ n \in Seq(Message) /\ Len(n) = Len(m) + 1 /\ n[Len(m) + 1] = User(size)
        /\ \A j \in 1..Len(m) : n[j] = m[j]
    BY <1>1, AppendProperties
  <1>3. Len(m) \in Nat /\ DOMAIN n = 1..Len(n)
    BY <1>2, LenProperties
  <1> HIDE DEF n
  <1>4. n[Len(m) + 1].role = "user"
    BY <1>2 DEF User
  <1>5. CASE m = <<System>>
    <2>1. Len(m) = 1 /\ m[1].role = "system"
      BY <1>5 DEF System
    <2>2. Len(n) = 2 /\ n[1].role = "system" /\ n[2].role = "user"
      BY <1>2, <1>4, <2>1
    <2>3. IsRole(n, 1, "system") /\ IsRole(n, 2, "user")
      BY <1>3, <2>2 DEF IsRole
    <2> QED BY <1>2, <2>2, <2>3 DEF Replayable, n
  <1>6. CASE Replayable(m)
    <2>1. \A i \in Len(m) + 1..Len(n) : IsRole(n, i, "user")
      BY <1>2, <1>3, <1>4 DEF IsRole
    <2>2. Len(n) > Len(m) /\ n[Len(m) + 1].role # "tool"
      BY <1>2, <1>3, <1>4
    <2>3. Replayable(n)
      BY <1>2, <1>6, <2>1, <2>2, ExtendedReplayable
    <2> QED BY <1>2, <2>3 DEF n
  <1> QED BY <1>5, <1>6

Group(ids) == <<Assistant(ids)>> \o [k \in DOMAIN ids |-> ToolMessage(ids[k])]

LEMMA GroupShape ==
  ASSUME NEW ids \in Seq(CallIds)
  PROVE  /\ Group(ids) \in Seq(Message) /\ Len(Group(ids)) = Len(ids) + 1
         /\ Group(ids)[1] = Assistant(ids)
         /\ \A k \in 1..Len(ids) : Group(ids)[k + 1] = ToolMessage(ids[k])
  <1> DEFINE a == <<Assistant(ids)>>
             t == [k \in DOMAIN ids |-> ToolMessage(ids[k])]
  <1>1. Len(ids) \in Nat /\ DOMAIN ids = 1..Len(ids) /\ \A k \in 1..Len(ids) : ids[k] \in CallIds
    BY LenProperties, ElementOfSeq
  <1>2. a \in Seq(Message) /\ Len(a) = 1 /\ a[1] = Assistant(ids)
    BY MessagesAre
  <1>3. \A k \in 1..Len(ids) : ToolMessage(ids[k]) \in Message
    BY <1>1, MessagesAre
  <1>4. t \in Seq(Message) /\ Len(t) = Len(ids)
    <2>1. t = [k \in 1..Len(ids) |-> ToolMessage(ids[k])]
      BY <1>1
    <2>2. t \in [1..Len(ids) -> Message]
      BY <1>3, <2>1
    <2> QED BY <1>1, <2>1, <2>2, LenProperties, IsASeq
  <1>5. \A k \in 1..Len(ids) : t[k] = ToolMessage(ids[k])
    BY <1>1
  <1> HIDE DEF a, t
  <1>6. /\ a \o t \in Seq(Message) /\ Len(a \o t) = Len(a) + Len(t)
        /\ \A i \in 1..Len(a) + Len(t) : (a \o t)[i] = IF i <= Len(a) THEN a[i] ELSE t[i - Len(a)]
    BY <1>2, <1>4, ConcatProperties
  <1>7. (a \o t)[1] = Assistant(ids)
    BY <1>1, <1>2, <1>4, <1>6
  <1>8. ASSUME NEW k \in 1..Len(ids) PROVE (a \o t)[k + 1] = ToolMessage(ids[k])
    <2>1. k + 1 \in 1..Len(a) + Len(t) /\ ~(k + 1 <= Len(a)) /\ k + 1 - Len(a) = k
      BY <1>1, <1>2, <1>4
    <2> QED BY <1>5, <1>6, <2>1
  <1>9. Len(a \o t) = Len(ids) + 1
    BY <1>1, <1>2, <1>4, <1>6
  <1> QED BY <1>6, <1>7, <1>8, <1>9 DEF Group, a, t

LEMMA AppendGroup ==
  ASSUME NEW m \in Seq(Message), NEW ids \in Seq(CallIds), Replayable(m), DistinctIds(ids)
  PROVE  m \o Group(ids) \in Seq(Message) /\ Replayable(m \o Group(ids))
  <1> DEFINE n == m \o Group(ids)
             g == Group(ids)
             l == Len(m)
  <1>1. l \in Nat /\ Len(ids) \in Nat /\ DOMAIN ids = 1..Len(ids)
    BY LenProperties
  <1>2. /\ g \in Seq(Message) /\ Len(g) = Len(ids) + 1
        /\ g[1] = Assistant(ids) /\ \A k \in 1..Len(ids) : g[k + 1] = ToolMessage(ids[k])
    BY GroupShape
  <1>3. /\ n \in Seq(Message) /\ Len(n) = l + Len(g)
        /\ \A i \in 1..l + Len(g) : n[i] = IF i <= l THEN m[i] ELSE g[i - l]
    BY <1>2, ConcatProperties
  <1> HIDE DEF n, g, l
  <1>4. DOMAIN n = 1..Len(n) /\ Len(n) = l + Len(ids) + 1
    BY <1>1, <1>2, <1>3, LenProperties
  <1>5. \A j \in 1..l : n[j] = m[j]
    BY <1>1, <1>2, <1>3
  <1>6. n[l + 1] = Assistant(ids)
    <2>1. l + 1 \in 1..l + Len(g) /\ ~(l + 1 <= l) /\ l + 1 - l = 1
      BY <1>1, <1>2
    <2>2. n[l + 1] = g[1]
      BY <1>1, <1>3, <2>1
    <2> QED BY <1>2, <2>2
  <1>7. ASSUME NEW k \in 1..Len(ids) PROVE n[l + 1 + k] = ToolMessage(ids[k])
    <2>1. l + 1 + k \in 1..l + Len(g) /\ ~(l + 1 + k <= l) /\ l + 1 + k - l = k + 1
      BY <1>1, <1>2
    <2>2. n[l + 1 + k] = g[k + 1]
      BY <1>1, <1>3, <2>1
    <2> QED BY <1>2, <2>2
  <1>8. n[l + 1].role = "assistant" /\ n[l + 1].calls = ids
    BY <1>6 DEF Assistant
  <1>9. ASSUME NEW k \in 1..Len(ids)
        PROVE  IsRole(n, l + 1 + k, "tool") /\ n[l + 1 + k].id = ids[k]
    <2>1. l + 1 + k \in DOMAIN n
      BY <1>1, <1>4
    <2>2. n[l + 1 + k] = ToolMessage(ids[k])
      BY <1>7
    <2>3. n[l + 1 + k].role = "tool" /\ n[l + 1 + k].id = ids[k]
      BY <2>2, Fields, Zenon
    <2> QED BY <2>1, <2>3 DEF IsRole
  <1>10. GroupAt(n, l + 1)
    <2>1. ~IsRole(n, l + 1 + Len(ids) + 1, "tool")
      BY <1>1, <1>4 DEF IsRole
    <2> QED BY <1>1, <1>8, <1>9, <2>1 DEF GroupAt
  <1>11. ASSUME NEW i \in l + 1..Len(n)
         PROVE  \/ IsRole(n, i, "user")
                \/ IsRole(n, i, "assistant") /\ GroupAt(n, i)
                \/ IsRole(n, i, "tool") /\ n[i - 1].role \in {"assistant", "tool"}
    <2>1. CASE i = l + 1
      BY <1>1, <1>4, <1>8, <1>10, <2>1 DEF IsRole
    <2>2. CASE i # l + 1
      <3> DEFINE k == i - l - 1
      <3>1. k \in 1..Len(ids) /\ l + 1 + k = i
        BY <1>1, <1>4, <2>2
      <3>2. n[i - 1].role \in {"assistant", "tool"}
        <4>1. CASE k = 1
          BY <1>1, <1>8, <3>1, <4>1
        <4>2. CASE k # 1
          <5>1. k - 1 \in 1..Len(ids) /\ l + 1 + (k - 1) = i - 1
            BY <1>1, <3>1, <4>2
          <5> QED BY <1>9, <5>1 DEF IsRole
        <4> QED BY <4>1, <4>2
      <3> QED BY <1>9, <3>1, <3>2
    <2> QED BY <2>1, <2>2
  <1>12. Len(n) > l /\ n[l + 1].role # "tool"
    BY <1>1, <1>4, <1>8
  <1>13. Replayable(n)
    BY <1>3, <1>5, <1>11, <1>12, ExtendedReplayable DEF l
  <1> QED BY <1>3, <1>13 DEF n, g

-----------------------------------------------------------------------------
(* What prepare keeps *)

LEMMA KeptFrom ==
  ASSUME NEW m \in Seq(Message), NEW head \in Seq(Message), NEW i \in 1..Len(m)
  PROVE  LET n == head \o SubSeq(m, i, Len(m))
             d == Len(head) + 1 - i
         IN  /\ n \in Seq(Message) /\ Len(n) = Len(m) + d
             /\ \A j \in 1..Len(head) : n[j] = head[j]
             /\ \A j \in i..Len(m) : n[j + d] = m[j]
  <1> DEFINE t == SubSeq(m, i, Len(m))
             n == head \o t
             d == Len(head) + 1 - i
  <1>1. Len(m) \in Nat /\ Len(head) \in Nat /\ i \in Nat /\ \A j \in 1..Len(m) : m[j] \in Message
    BY LenProperties, ElementOfSeq
  <1>2. /\ t \in Seq(Message) /\ Len(t) = Len(m) - i + 1
        /\ \A k \in 1..Len(m) - i + 1 : t[k] = m[i + k - 1]
    <2>1. \A j \in i..Len(m) : m[j] \in Message
      BY <1>1
    <2>2. /\ SubSeq(m, i, Len(m)) \in Seq(Message)
          /\ Len(SubSeq(m, i, Len(m))) = IF i <= Len(m) THEN Len(m) - i + 1 ELSE 0
          /\ \A k \in 1..Len(m) - i + 1 : SubSeq(m, i, Len(m))[k] = m[i + k - 1]
      BY <1>1, <2>1, SubSeqProperties
    <2> QED BY <1>1, <2>2
  <1> HIDE DEF t
  <1>3. /\ n \in Seq(Message) /\ Len(n) = Len(head) + Len(t)
        /\ \A j \in 1..Len(head) + Len(t) : n[j] = IF j <= Len(head) THEN head[j] ELSE t[j - Len(head)]
    BY <1>2, ConcatProperties
  <1> HIDE DEF n
  <1>4. Len(n) = Len(m) + d
    BY <1>1, <1>2, <1>3
  <1>5. ASSUME NEW j \in 1..Len(head) PROVE n[j] = head[j]
    <2>1. j \in 1..Len(head) + Len(t) /\ j <= Len(head)
      BY <1>1, <1>2
    <2> QED BY <1>3, <2>1
  <1>6. ASSUME NEW j \in i..Len(m) PROVE n[j + d] = m[j]
    <2>1. /\ j + d \in 1..Len(head) + Len(t) /\ ~(j + d <= Len(head))
          /\ j + d - Len(head) = j - i + 1 /\ j - i + 1 \in 1..Len(m) - i + 1
          /\ i + (j - i + 1) - 1 = j
      BY <1>1, <1>2
    <2>2. n[j + d] = t[j + d - Len(head)]
      BY <1>1, <1>3, <2>1
    <2>3. n[j + d] = t[j - i + 1]
      BY <2>1, <2>2
    <2>4. t[j - i + 1] = m[j]
      BY <1>1, <1>2, <2>1
    <2> QED BY <2>3, <2>4
  <1> QED BY <1>3, <1>4, <1>5, <1>6 DEF n, t

LEMMA UniqueCurrent ==
  ASSUME NEW n, NEW c \in UserAt(n), \A j \in UserAt(n) : j <= c, UserAt(n) \subseteq Nat
  PROVE  CurrentUser(n) = c
  BY DEF CurrentUser

(* A cut before a user message keeps the history replayable and its newest   *)
(* user message                                                              *)
LEMMA TurnKept ==
  ASSUME NEW m \in Seq(Message), Replayable(m), NEW i \in UserAt(m)
  PROVE  LET n == FromTurn(m, i) IN
         /\ n \in Seq(Message) /\ Replayable(n)
         /\ n[CurrentUser(n)] = m[CurrentUser(m)]
  <1> DEFINE n == FromTurn(m, i)
             cu == CurrentUser(m)
             d == 2 - i
  <1>1. Len(m) \in Nat /\ DOMAIN m = 1..Len(m) /\ m[1].role = "system" /\ Len(m) >= 2
    BY LenProperties DEF Replayable, IsRole
  <1>2. i \in 2..Len(m) /\ m[i].role = "user" /\ i \in Nat
    BY <1>1 DEF UserAt
  <1>3. cu \in UserAt(m) /\ \A j \in UserAt(m) : j <= cu
    BY <1>1, CurrentIsIn
  <1>4. <<m[1]>> \in Seq(Message) /\ Len(<<m[1]>>) = 1 /\ <<m[1]>>[1] = m[1]
    BY <1>1, ElementOfSeq
  <1>5. /\ n \in Seq(Message) /\ Len(n) = Len(m) + d /\ n[1] = m[1]
        /\ \A j \in i..Len(m) : n[j + d] = m[j]
    <2>1. i \in 1..Len(m) /\ Len(<<m[1]>>) + 1 - i = d
      BY <1>1, <1>2, <1>4
    <2> QED BY <1>4, <2>1, KeptFrom DEF FromTurn
  <1> HIDE DEF n, cu
  <1>6. n[2].role = "user" /\ i + d = 2 /\ d \in Int
    BY <1>1, <1>2, <1>5
  <1>7. Replayable(n)
    <2>1. i + d \in {2, 3} /\ m[i].role # "tool" /\ n[1].role = "system"
      BY <1>1, <1>2, <1>5, <1>6
    <2> QED BY <1>2, <1>5, <1>6, <2>1, CutReplayable
  <1>8. DOMAIN n = 1..Len(n) /\ Len(n) \in Nat
    BY <1>5, LenProperties
  <1>9. cu \in i..Len(m) /\ m[cu].role = "user"
    BY <1>1, <1>2, <1>3 DEF UserAt
  <1>10. cu + d \in UserAt(n) /\ n[cu + d] = m[cu]
    <2>1. n[cu + d] = m[cu]
      BY <1>5, <1>9
    <2>2. cu + d \in DOMAIN n
      BY <1>1, <1>2, <1>5, <1>8, <1>9
    <2> QED BY <1>9, <2>1, <2>2 DEF UserAt
  <1>11. ASSUME NEW j \in UserAt(n) PROVE j <= cu + d
    <2>1. j \in 1..Len(n) /\ n[j].role = "user"
      BY <1>8 DEF UserAt
    <2>2. CASE j < 2
      BY <1>2, <1>9, <2>1, <2>2
    <2>3. CASE j >= 2
      <3>1. j - d \in i..Len(m) /\ (j - d) + d = j
        BY <1>1, <1>2, <1>5, <2>1, <2>3
      <3>2. n[j] = m[j - d]
        BY <1>5, <3>1
      <3>3. j - d \in UserAt(m)
        BY <1>1, <1>2, <2>1, <3>1, <3>2 DEF UserAt
      <3>4. j - d <= cu
        BY <1>3, <3>3
      <3> QED BY <1>1, <1>2, <1>9, <2>1, <3>4
    <2> QED BY <2>1, <2>2, <2>3
  <1>12. CurrentUser(n) = cu + d
    <2>1. UserAt(n) \subseteq Nat
      BY <1>8 DEF UserAt
    <2> QED BY <1>10, <1>11, <2>1, UniqueCurrent
  <1> QED BY <1>5, <1>7, <1>10, <1>12 DEF n, cu

(* and so does a cut of the current turn before one of its groups            *)
LEMMA GroupKept ==
  ASSUME NEW m \in Seq(Message), Replayable(m), NEW i \in GroupsAt(m)
  PROVE  LET n == FromGroup(m, i) IN
         /\ n \in Seq(Message) /\ Replayable(n)
         /\ n[CurrentUser(n)] = m[CurrentUser(m)]
  <1> DEFINE n == FromGroup(m, i)
             cu == CurrentUser(m)
             d == 3 - i
             head == <<m[1], m[cu]>>
  <1>1. /\ Len(m) \in Nat /\ DOMAIN m = 1..Len(m) /\ Len(m) >= 2
        /\ m[1].role = "system" /\ m[2].role = "user" /\ 2 \in UserAt(m)
    BY LenProperties DEF Replayable, IsRole, UserAt
  <1>2. cu \in UserAt(m) /\ \A j \in UserAt(m) : j <= cu
    BY <1>1, CurrentIsIn
  <1>3. cu \in 2..Len(m) /\ m[cu].role = "user"
    BY <1>1, <1>2 DEF UserAt
  <1>4. i \in 2..Len(m) /\ m[i].role = "assistant" /\ i > cu
    BY <1>1, <1>3 DEF GroupsAt
  <1> HIDE DEF cu
  <1>5. head \in Seq(Message) /\ Len(head) = 2 /\ head[1] = m[1] /\ head[2] = m[cu]
    <2>1. m[1] \in Message /\ m[cu] \in Message
      BY <1>1, <1>3, ElementOfSeq
    <2> QED BY <2>1
  <1>6. /\ n \in Seq(Message) /\ Len(n) = Len(m) + d /\ n[1] = m[1] /\ n[2] = m[cu]
        /\ \A j \in i..Len(m) : n[j + d] = m[j]
    <2> HIDE DEF head
    <2>1. i \in 1..Len(m) /\ Len(head) + 1 - i = d
      BY <1>1, <1>4, <1>5
    <2>2. n = head \o SubSeq(m, i, Len(m))
      BY DEF FromGroup, head, cu
    <2>3. 1 \in 1..Len(head) /\ 2 \in 1..Len(head)
      BY <1>5
    <2>4. /\ n \in Seq(Message) /\ Len(n) = Len(m) + (Len(head) + 1 - i)
          /\ \A j \in 1..Len(head) : n[j] = head[j]
          /\ \A j \in i..Len(m) : n[j + (Len(head) + 1 - i)] = m[j]
      <3> HIDE DEF n
      <3> QED BY <1>5, <2>1, <2>2, KeptFrom
    <2>5. n[1] = head[1] /\ n[2] = head[2]
      BY <2>3, <2>4
    <2> QED BY <1>5, <2>1, <2>4, <2>5
  <1> HIDE DEF n
  <1>7. i + d = 3 /\ d \in Int /\ i \in Nat
    BY <1>1, <1>4
  <1>8. Replayable(n)
    <2>1. /\ i + d \in {2, 3} /\ m[i].role # "tool"
          /\ n[1].role = "system" /\ n[2].role = "user"
      BY <1>1, <1>3, <1>4, <1>6, <1>7
    <2> QED BY <1>4, <1>6, <1>7, <2>1, CutReplayable
  <1>9. DOMAIN n = 1..Len(n) /\ Len(n) \in Nat
    BY <1>6, LenProperties
  <1>10. 2 \in UserAt(n)
    BY <1>1, <1>3, <1>4, <1>6, <1>9 DEF UserAt
  <1>11. ASSUME NEW j \in UserAt(n) PROVE j <= 2
    <2>1. j \in 1..Len(n) /\ n[j].role = "user"
      BY <1>9 DEF UserAt
    <2>2. CASE j > 2
      <3>1. j - d \in i..Len(m) /\ (j - d) + d = j
        BY <1>1, <1>4, <1>6, <1>7, <2>1, <2>2
      <3>2. n[j] = m[j - d]
        BY <1>6, <3>1
      <3>3. j - d \in UserAt(m)
        BY <1>1, <1>4, <2>1, <3>1, <3>2 DEF UserAt
      <3>4. j - d <= cu
        BY <1>2, <3>3
      <3> QED BY <1>1, <1>3, <1>4, <3>1, <3>4
    <2> QED BY <2>1, <2>2
  <1>12. CurrentUser(n) = 2
    <2>1. UserAt(n) \subseteq Nat
      BY <1>9 DEF UserAt
    <2> QED BY <1>10, <1>11, <2>1, UniqueCurrent
  <1> QED BY <1>6, <1>8, <1>12 DEF n, cu

(* What is sent fits, can be replayed and carries the current task *)
LEMMA PreparedKeeps ==
  ASSUME NEW m \in Seq(Message), ~Unpreparable(m)
  PROVE  /\ Prepared(m) \in Seq(Message) /\ Replayable(Prepared(m)) /\ Fits(Prepared(m))
         /\ Prepared(m)[CurrentUser(Prepared(m))] = m[CurrentUser(m)]
  <1>1. Replayable(m)
    BY DEF Unpreparable
  <1>2. DOMAIN m = 1..Len(m) /\ Len(m) \in Nat
    BY LenProperties
  <1>3. CASE TurnCuts(m) # {}
    <2>1. First(TurnCuts(m)) \in TurnCuts(m)
      <3>1. TurnCuts(m) \subseteq Nat
        BY <1>2 DEF TurnCuts, UserAt
      <3> QED BY <1>3, <3>1, FirstIsIn
    <2>2. First(TurnCuts(m)) \in UserAt(m) /\ Fits(FromTurn(m, First(TurnCuts(m))))
      BY <2>1 DEF TurnCuts
    <2> QED BY <1>1, <1>3, <2>2, TurnKept DEF Prepared
  <1>4. CASE TurnCuts(m) = {}
    <2>1. First(GroupCuts(m)) \in GroupCuts(m)
      <3>1. GroupCuts(m) \subseteq Nat /\ GroupCuts(m) # {}
        BY <1>2, <1>4 DEF GroupCuts, GroupsAt, Unpreparable
      <3> QED BY <3>1, FirstIsIn
    <2>2. First(GroupCuts(m)) \in GroupsAt(m) /\ Fits(FromGroup(m, First(GroupCuts(m))))
      BY <2>1 DEF GroupCuts
    <2> QED BY <1>1, <1>4, <2>2, GroupKept DEF Prepared
  <1> QED BY <1>3, <1>4

-----------------------------------------------------------------------------
(* A run *)

RunInv ==
  /\ pc \in {"ready", "prepare", "request", "execute", "commit", "result"}
  /\ rounds \in Nat /\ toolCalls \in Nat /\ started \in Nat
  /\ turn.calls \in Seq([id : CallIds, asks : Asks])
  /\ results \in Seq(Replies)
  /\ pc # "result" => status = ""
  /\ started <= MaxToolCalls

(* Nothing is begun and not counted, and nothing is counted and not answered *)
RepliesInv ==
  /\ pc \in {"ready", "prepare", "request"} => toolCalls = started
  /\ pc = "execute" =>
       /\ started = toolCalls + Len(results)
       /\ Len(results) < Len(turn.calls)
       /\ toolCalls + Len(turn.calls) <= MaxToolCalls
       /\ \A k \in 1..Len(results) : results[k] \in {"ok", "failed"}
  /\ pc = "commit" =>
       /\ Len(results) = Len(turn.calls) /\ Len(results) > 0
       /\ started - toolCalls \in 0..Len(results)
       /\ \A k \in 1..Len(results) :
            /\ k < started - toolCalls => results[k] \in {"ok", "failed"}
            /\ k = started - toolCalls => results[k] \in Executed
            /\ k > started - toolCalls => results[k] \in {"skipped", "limit"}
       /\ started = toolCalls => \A k \in 1..Len(results) : results[k] = "limit"
       /\ started # toolCalls /\ started - toolCalls # Len(results) =>
            results[started - toolCalls] = "aborted"

(* The history, and what a refused task must leave of it *)
HistoryInv ==
  /\ messages \in Seq(Message) /\ before \in Seq(Message) /\ task \in Message
  /\ HistoryReplayable
  /\ pc \in {"prepare", "request", "execute", "commit"} => Replayable(messages)
  /\ pc \in {"prepare", "request", "execute", "commit"} => messages[CurrentUser(messages)] = task
  /\ pc = "prepare" /\ rounds = 0 =>
       /\ messages = Append(before, task) /\ (before = <<System>> \/ Replayable(before))
  /\ pc \in {"execute", "commit"} => DistinctIds(Ids(turn.calls)) /\ rounds > 0
  /\ pc = "request" => Fits(messages)
  /\ RefusalLeavesNoTrace

LoopInv == RunInv /\ RepliesInv /\ HistoryInv

LEMMA Limits ==
  /\ MaxRounds \in Nat \ {0} /\ MaxToolCalls \in Nat \ {0}
  /\ Tasks \subseteq Nat /\ Summaries \subseteq Nat
  /\ \A answer \in Turns : answer.calls \in Seq([id : CallIds, asks : Asks])
  <1>1. /\ MaxRounds \in Nat \ {0} /\ MaxToolCalls \in Nat \ {0}
        /\ Tasks \subseteq Nat /\ Summaries \subseteq Nat
    BY LoopLimits
  <1>2. TurnCalls \subseteq Seq([id : CallIds, asks : Asks])
    BY LoopLimits
  <1>3. <<>> \in Seq([id : CallIds, asks : Asks])
    BY EmptySeq
  <1>4. \A answer \in Turns : answer.calls \in TurnCalls \/ answer.calls = <<>>
    BY DEF Turns
  <1> QED BY <1>1, <1>2, <1>3, <1>4

LEMMA NothingYet ==
  /\ NoTurn.calls = <<>> /\ NoTurn.calls \in Seq([id : CallIds, asks : Asks])
  /\ <<>> \in Seq(Replies) /\ <<>> \in Seq(Message)
  /\ <<System>> \in Seq(Message) /\ User(0) \in Message
  BY EmptySeq, MessagesAre DEF NoTurn

(* The actions that end at the prompt *)
LEMMA LeaveKeeps ==
  ASSUME LoopInv, Leave, UNCHANGED messages
  PROVE  LoopInv'
  <1>1. RunInv'
    <2>1. turn'.calls \in Seq([id : CallIds, asks : Asks]) /\ results' \in Seq(Replies)
      BY NothingYet, Zenon DEF Leave
    <2>2. /\ pc' = "ready" /\ status' = "" /\ rounds' = 0 /\ toolCalls' = 0 /\ started' = 0
      BY DEF Leave
    <2>3. 0 <= MaxToolCalls
      BY Limits
    <2> QED BY <2>1, <2>2, <2>3 DEF RunInv
  <1>2. RepliesInv'
    BY DEF Leave, RepliesInv
  <1>3. HistoryInv'
    BY NothingYet DEF Leave, LoopInv, HistoryInv, HistoryReplayable, RefusalLeavesNoTrace
  <1> QED BY <1>1, <1>2, <1>3 DEF LoopInv

LEMMA SplitIndices ==
  ASSUME NEW l \in Nat, NEW c \in Nat, NEW d \in Nat, NEW r \in Nat, d = l + 1, r = c - d
  PROVE  /\ d + r = c
         /\ \A k \in 1..l + 1 : k \in 1..d + r /\ k <= d
         /\ \A k \in l + 2..c : k \in 1..d + r /\ ~(k <= d) /\ k - d \in 1..r
  OBVIOUS

(* The results of a round after one more call *)
LEMMA ResultsAfter ==
  ASSUME LoopInv, NEW reply \in Executed, ExecuteCall(reply)
  PROVE  /\ results' \in Seq(Replies)
         /\ Len(results') = IF reply = "aborted" THEN Len(turn.calls) ELSE Len(results) + 1
         /\ \A k \in 1..Len(results) : results'[k] = results[k]
         /\ results'[Len(results) + 1] = reply
         /\ \A k \in Len(results) + 2..Len(results') : results'[k] = "skipped"
  <1> DEFINE done == Append(results, reply)
             rest == [k \in 1..Len(turn.calls) - Len(done) |-> "skipped"]
  <1>1. /\ results \in Seq(Replies) /\ Len(results) \in Nat /\ Len(turn.calls) \in Nat
        /\ Len(results) < Len(turn.calls)
    BY LenProperties DEF LoopInv, RunInv, RepliesInv, ExecuteCall
  <1>2. reply \in Replies /\ "skipped" \in Replies
    BY DEF Executed, Replies
  <1>3. /\ done \in Seq(Replies) /\ Len(done) = Len(results) + 1 /\ done[Len(results) + 1] = reply
        /\ Len(done) \in Nat /\ \A k \in 1..Len(results) : done[k] = results[k]
    BY <1>1, <1>2, AppendProperties
  <1>4. results' = IF reply = "aborted" THEN done \o rest ELSE done
    BY DEF ExecuteCall
  <1>5. /\ rest \in Seq(Replies) /\ Len(rest) = Len(turn.calls) - Len(done) /\ Len(rest) \in Nat
        /\ \A k \in 1..Len(rest) : rest[k] = "skipped"
    <2> DEFINE size == Len(turn.calls) - Len(done)
    <2>1. size \in Nat
      BY <1>1, <1>3
    <2> HIDE DEF done
    <2>2. rest = [k \in 1..size |-> "skipped"]
      OBVIOUS
    <2> HIDE DEF size, rest
    <2>3. rest \in Seq(Replies) /\ Len(rest) = size /\ \A k \in 1..size : rest[k] = "skipped"
      BY <1>2, <2>1, <2>2
    <2> QED BY <2>1, <2>3 DEF size
  <1> HIDE DEF done, rest
  <1>s. /\ Len(results) \in Nat /\ Len(turn.calls) \in Nat /\ Len(done) \in Nat /\ Len(rest) \in Nat
        /\ Len(done) = Len(results) + 1 /\ Len(rest) = Len(turn.calls) - Len(done)
    BY <1>1, <1>3, <1>5, Zenon
  <1>i. /\ Len(done) + Len(rest) = Len(turn.calls)
        /\ \A k \in 1..Len(results) + 1 : k \in 1..Len(done) + Len(rest) /\ k <= Len(done)
        /\ \A k \in Len(results) + 2..Len(turn.calls) :
             /\ k \in 1..Len(done) + Len(rest) /\ ~(k <= Len(done))
             /\ k - Len(done) \in 1..Len(rest)
    BY <1>s, SplitIndices, ZenonT(60)
  <1>6. CASE reply # "aborted"
    BY <1>1, <1>3, <1>4, <1>6
  <1>7. CASE reply = "aborted"
    <2>1. /\ done \o rest \in Seq(Replies) /\ Len(done \o rest) = Len(done) + Len(rest)
          /\ \A k \in 1..Len(done) + Len(rest) :
               (done \o rest)[k] = IF k <= Len(done) THEN done[k] ELSE rest[k - Len(done)]
      BY <1>3, <1>5, ConcatProperties
    <2>2. results' = done \o rest /\ Len(results') = Len(turn.calls) /\ results' \in Seq(Replies)
      <3>1. results' = done \o rest
        BY <1>4, <1>7
      <3>2. Len(done) + Len(rest) = Len(turn.calls)
        BY <1>i
      <3> QED BY <2>1, <3>1, <3>2
    <2>3. ASSUME NEW k \in 1..Len(results) + 1 PROVE results'[k] = done[k]
      <3>1. k \in 1..Len(done) + Len(rest) /\ k <= Len(done)
        BY <1>i
      <3> QED BY <2>1, <2>2, <3>1
    <2>4. ASSUME NEW k \in Len(results) + 2..Len(results') PROVE results'[k] = "skipped"
      <3>1. k \in 1..Len(done) + Len(rest) /\ ~(k <= Len(done)) /\ k - Len(done) \in 1..Len(rest)
        BY <1>i, <2>2, Zenon
      <3>2. results'[k] = rest[k - Len(done)]
        BY <2>1, <2>2, <3>1
      <3> QED BY <1>5, <3>1, <3>2
    <2>5. Len(results) + 1 \in 1..Len(results) + 1 /\ \A k \in 1..Len(results) : k \in 1..Len(results) + 1
      BY <1>1
    <2> QED BY <1>3, <1>7, <2>2, <2>3, <2>4, <2>5
  <1> QED BY <1>6, <1>7

LEMMA ExecuteKeeps ==
  ASSUME LoopInv, NEW reply \in Executed, ExecuteCall(reply)
  PROVE  LoopInv'
  <1>1. /\ results \in Seq(Replies) /\ Len(results) \in Nat /\ Len(turn.calls) \in Nat
        /\ Len(results) < Len(turn.calls) /\ toolCalls + Len(turn.calls) <= MaxToolCalls
        /\ started = toolCalls + Len(results) /\ toolCalls \in Nat /\ MaxToolCalls \in Nat
        /\ \A k \in 1..Len(results) : results[k] \in {"ok", "failed"}
    BY LenProperties, Limits DEF LoopInv, RunInv, RepliesInv, ExecuteCall
  <1>2. /\ pc = "execute" /\ started' = started + 1
        /\ pc' = IF Len(results') = Len(turn.calls) THEN "commit" ELSE "execute"
        /\ UNCHANGED <<messages, turn, rounds, toolCalls, status, before, task>>
    BY DEF ExecuteCall, counters
  <1>3. /\ results' \in Seq(Replies)
        /\ Len(results') = IF reply = "aborted" THEN Len(turn.calls) ELSE Len(results) + 1
        /\ \A k \in 1..Len(results) : results'[k] = results[k]
        /\ results'[Len(results) + 1] = reply
        /\ \A k \in Len(results) + 2..Len(results') : results'[k] = "skipped"
    BY ResultsAfter
  <1>4. started' = toolCalls' + Len(results) + 1 /\ started' - toolCalls' = Len(results) + 1
    BY <1>1, <1>2
  <1>5. RunInv'
    <2>1. turn'.calls \in Seq([id : CallIds, asks : Asks]) /\ rounds' \in Nat /\ status' = ""
      BY <1>2 DEF LoopInv, RunInv
    <2>2. started' \in Nat /\ toolCalls' \in Nat /\ started' <= MaxToolCalls
      BY <1>1, <1>2
    <2>3. pc' \in {"execute", "commit"}
      BY <1>2
    <2> QED BY <1>3, <2>1, <2>2, <2>3 DEF RunInv
  <1>6. RepliesInv'
    <2>1. CASE pc' = "execute"
      <3>1. reply # "aborted" /\ Len(results') = Len(results) + 1 /\ Len(results') < Len(turn'.calls)
        BY <1>1, <1>2, <1>3, <2>1
      <3>2. reply \in {"ok", "failed"}
        BY <3>1 DEF Executed
      <3>3. \A k \in 1..Len(results') : results'[k] \in {"ok", "failed"}
        BY <1>1, <1>3, <3>1, <3>2
      <3> QED BY <1>1, <1>2, <1>4, <2>1, <3>1, <3>3 DEF RepliesInv
    <2>2. CASE pc' = "commit"
      <3>1. /\ Len(results') = Len(turn'.calls) /\ Len(results') > 0
            /\ Len(results) + 1 \in 0..Len(results') /\ started' # toolCalls'
        BY <1>1, <1>2, <1>3, <1>4, <2>2
      <3>2. ASSUME NEW k \in 1..Len(results')
            PROVE  /\ k < Len(results) + 1 => results'[k] \in {"ok", "failed"}
                   /\ k = Len(results) + 1 => results'[k] \in Executed
                   /\ k > Len(results) + 1 => results'[k] \in {"skipped", "limit"}
        <4>1. CASE k < Len(results) + 1
          BY <1>1, <1>3, <4>1, SMTT(40)
        <4>2. CASE k = Len(results) + 1
          BY <1>1, <1>3, <4>2
        <4>3. CASE k > Len(results) + 1
          <5>1. k \in Len(results) + 2..Len(results')
            BY <1>1, <3>1, <4>3
          <5> QED BY <1>1, <1>3, <4>3, <5>1
        <4> QED BY <1>1, <4>1, <4>2, <4>3
      <3>3. Len(results) + 1 # Len(results') => results'[Len(results) + 1] = "aborted"
        BY <1>1, <1>2, <1>3, <2>2
      <3> QED BY <1>1, <1>4, <2>2, <3>1, <3>2, <3>3 DEF RepliesInv
    <2> QED BY <1>2, <2>1, <2>2
  <1>7. HistoryInv'
    BY <1>2 DEF LoopInv, RunInv, HistoryInv, HistoryReplayable, RefusalLeavesNoTrace, ExecuteCall
  <1> QED BY <1>5, <1>6, <1>7 DEF LoopInv

(* What becomes the newest user message *)
LEMMA UserIsCurrent ==
  ASSUME NEW m \in Seq(Message), NEW size \in Nat
  PROVE  LET n == Append(m, User(size)) IN n[CurrentUser(n)] = User(size)
  <1> DEFINE n == Append(m, User(size))
  <1>1. n \in Seq(Message) /\ Len(n) = Len(m) + 1 /\ n[Len(m) + 1] = User(size)
    BY MessagesAre, AppendProperties
  <1> HIDE DEF n
  <1>2. Len(m) \in Nat /\ Len(n) \in Nat /\ DOMAIN n = 1..Len(n)
    BY <1>1, LenProperties
  <1>3. n[Len(m) + 1].role = "user"
    BY <1>1, Fields, Zenon
  <1>4. Len(m) + 1 \in UserAt(n)
    BY <1>1, <1>2, <1>3 DEF UserAt
  <1>5. UserAt(n) \subseteq Nat /\ \A j \in UserAt(n) : j <= Len(m) + 1
    BY <1>1, <1>2 DEF UserAt
  <1>6. CurrentUser(n) = Len(m) + 1
    BY <1>4, <1>5, UniqueCurrent
  <1> QED BY <1>1, <1>6 DEF n

LEMMA GroupLeavesCurrent ==
  ASSUME NEW m \in Seq(Message), NEW ids \in Seq(CallIds), Replayable(m)
  PROVE  LET n == m \o Group(ids) IN n[CurrentUser(n)] = m[CurrentUser(m)]
  <1> DEFINE n == m \o Group(ids)
             g == Group(ids)
             l == Len(m)
             cu == CurrentUser(m)
  <1>1. /\ l \in Nat /\ Len(ids) \in Nat /\ DOMAIN m = 1..l /\ 2 \in UserAt(m)
    BY LenProperties DEF Replayable, IsRole, UserAt
  <1>2. cu \in UserAt(m) /\ \A j \in UserAt(m) : j <= cu
    BY <1>1, CurrentIsIn
  <1>3. /\ g \in Seq(Message) /\ Len(g) = Len(ids) + 1
        /\ g[1] = Assistant(ids) /\ \A k \in 1..Len(ids) : g[k + 1] = ToolMessage(ids[k])
    BY GroupShape
  <1>4. /\ n \in Seq(Message) /\ Len(n) = l + Len(g)
        /\ \A i \in 1..l + Len(g) : n[i] = IF i <= l THEN m[i] ELSE g[i - l]
    BY <1>3, ConcatProperties
  <1> HIDE DEF n, g, cu, l
  <1>5. DOMAIN n = 1..Len(n) /\ Len(n) = l + Len(ids) + 1
    BY <1>1, <1>3, <1>4, LenProperties
  <1>6. cu \in 1..l /\ m[cu].role = "user"
    BY <1>1, <1>2 DEF UserAt
  <1>7. n[cu] = m[cu] /\ cu \in UserAt(n)
    <2>1. cu \in 1..l + Len(g) /\ cu <= l
      BY <1>1, <1>3, <1>6
    <2>2. n[cu] = m[cu]
      BY <1>4, <2>1
    <2>3. cu \in DOMAIN n
      BY <1>1, <1>5, <1>6
    <2> QED BY <1>6, <2>2, <2>3 DEF UserAt
  <1>8. ASSUME NEW j \in UserAt(n) PROVE j <= cu
    <2>1. j \in 1..l + Len(ids) + 1 /\ j \in 1..l + Len(g) /\ n[j].role = "user"
      BY <1>1, <1>3, <1>5 DEF UserAt
    <2>2. CASE j <= l
      <3>1. n[j] = m[j]
        BY <1>4, <2>1, <2>2
      <3>2. j \in UserAt(m)
        BY <1>1, <2>1, <2>2, <3>1 DEF UserAt
      <3> QED BY <1>2, <3>2
    <2>3. CASE j > l
      <3>1. ~(j <= l)
        BY <1>1, <2>1, <2>3
      <3>2. n[j] = g[j - l]
        BY <1>1, <1>4, <2>1, <3>1
      <3>3. CASE j - l = 1
        <4>1. n[j] = Assistant(ids)
          BY <1>3, <3>2, <3>3
        <4> QED BY <2>1, <4>1, Fields
      <3>4. CASE j - l # 1
        <4> DEFINE k == j - l - 1
        <4>1. k \in 1..Len(ids) /\ k + 1 = j - l
          BY <1>1, <2>1, <2>3, <3>4
        <4> HIDE DEF k
        <4>2. n[j] = ToolMessage(ids[k])
          BY <1>3, <3>2, <4>1
        <4> QED BY <2>1, <4>2, Fields
      <3> QED BY <3>3, <3>4
    <2> QED BY <1>1, <2>1, <2>2, <2>3
  <1>9. CurrentUser(n) = cu
    <2>1. UserAt(n) \subseteq Nat
      BY <1>5, <1>1 DEF UserAt
    <2> QED BY <1>7, <1>8, <2>1, UniqueCurrent
  <1> QED BY <1>7, <1>9 DEF n, cu

LEMMA IdsAre ==
  ASSUME NEW calls \in Seq([id : CallIds, asks : Asks])
  PROVE  /\ Ids(calls) \in Seq(CallIds) /\ DOMAIN Ids(calls) = DOMAIN calls
         /\ \A k \in DOMAIN calls : Ids(calls)[k] = calls[k].id
  <1>1. Len(calls) \in Nat /\ DOMAIN calls = 1..Len(calls)
    BY LenProperties
  <1>2. ASSUME NEW k \in 1..Len(calls) PROVE calls[k].id \in CallIds
    <2>1. calls[k] \in [id : CallIds, asks : Asks]
      BY ElementOfSeq
    <2> QED BY <2>1
  <1>3. Ids(calls) = [k \in 1..Len(calls) |-> calls[k].id]
    BY <1>1 DEF Ids
  <1> HIDE DEF Ids
  <1> QED BY <1>1, <1>2, <1>3

(* Answering without calls is a group of its own *)
LEMMA EmptyGroup == ASSUME NEW m \in Seq(Message)
                    PROVE  Append(m, Assistant(<<>>)) = m \o Group(<<>>)
  <1>1. <<>> \in Seq(CallIds) /\ Len(<<>>) = 0
    BY EmptySeq
  <1>2. Group(<<>>) \in Seq(Message) /\ Len(Group(<<>>)) = 1 /\ Group(<<>>)[1] = Assistant(<<>>)
    <2> DEFINE ids == <<>>
    <2>1. ids \in Seq(CallIds) /\ Len(ids) + 1 = 1
      BY <1>1
    <2> HIDE DEF ids
    <2>2. Group(ids) \in Seq(Message) /\ Len(Group(ids)) = 1 /\ Group(ids)[1] = Assistant(ids)
      BY <2>1, GroupShape
    <2> QED BY <2>2 DEF ids
  <1>3. Assistant(<<>>) \in Message
    BY <1>1, MessagesAre
  <1>4. Group(<<>>) = <<Assistant(<<>>)>>
    <2>1. /\ <<Assistant(<<>>)>> \in Seq(Message) /\ Len(<<Assistant(<<>>)>>) = 1
          /\ <<Assistant(<<>>)>>[1] = Assistant(<<>>)
      BY <1>3
    <2> DEFINE g == Group(<<>>)
               h == <<Assistant(<<>>)>>
    <2>2. g \in Seq(Message) /\ h \in Seq(Message) /\ Len(g) = Len(h) /\ \A i \in 1..Len(g) : g[i] = h[i]
      BY <1>2, <2>1
    <2> HIDE DEF g, h
    <2>3. g = h
      BY <2>2, SeqEqual
    <2> QED BY <2>3 DEF g, h
  <1> QED BY <1>3, <1>4, AppendIsConcat

-----------------------------------------------------------------------------
(* Every action keeps the invariant *)

LEMMA StartKeeps ==
  ASSUME LoopInv, NEW size \in Tasks, StartRun(size)
  PROVE  LoopInv'
  <1>1. /\ pc = "ready" /\ pc' = "prepare" /\ before' = messages /\ task' = User(size)
        /\ messages' = Append(messages, User(size))
        /\ UNCHANGED <<turn, results, rounds, toolCalls, status, started>>
    BY DEF StartRun, counters
  <1>2. size \in Nat /\ messages \in Seq(Message) /\ (messages = <<System>> \/ Replayable(messages))
    BY Limits DEF LoopInv, HistoryInv, HistoryReplayable
  <1>3. /\ messages' \in Seq(Message) /\ Replayable(messages')
        /\ messages'[CurrentUser(messages')] = task'
    BY <1>1, <1>2, AppendUser, UserIsCurrent
  <1>4. RunInv' /\ status' = ""
    BY <1>1 DEF LoopInv, RunInv
  <1>5. RepliesInv'
    <2>1. toolCalls = started
      BY <1>1 DEF LoopInv, RepliesInv
    <2> QED BY <1>1, <2>1 DEF RepliesInv
  <1>6. HistoryInv'
    <2>1. task' \in Message
      BY <1>1, <1>2, MessagesAre
    <2> QED BY <1>1, <1>2, <1>3, <1>4, <2>1 DEF HistoryInv, HistoryReplayable, RefusalLeavesNoTrace
  <1> QED BY <1>4, <1>5, <1>6 DEF LoopInv

(* The head of a round *)
LEMMA HeadKeeps ==
  ASSUME LoopInv, RoundLimit \/ Prepare \/ ContextLimit
  PROVE  LoopInv'
  <1>1. /\ pc = "prepare" /\ messages \in Seq(Message) /\ before \in Seq(Message)
        /\ task \in Message /\ status = "" /\ Replayable(messages)
        /\ messages[CurrentUser(messages)] = task /\ toolCalls = started
        /\ rounds = 0 => messages = Append(before, task) /\ (before = <<System>> \/ Replayable(before))
    BY DEF LoopInv, RunInv, RepliesInv, HistoryInv, RoundLimit, Prepare, ContextLimit
  <1>2. UNCHANGED <<turn, results, rounds, toolCalls, started, task>>
    BY DEF RoundLimit, Prepare, ContextLimit, counters, runHistory
  <1>t. task' \in Message
    BY <1>1, <1>2
  <1>3. CASE RoundLimit
    <2>1. /\ pc' = "result" /\ status' = "MODEL_ROUND_LIMIT"
          /\ messages' = messages /\ before' = before
      BY <1>3 DEF RoundLimit, Stop, runHistory
    <2>2. RunInv'
      BY <1>2, <2>1 DEF LoopInv, RunInv
    <2>3. RepliesInv'
      BY <2>1 DEF RepliesInv
    <2>4. HistoryInv'
      BY <1>1, <1>t, <2>1 DEF HistoryInv, HistoryReplayable, RefusalLeavesNoTrace
    <2> QED BY <2>2, <2>3, <2>4 DEF LoopInv
  <1>4. CASE Prepare
    <2>1. /\ pc' = "request" /\ status' = "" /\ ~Unpreparable(messages)
          /\ messages' = Prepared(messages) /\ before' = <<>>
      BY <1>1, <1>4 DEF Prepare
    <2>2. /\ messages' \in Seq(Message) /\ Replayable(messages') /\ Fits(messages')
          /\ messages'[CurrentUser(messages')] = task'
      BY <1>1, <1>2, <2>1, PreparedKeeps
    <2>3. RunInv'
      BY <1>2, <2>1 DEF LoopInv, RunInv
    <2>4. RepliesInv'
      BY <1>1, <1>2, <2>1 DEF RepliesInv
    <2>5. before' \in Seq(Message)
      BY <2>1, NothingYet
    <2>6. HistoryInv'
      BY <1>t, <2>1, <2>2, <2>5 DEF HistoryInv, HistoryReplayable, RefusalLeavesNoTrace
    <2> QED BY <2>3, <2>4, <2>6 DEF LoopInv
  <1>5. CASE ContextLimit
    <2>1. /\ pc' = "result" /\ before' = before
          /\ messages' = IF rounds = 0 THEN SubSeq(messages, 1, Len(messages) - 1) ELSE messages
      BY <1>5 DEF ContextLimit, Stop, runHistory
    <2>2. rounds = 0 => messages' = before
      <3>1. SUFFICES ASSUME rounds = 0 PROVE messages' = before
        OBVIOUS
      <3>2. messages = Append(before, task) /\ messages' = SubSeq(messages, 1, Len(messages) - 1)
        BY <1>1, <2>1, <3>1
      <3>3. /\ Len(Append(before, task)) = Len(before) + 1
            /\ \A j \in 1..Len(before) : Append(before, task)[j] = before[j]
        <4>1. before \in Seq(Message) /\ task \in Message
          BY <1>1
        <4>2. Len(Append(before, task)) = Len(before) + 1
          BY <4>1
        <4>3. ASSUME NEW j \in 1..Len(before) PROVE Append(before, task)[j] = before[j]
          BY <4>1
        <4> QED BY <4>2, <4>3
      <3>4. /\ Len(messages) = Len(before) + 1
            /\ \A j \in 1..Len(before) : messages[j] = before[j]
        BY <3>2, <3>3, ZenonT(60)
      <3>5. Len(before) \in Nat /\ Len(messages) - 1 = Len(before)
        <4>1. Len(before) \in Nat
          BY <1>1, LenProperties
        <4> QED BY <3>4, <4>1
      <3>6. /\ messages' \in Seq(Message) /\ Len(messages') = Len(before)
            /\ \A j \in 1..Len(before) : messages'[j] = messages[j]
        <4>1. \A j \in 1..Len(before) : messages[j] \in Message
          BY <1>1, <3>4, ElementOfSeq
        <4>2. messages' = SubSeq(messages, 1, Len(before))
          BY <3>2, <3>5
        <4> QED BY <3>5, <4>1, <4>2, SubSeqProperties
      <3> QED BY <1>1, <3>4, <3>6, SeqEqual
    <2>3. RunInv'
      BY <1>2, <2>1 DEF LoopInv, RunInv
    <2>4. RepliesInv'
      BY <2>1 DEF RepliesInv
    <2>5. messages' \in Seq(Message) /\ HistoryReplayable'
      <3>1. CASE rounds = 0
        BY <1>1, <2>2, <3>1 DEF HistoryReplayable
      <3>2. CASE rounds # 0
        BY <1>1, <2>1, <3>2 DEF HistoryReplayable
      <3> QED BY <3>1, <3>2
    <2>6. RefusalLeavesNoTrace'
      BY <1>2, <2>1, <2>2 DEF RefusalLeavesNoTrace
    <2>7. HistoryInv'
      BY <1>1, <1>t, <2>1, <2>5, <2>6 DEF HistoryInv
    <2> QED BY <2>3, <2>4, <2>7 DEF LoopInv
  <1> QED BY <1>3, <1>4, <1>5

(* The model's answer *)
LEMMA AnswerKeeps ==
  ASSUME LoopInv, NEW answer \in Turns,
         RequestFails \/ Answer(answer) \/ RefuseIds(answer) \/ AskForTools(answer)
  PROVE  LoopInv'
  <1>1. /\ pc = "request" /\ messages \in Seq(Message) /\ before \in Seq(Message)
        /\ status = "" /\ Replayable(messages) /\ rounds \in Nat
        /\ messages[CurrentUser(messages)] = task /\ toolCalls = started
        /\ toolCalls \in Nat /\ MaxToolCalls \in Nat /\ task \in Message
    BY Limits DEF LoopInv, RunInv, RepliesInv, HistoryInv, RequestFails, Answer, RefuseIds, AskForTools
  <1>r. rounds \in Nat /\ rounds + 1 \in Nat /\ rounds + 1 > 0 /\ rounds + 1 # 0
    <2>1. rounds \in Nat
      BY <1>1
    <2> QED BY <2>1
  <1>2. /\ toolCalls' = toolCalls /\ started' = started /\ task' = task /\ before' = before
    BY DEF RequestFails, Answer, RefuseIds, AskForTools, counters, runHistory
  <1>t. toolCalls' = toolCalls /\ started' = toolCalls /\ toolCalls \in Nat /\ MaxToolCalls \in Nat
    BY <1>1, <1>2, Zenon
  <1>3. CASE RequestFails \/ RefuseIds(answer)
    <2>1. /\ pc' = "result" /\ status' # "CONTEXT_LIMIT" /\ UNCHANGED <<messages, turn, results>>
          /\ rounds' \in {rounds, rounds + 1}
      BY <1>3 DEF RequestFails, RefuseIds, Stop
    <2>2. rounds' \in Nat
      BY <1>r, <2>1, Zenon
    <2>3. RunInv'
      BY <1>2, <2>1, <2>2 DEF LoopInv, RunInv
    <2>4. RepliesInv'
      BY <2>1 DEF RepliesInv
    <2>5. HistoryInv'
      BY <1>1, <1>2, <2>1 DEF HistoryInv, HistoryReplayable, RefusalLeavesNoTrace
    <2> QED BY <2>3, <2>4, <2>5 DEF LoopInv
  <1>4. CASE Answer(answer)
    <2>1. /\ pc' = "result" /\ UNCHANGED <<turn, results>> /\ rounds' = rounds + 1
          /\ messages' = Append(messages, Assistant(<<>>))
      BY <1>4 DEF Answer, Stop
    <2>2. messages' \in Seq(Message) /\ Replayable(messages')
      <3> DEFINE ids == <<>>
      <3>1. messages' = messages \o Group(ids)
        BY <1>1, <2>1, EmptyGroup
      <3>2. ids \in Seq(CallIds) /\ DistinctIds(ids)
        BY EmptySeq DEF DistinctIds
      <3> HIDE DEF ids
      <3> QED BY <1>1, <3>1, <3>2, AppendGroup
    <2>3. rounds' \in Nat /\ rounds' # 0
      BY <1>r, <2>1, Zenon
    <2>4. RunInv'
      BY <1>2, <2>1, <2>3 DEF LoopInv, RunInv
    <2>5. RepliesInv'
      BY <2>1 DEF RepliesInv
    <2>6. HistoryInv'
      BY <1>1, <1>2, <2>1, <2>2, <2>3 DEF HistoryInv, HistoryReplayable, RefusalLeavesNoTrace
    <2> QED BY <2>4, <2>5, <2>6 DEF LoopInv
  <1>5. CASE AskForTools(answer)
    <2> DEFINE calls == answer.calls
    <2>1. /\ calls # <<>> /\ DistinctIds(Ids(calls)) /\ turn' = answer
          /\ UNCHANGED <<messages, status>> /\ rounds' = rounds + 1
          /\ IF OverCallBudget(calls)
               THEN results' = Every(calls, "limit") /\ pc' = "commit"
               ELSE results' = <<>> /\ pc' = "execute"
      BY <1>5 DEF AskForTools
    <2>2. calls \in Seq([id : CallIds, asks : Asks])
      BY Limits
    <2>3. Len(calls) \in Nat /\ Len(calls) > 0 /\ DOMAIN calls = 1..Len(calls)
      BY <2>1, <2>2, LenProperties, EmptySeq
    <2>4. turn'.calls = calls
      BY <2>1
    <2> HIDE DEF calls
    <2>5. rounds' \in Nat /\ rounds' > 0
      BY <1>r, <2>1, Zenon
    <2>6. CASE OverCallBudget(calls)
      <3>1. results' = [k \in 1..Len(calls) |-> "limit"] /\ pc' = "commit"
        BY <2>1, <2>3, <2>6 DEF Every
      <3>2. /\ results' \in Seq(Replies) /\ Len(results') = Len(calls)
            /\ \A k \in 1..Len(results') : results'[k] = "limit"
        BY <2>3, <3>1 DEF Replies
      <3>3. RunInv'
        BY <1>1, <1>2, <2>1, <2>2, <2>4, <2>5, <3>1, <3>2 DEF LoopInv, RunInv
      <3>4. started' - toolCalls' = 0 /\ started' = toolCalls'
        BY <1>t
      <3>5. RepliesInv'
        BY <2>3, <2>4, <3>1, <3>2, <3>4 DEF RepliesInv
      <3>6. HistoryInv'
        BY <1>1, <1>2, <2>1, <2>4, <2>5, <3>1 DEF HistoryInv, HistoryReplayable, RefusalLeavesNoTrace
      <3> QED BY <3>3, <3>5, <3>6 DEF LoopInv
    <2>7. CASE ~OverCallBudget(calls)
      <3>1. results' = <<>> /\ pc' = "execute" /\ toolCalls + Len(calls) <= MaxToolCalls
        <4>1. results' = <<>> /\ pc' = "execute"
          BY <2>1, <2>7, Zenon
        <4>2. ~(toolCalls + Len(calls) > MaxToolCalls) /\ Len(calls) \in Nat
          BY <2>3, <2>7 DEF OverCallBudget
        <4> QED BY <1>t, <4>1, <4>2
      <3>2. results' \in Seq(Replies) /\ Len(results') = 0
        BY <3>1, EmptySeq
      <3>3. RunInv'
        BY <1>1, <1>2, <2>1, <2>2, <2>4, <2>5, <3>1, <3>2 DEF LoopInv, RunInv
      <3>4. started' = toolCalls' + Len(results')
        BY <1>t, <3>2
      <3>5. RepliesInv'
        BY <1>2, <2>3, <2>4, <3>1, <3>2, <3>4 DEF RepliesInv
      <3>6. HistoryInv'
        BY <1>1, <1>2, <2>1, <2>4, <2>5, <3>1 DEF HistoryInv, HistoryReplayable, RefusalLeavesNoTrace
      <3> QED BY <3>3, <3>5, <3>6 DEF LoopInv
    <2> QED BY <2>6, <2>7
  <1> QED BY <1>3, <1>4, <1>5

(* The end of a round *)
LEMMA CommitKeeps ==
  ASSUME LoopInv, Commit
  PROVE  LoopInv'
  <1> DEFINE ids == Ids(turn.calls)
  <1>1. /\ pc = "commit" /\ messages \in Seq(Message) /\ before \in Seq(Message)
        /\ status = "" /\ Replayable(messages) /\ rounds \in Nat /\ rounds > 0
        /\ messages[CurrentUser(messages)] = task /\ DistinctIds(ids)
        /\ turn.calls \in Seq([id : CallIds, asks : Asks])
        /\ started <= MaxToolCalls
    BY DEF LoopInv, RunInv, HistoryInv, Commit
  <1>2. /\ toolCalls \in Nat /\ started \in Nat /\ results \in Seq(Replies) /\ Len(results) \in Nat
        /\ Len(results) = Len(turn.calls) /\ Len(results) > 0
        /\ started - toolCalls \in 0..Len(results)
        /\ started = toolCalls => \A k \in 1..Len(results) : results[k] = "limit"
        /\ started # toolCalls /\ started - toolCalls # Len(results) =>
             results[started - toolCalls] = "aborted"
    BY <1>1, LenProperties DEF LoopInv, RunInv, RepliesInv
  <1>3. /\ messages' = messages \o <<Assistant(ids)>> \o ToolMessages
        /\ toolCalls' = toolCalls + Len(turn.calls)
        /\ turn' = NoTurn /\ results' = <<>>
        /\ UNCHANGED <<rounds, before, task, started>>
        /\ IF Verdict = "continue" THEN pc' = "prepare" /\ UNCHANGED status ELSE Stop(Verdict)
    BY DEF Commit
  <1>t. task' \in Message
    BY <1>3 DEF LoopInv, HistoryInv
  <1>4. /\ ids \in Seq(CallIds) /\ DOMAIN ids = DOMAIN turn.calls
        /\ \A k \in DOMAIN turn.calls : ids[k] = turn.calls[k].id
    BY <1>1, IdsAre
  <1>5. messages' = messages \o Group(ids)
    <2>1. ToolMessages = [k \in DOMAIN ids |-> ToolMessage(ids[k])]
      BY <1>4 DEF ToolMessages
    <2>2. ToolMessages \in Seq(Message)
      <3>1. Len(ids) \in Nat /\ DOMAIN ids = 1..Len(ids)
        BY <1>4, LenProperties
      <3>2. ASSUME NEW k \in 1..Len(ids) PROVE ToolMessage(ids[k]) \in Message
        BY <1>4, ElementOfSeq, MessagesAre
      <3> HIDE DEF ids
      <3>3. ToolMessages = [k \in 1..Len(ids) |-> ToolMessage(ids[k])]
        BY <2>1, <3>1
      <3> QED BY <3>1, <3>2, <3>3
    <2>3. <<Assistant(ids)>> \in Seq(Message)
      BY <1>4, MessagesAre
    <2> HIDE DEF ids
    <2> DEFINE a == <<Assistant(ids)>>
    <2>5. a \in Seq(Message) /\ messages \in Seq(Message)
      BY <1>1, <2>3
    <2> HIDE DEF a
    <2>6. (messages \o a) \o ToolMessages = messages \o (a \o ToolMessages)
      BY <2>2, <2>5, ConcatAssociative
    <2>4. (messages \o <<Assistant(ids)>>) \o ToolMessages = messages \o (<<Assistant(ids)>> \o ToolMessages)
      BY <2>6 DEF a
    <2> QED BY <1>3, <2>1, <2>4 DEF Group
  <1> HIDE DEF ids
  <1>6. messages' \in Seq(Message) /\ Replayable(messages') /\ messages'[CurrentUser(messages')] = task'
    BY <1>1, <1>3, <1>4, <1>5, AppendGroup, GroupLeavesCurrent
  <1>7. pc' \in {"prepare", "result"} /\ (pc' = "prepare" => Verdict = "continue" /\ status' = "")
    BY <1>1, <1>3 DEF Stop
  <1>8. pc' = "prepare" => toolCalls' = started'
    <2>1. SUFFICES ASSUME Verdict = "continue" PROVE toolCalls' = started'
      BY <1>7
    <2>2. ~Has("limit") /\ ~Has("aborted")
      BY <2>1 DEF Verdict
    <2>3. \A k \in 1..Len(results) : results[k] # "limit" /\ results[k] # "aborted"
      BY <1>2, <2>2, LenProperties DEF Has
    <2>4. started # toolCalls
      BY <1>2, <2>3
    <2>5. started - toolCalls \in 1..Len(results)
      BY <1>2, <2>4
    <2>6. started - toolCalls = Len(results)
      BY <1>2, <2>3, <2>4, <2>5
    <2> QED BY <1>2, <1>3, <2>6
  <1>9. toolCalls' \in Nat
    BY <1>2, <1>3
  <1>10. turn'.calls \in Seq([id : CallIds, asks : Asks]) /\ results' \in Seq(Replies)
    BY <1>3, NothingYet, Zenon
  <1>11. RunInv'
    BY <1>1, <1>2, <1>3, <1>7, <1>9, <1>10 DEF RunInv
  <1>12. RepliesInv'
    BY <1>7, <1>8 DEF RepliesInv
  <1>13. rounds' > 0 /\ ~(rounds' = 0)
    <2>1. rounds \in Nat /\ rounds > 0 /\ rounds' = rounds
      BY <1>1, <1>3
    <2> QED BY <2>1
  <1>14. HistoryInv'
    BY <1>1, <1>3, <1>t, <1>6, <1>7, <1>13 DEF HistoryInv, HistoryReplayable, RefusalLeavesNoTrace
  <1> QED BY <1>11, <1>12, <1>14 DEF LoopInv

(* /compact and /new *)
LEMMA PromptKeeps ==
  ASSUME LoopInv, Reset \/ \E size \in Summaries : Compact(size)
  PROVE  LoopInv'
  <1>1. /\ pc = "ready" /\ status = ""
        /\ UNCHANGED <<pc, turn, results, rounds, toolCalls, status, before, task, started>>
    BY DEF LoopInv, RunInv, Reset, Compact, counters, runHistory
  <1>2. RunInv' /\ RepliesInv'
    BY <1>1 DEF LoopInv, RunInv, RepliesInv
  <1>3. messages' \in Seq(Message) /\ HistoryReplayable'
    <2>1. CASE Reset
      BY <2>1, NothingYet DEF Reset, HistoryReplayable
    <2>2. CASE \E size \in Summaries : Compact(size)
      <3>1. PICK size \in Summaries : messages' = <<messages[1], User(size)>> /\ Len(messages) > 1
        BY <2>2 DEF Compact
      <3>2. messages \in Seq(Message) /\ Replayable(messages)
        <4>1. messages \in Seq(Message) /\ (messages = <<System>> \/ Replayable(messages))
          BY DEF LoopInv, HistoryInv, HistoryReplayable
        <4>2. messages # <<System>>
          BY <3>1
        <4> QED BY <4>1, <4>2
      <3>3. messages[1] = System
        <4>1. messages[1].role = "system" /\ messages[1] \in Message
          BY <3>2, ElementOfSeq DEF Replayable, IsRole
        <4> QED BY <4>1 DEF Message
      <3>4. messages' = Append(<<System>>, User(size))
        BY <3>1, <3>3
      <3>5. size \in Nat /\ <<System>> \in Seq(Message)
        BY Limits, NothingYet
      <3> QED BY <3>4, <3>5, AppendUser DEF HistoryReplayable
    <2> QED BY <2>1, <2>2
  <1>4. HistoryInv'
    BY <1>1, <1>3 DEF LoopInv, HistoryInv, RefusalLeavesNoTrace
  <1> QED BY <1>2, <1>4 DEF LoopInv

LEMMA LoopStarts == LoopInit => LoopInv
  <1>1. SUFFICES ASSUME LoopInit PROVE LoopInv
    OBVIOUS
  <1>2. /\ messages = <<System>> /\ pc = "ready" /\ turn = NoTurn /\ results = <<>> /\ before = <<>>
        /\ rounds = 0 /\ toolCalls = 0 /\ started = 0 /\ status = "" /\ task = User(0)
    BY <1>1 DEF LoopInit
  <1>3. /\ turn.calls \in Seq([id : CallIds, asks : Asks]) /\ results \in Seq(Replies)
        /\ messages \in Seq(Message) /\ before \in Seq(Message) /\ task \in Message
    BY <1>2, NothingYet, Zenon
  <1>4. 0 <= MaxToolCalls
    BY Limits
  <1> QED BY <1>2, <1>3, <1>4 DEF LoopInv, RunInv, RepliesInv, HistoryInv, HistoryReplayable, RefusalLeavesNoTrace

LEMMA LoopKeeps == LoopInv /\ [LoopNext]_loopVars => LoopInv'
  <1> SUFFICES ASSUME LoopInv, [LoopNext]_loopVars PROVE LoopInv'
    OBVIOUS
  <1>1. CASE \E size \in Tasks : StartRun(size)
    BY <1>1, StartKeeps
  <1>2. CASE RoundLimit \/ Prepare \/ ContextLimit
    BY <1>2, HeadKeeps
  <1>3. CASE RequestFails \/ \E answer \in Turns : Answer(answer) \/ RefuseIds(answer) \/ AskForTools(answer)
    <2>1. [calls |-> <<>>, finish |-> "stop", blank |-> TRUE] \in Turns
      BY DEF Turns
    <2> QED BY <1>3, <2>1, AnswerKeeps
  <1>4. CASE \E reply \in Executed : ExecuteCall(reply)
    BY <1>4, ExecuteKeeps
  <1>5. CASE Commit
    BY <1>5, CommitKeeps
  <1>6. CASE Return \/ Escape
    BY <1>6, LeaveKeeps DEF Return, Escape
  <1>7. CASE Reset \/ \E size \in Summaries : Compact(size)
    BY <1>7, PromptKeeps
  <1>8. CASE UNCHANGED loopVars
    BY <1>8 DEF loopVars, LoopInv, RunInv, RepliesInv, HistoryInv, HistoryReplayable, RefusalLeavesNoTrace
  <1> QED BY <1>1, <1>2, <1>3, <1>4, <1>5, <1>6, <1>7, <1>8 DEF LoopNext, RunStep

(* LoopInv holds in every state of every run of the loop *)
THEOREM LoopInvariantHolds == LoopSpec => []LoopInv
  BY LoopStarts, LoopKeeps, PTL DEF LoopSpec

-----------------------------------------------------------------------------
(* The history can be replayed at every moment, wherever a run was cut short *)
THEOREM HistoriesAreReplayable == LoopSpec => []HistoryReplayable
  <1>1. LoopInv => HistoryReplayable
    BY DEF LoopInv, HistoryInv
  <1> QED BY <1>1, LoopInvariantHolds, PTL

(* A task refused before its first request leaves the history as it was      *)
THEOREM RefusalsLeaveNoTrace == LoopSpec => []RefusalLeavesNoTrace
  <1>1. LoopInv => RefusalLeavesNoTrace
    BY DEF LoopInv, HistoryInv
  <1> QED BY <1>1, LoopInvariantHolds, PTL

(* Every request is within budget and carries the task just typed            *)
THEOREM RequestsCarryTheTask == LoopSpec => []RequestCarriesTask
  <1>1. LoopInv => RequestCarriesTask
    BY DEF LoopInv, HistoryInv, RequestCarriesTask
  <1> QED BY <1>1, LoopInvariantHolds, PTL

(* The tool budget holds, and every answered call is counted                 *)
THEOREM ToolBudgetHolds == LoopSpec => []ToolBudget
  <1>1. LoopInv => ToolBudget
    BY DEF LoopInv, RunInv, RepliesInv, ToolBudget
  <1> QED BY <1>1, LoopInvariantHolds, PTL

(* Each call of a round gets one reply, and the replies tell which calls ran *)
THEOREM RepliesAlwaysHonest == LoopSpec => []RepliesAreHonest
  <1>1. LoopInv => RepliesAreHonest
    <2> SUFFICES ASSUME LoopInv, pc = "commit"
                 PROVE  LET ran == {k \in DOMAIN results : results[k] \in Executed} IN
                        /\ Len(results) = Len(turn.calls)
                        /\ ran = 1..(started - toolCalls)
                        /\ \A k \in ran : results[k] = "aborted" => k = started - toolCalls
                        /\ ran # {} /\ ran # DOMAIN results => results[started - toolCalls] = "aborted"
      BY DEF RepliesAreHonest
    <2> DEFINE ran == {k \in DOMAIN results : results[k] \in Executed}
               n == started - toolCalls
    <2>1. /\ Len(results) = Len(turn.calls) /\ n \in 0..Len(results) /\ n \in Nat
          /\ DOMAIN results = 1..Len(results) /\ Len(results) \in Nat
          /\ n # 0 /\ n # Len(results) => results[n] = "aborted"
      <3>1. results \in Seq(Replies) /\ started \in Nat /\ toolCalls \in Nat
        BY DEF LoopInv, RunInv
      <3>2. Len(results) \in Nat /\ DOMAIN results = 1..Len(results)
        BY <3>1, LenProperties
      <3>3. /\ Len(results) = Len(turn.calls) /\ n \in 0..Len(results)
            /\ started # toolCalls /\ n # Len(results) => results[n] = "aborted"
        BY DEF LoopInv, RepliesInv
      <3>4. n # 0 => started # toolCalls
        BY <3>1
      <3>5. n \in Nat
        BY <3>2, <3>3
      <3> QED BY <3>2, <3>3, <3>4, <3>5
    <2>2. \A k \in 1..Len(results) :
            /\ k < n => results[k] \in {"ok", "failed"}
            /\ k = n => results[k] \in Executed
            /\ k > n => results[k] \in {"skipped", "limit"}
      BY DEF LoopInv, RepliesInv
    <2> HIDE DEF n
    <2>3. ASSUME NEW k \in 1..Len(results) PROVE results[k] \in Executed <=> k <= n
      BY <2>1, <2>2 DEF Executed
    <2>4. ran = 1..n
      BY <2>1, <2>3
    <2>5. \A k \in ran : results[k] = "aborted" => k = n
      BY <2>1, <2>2, <2>4
    <2>6. ran # {} /\ ran # DOMAIN results => results[n] = "aborted"
      BY <2>1, <2>4
    <2> QED BY <2>1, <2>4, <2>5, <2>6 DEF n
  <1> QED BY <1>1, LoopInvariantHolds, PTL

-----------------------------------------------------------------------------
(* The least that a new task must be sent with *)

LEMMA WeightNat ==
  ASSUME NEW message \in Message
  PROVE  Weight(message) \in Nat
  BY DEF Message, Weight, System

(* The recursion of Estimate, unfolded *)
LEMMA EstimateIsSum ==
  ASSUME NEW m \in Seq(Message)
  PROVE  Estimate(m) = SumOf([n \in 1..Len(m) |-> Weight(m[n])], Len(m))
  <1> DEFINE l == Len(m)
             w == [n \in 1..l |-> Weight(m[n])]
             sum[n \in 0..l] == IF n = 0 THEN 0 ELSE sum[n - 1] + Weight(m[n])
  <1>1. l \in Nat /\ w \in [1..l -> Nat]
    BY WeightNat, ElementOfSeq
  <1>2. Estimate(m) = sum[l]
    BY DEF Estimate
  <1>3. PICK f : Sums(f, w, l)
    BY <1>1, SumsExist
  <1>4. f = [n \in 0..l |-> IF n = 0 THEN 0 ELSE f[n - 1] + Weight(m[n])]
    BY <1>1, <1>3 DEF Sums, Adds
  <1>5. sum = [n \in 0..l |-> IF n = 0 THEN 0 ELSE sum[n - 1] + Weight(m[n])]
    BY <1>4
  <1> HIDE DEF sum
  <1>6. Adds(sum, w, l)
    BY <1>1, <1>5 DEF Adds
  <1> HIDE DEF w, l
  <1>7. sum[l] = SumOf(w, l)
    <2>1. sum[l] = f[l]
      BY <1>1, <1>3, <1>6, SumsAgree
    <2>2. SumOf(w, l) = f[l]
      BY <1>1, <1>3, SumIs
    <2> QED BY <2>1, <2>2
  <1> QED BY <1>2, <1>7 DEF l, w

(* The system message and a task weigh as much as the task *)
LEMMA TaskAlone ==
  ASSUME NEW m \in Seq(Message), Len(m) = 2, m[1].role = "system",
         NEW size \in Nat, m[2] = User(size)
  PROVE  Estimate(m) = size
  <1> DEFINE w == [n \in 1..2 |-> Weight(m[n])]
             first == [n \in 1..1 |-> Weight(m[n])]
  <1>1. w \in [1..2 -> Nat] /\ first \in [1..1 -> Nat]
    <2>1. \A n \in 1..2 : Weight(m[n]) \in Nat
      BY WeightNat, ElementOfSeq
    <2> QED BY <2>1
  <1>2. w[1] = 0 /\ first[1] = 0 /\ w[2] = size
    BY DEF Weight, User
  <1>3. w[1] = first[1]
    BY <1>2
  <1>4. Estimate(m) = SumOf(w, 2)
    BY EstimateIsSum
  <1> HIDE DEF w, first
  <1>5. SumOf(w, 2) = SumOf(first, 1) + w[2]
    <2>1. \A n \in 1..2 - 1 : first[n] = w[n]
      BY <1>3
    <2>2. 2 \in Nat \ {0} /\ 2 - 1 = 1
      OBVIOUS
    <2> QED BY <1>1, <2>1, <2>2, SumLast
  <1>6. SumOf(first, 1) = SumOf(first, 0) + first[1]
    <2>1. \A n \in 1..1 - 1 : first[n] = first[n]
      OBVIOUS
    <2>2. 1 \in Nat \ {0} /\ 1 - 1 = 0
      OBVIOUS
    <2> QED BY <1>1, <2>1, <2>2, SumLast
  <1> QED BY <1>2, <1>4, <1>5, <1>6, SumNothing

(* After any history that can be replayed, a task within the budget can be  *)
(* sent: at the least, everything before it is cut                          *)
LEMMA ShortTaskIsPreparable ==
  ASSUME NEW m \in Seq(Message), m = <<System>> \/ Replayable(m), NEW size \in 1..InputBudget
  PROVE  ~Unpreparable(Append(m, User(size)))
  <1> DEFINE n == Append(m, User(size))
             last == Len(m) + 1
             sent == FromTurn(n, last)
  <1>1. size \in Nat /\ size <= InputBudget
    BY BudgetAssumption
  <1>2. n \in Seq(Message) /\ Replayable(n)
    BY <1>1, AppendUser
  <1>3. Len(m) \in Nat /\ Len(n) = last /\ n[last] = User(size) /\ DOMAIN n = 1..last
    BY <1>1, MessagesAre, AppendProperties, LenProperties
  <1> HIDE DEF n
  <1>4. last \in UserAt(n)
    BY <1>3 DEF UserAt, User
  <1>5. sent \in Seq(Message) /\ Replayable(sent)
    BY <1>2, <1>4, TurnKept
  <1>6. Len(sent) = 2 /\ sent[2] = User(size)
    <2> DEFINE head == <<n[1]>>
    <2>1. head \in Seq(Message) /\ Len(head) = 1
      BY <1>2, <1>3, ElementOfSeq
    <2>2. last \in 1..Len(n) /\ last \in last..Len(n)
      BY <1>3
    <2>3. /\ Len(head \o SubSeq(n, last, Len(n))) = Len(n) + (Len(head) + 1 - last)
          /\ \A j \in last..Len(n) : (head \o SubSeq(n, last, Len(n)))[j + (Len(head) + 1 - last)] = n[j]
      <3> HIDE DEF last, head
      <3> QED BY <1>2, <2>1, <2>2, KeptFrom
    <2>4. Len(n) + (Len(head) + 1 - last) = 2 /\ last + (Len(head) + 1 - last) = 2
      BY <1>3, <2>1
    <2>5. sent = head \o SubSeq(n, last, Len(n))
      BY DEF FromTurn
    <2> HIDE DEF head, sent, last
    <2> QED BY <1>3, <2>2, <2>3, <2>4, <2>5
  <1> HIDE DEF sent
  <1>7. Estimate(sent) = size
    BY <1>1, <1>5, <1>6, TaskAlone DEF Replayable, IsRole
  <1>8. last \in TurnCuts(n)
    BY <1>1, <1>4, <1>7 DEF TurnCuts, Fits, sent
  <1> QED BY <1>2, <1>8 DEF Unpreparable, n

(* The session is never wedged: at the prompt, whatever was run, aborted,    *)
(* trimmed or compacted before, a task within the budget gets to its request *)
THEOREM SessionsAreNeverWedged == LoopSpec => []NeverWedged
  <1>1. LoopInv => NeverWedged
    BY ShortTaskIsPreparable DEF LoopInv, HistoryInv, HistoryReplayable, NeverWedged
  <1> QED BY <1>1, LoopInvariantHolds, PTL

-----------------------------------------------------------------------------
(* Runs of failures, and of one call with one result *)

(* The longest run of failures that ends at n has f results *)
FailuresAt(pairs, n, f) ==
  /\ f \in 0..n
  /\ \A i \in n - f + 1..n : pairs[i][2] # "ok"
  /\ f < n => pairs[n - f][2] = "ok"

(* The longest run of the n-th result has r of them *)
RepeatsAt(pairs, n, r) ==
  IF n = 0 THEN r = 0
  ELSE /\ r \in 1..n
       /\ \A i \in n - r + 1..n : pairs[i] = pairs[n]
       /\ r < n => pairs[n - r] # pairs[n]

(* size results in a row that end at n *)
FailedTo(pairs, n, size) == \A i \in n - size + 1..n : pairs[i][2] # "ok"
EqualTo(pairs, n, size) == \A i, j \in n - size + 1..n : pairs[i] = pairs[j]

LEMMA FailuresNext ==
  ASSUME NEW pairs, NEW n \in Nat, NEW f, FailuresAt(pairs, n, f)
  PROVE  FailuresAt(pairs, n + 1, IF pairs[n + 1][2] = "ok" THEN 0 ELSE f + 1)
  <1>1. CASE pairs[n + 1][2] = "ok"
    BY <1>1 DEF FailuresAt
  <1>2. CASE pairs[n + 1][2] # "ok"
    <2>1. f \in Nat /\ f + 1 \in 0..n + 1 /\ (n + 1) - (f + 1) = n - f
      BY DEF FailuresAt
    <2>2. \A i \in (n + 1) - (f + 1) + 1..n + 1 : i = n + 1 \/ i \in n - f + 1..n
      BY <2>1
    <2> QED BY <1>2, <2>1, <2>2 DEF FailuresAt
  <1> QED BY <1>1, <1>2

LEMMA RepeatsNext ==
  ASSUME NEW pairs, NEW n \in Nat, NEW r, RepeatsAt(pairs, n, r)
  PROVE  RepeatsAt(pairs, n + 1, IF n # 0 /\ pairs[n + 1] = pairs[n] THEN r + 1 ELSE 1)
  <1>1. CASE n # 0 /\ pairs[n + 1] = pairs[n]
    <2>1. r \in 1..n /\ r + 1 \in 1..n + 1 /\ (n + 1) - (r + 1) = n - r
      BY <1>1 DEF RepeatsAt
    <2>2. \A i \in (n + 1) - (r + 1) + 1..n + 1 : i = n + 1 \/ i \in n - r + 1..n
      BY <2>1
    <2> QED BY <1>1, <2>1, <2>2 DEF RepeatsAt
  <1>2. CASE n = 0 \/ pairs[n + 1] # pairs[n]
    <2>1. \A i \in (n + 1) - 1 + 1..n + 1 : i = n + 1
      OBVIOUS
    <2> QED BY <1>2, <2>1 DEF RepeatsAt
  <1> QED BY <1>1, <1>2

(* A run is long enough where a window of that size ends, and only there *)
LEMMA FailuresWindow ==
  ASSUME NEW pairs, NEW n \in Nat, NEW f, FailuresAt(pairs, n, f), NEW size \in 1..n
  PROVE  FailedTo(pairs, n, size) <=> f >= size
  <1>1. ASSUME f >= size PROVE FailedTo(pairs, n, size)
    BY <1>1 DEF FailuresAt, FailedTo
  <1>2. ASSUME ~(f >= size) PROVE ~FailedTo(pairs, n, size)
    <2>1. f \in Nat /\ f < n /\ n - f \in n - size + 1..n
      BY <1>2 DEF FailuresAt
    <2> QED BY <2>1 DEF FailuresAt, FailedTo
  <1> QED BY <1>1, <1>2

LEMMA RepeatsWindow ==
  ASSUME NEW pairs, NEW n \in Nat, NEW r, RepeatsAt(pairs, n, r), NEW size \in 1..n
  PROVE  EqualTo(pairs, n, size) <=> r >= size
  <1>0. n # 0 /\ r \in 1..n
    BY DEF RepeatsAt
  <1>1. ASSUME r >= size PROVE EqualTo(pairs, n, size)
    BY <1>0, <1>1 DEF RepeatsAt, EqualTo
  <1>2. ASSUME ~(r >= size) PROVE ~EqualTo(pairs, n, size)
    <2>1. r < n /\ n - r \in n - size + 1..n /\ n \in n - size + 1..n
      BY <1>0, <1>2
    <2> QED BY <1>0, <2>1 DEF RepeatsAt, EqualTo
  <1> QED BY <1>1, <1>2

Pairs == Asks \X Replies

LEMMA WindowIs ==
  ASSUME NEW pairs \in Seq(Pairs), NEW size \in Nat \ {0}, NEW k \in 1..Len(pairs) - size + 1
  PROVE  LET window == SubSeq(pairs, k, k + size - 1)
             n == k + size - 1
         IN  /\ AllFailed(window) <=> FailedTo(pairs, n, size)
             /\ AllEqual(window) <=> EqualTo(pairs, n, size)
  <1> DEFINE n == k + size - 1
             window == SubSeq(pairs, k, n)
  <1>1. /\ Len(pairs) \in Nat /\ k \in Nat /\ n \in Nat /\ n <= Len(pairs) /\ n - size + 1 = k
        /\ \A i \in k..n : i \in 1..Len(pairs)
    BY LenProperties
  <1>2. \A i \in k..n : pairs[i] \in Pairs
    BY <1>1, ElementOfSeq
  <1>3. /\ Len(window) = IF k <= n THEN n - k + 1 ELSE 0
        /\ window \in Seq(Pairs)
        /\ \A i \in 1..n - k + 1 : window[i] = pairs[k + i - 1]
    <2> HIDE DEF n
    <2> QED BY <1>1, <1>2, SubSeqProperties
  <1>4. DOMAIN window = 1..size /\ n - k + 1 = size
    BY <1>1, <1>3, LenProperties
  <1> HIDE DEF window
  <1>5. \A i \in DOMAIN window : k + i - 1 \in k..n /\ window[i] = pairs[k + i - 1]
    BY <1>1, <1>3, <1>4
  <1>6. \A i \in k..n : i - k + 1 \in DOMAIN window /\ k + (i - k + 1) - 1 = i
    BY <1>1, <1>4
  <1>7. \A i \in k..n : window[i - k + 1] = pairs[i]
    BY <1>5, <1>6
  <1>8. AllFailed(window) <=> FailedTo(pairs, n, size)
    <2> HIDE DEF n
    <2>1. ASSUME AllFailed(window), NEW i \in k..n PROVE pairs[i][2] # "ok"
      <3>1. window[i - k + 1][2] # "ok"
        BY <1>6, <2>1 DEF AllFailed
      <3> QED BY <1>7, <3>1
    <2>2. ASSUME \A i \in k..n : pairs[i][2] # "ok" PROVE AllFailed(window)
      BY <1>5, <2>2 DEF AllFailed
    <2> QED BY <1>1, <2>1, <2>2 DEF FailedTo
  <1>9. AllEqual(window) <=> EqualTo(pairs, n, size)
    <2> HIDE DEF n
    <2>1. ASSUME AllEqual(window), NEW i \in k..n, NEW j \in k..n PROVE pairs[i] = pairs[j]
      <3>1. window[i - k + 1] = window[j - k + 1]
        BY <1>6, <2>1 DEF AllEqual
      <3> QED BY <1>7, <3>1
    <2>2. ASSUME \A i, j \in k..n : pairs[i] = pairs[j] PROVE AllEqual(window)
      <3>1. ASSUME NEW a \in DOMAIN window, NEW b \in DOMAIN window PROVE window[a] = window[b]
        BY <1>5, <2>2
      <3> QED BY <3>1 DEF AllEqual
    <2> QED BY <1>1, <2>1, <2>2 DEF EqualTo
  <1> QED BY <1>8, <1>9 DEF window

(* A window is one that ends somewhere *)
LEMMA WindowsEnd ==
  ASSUME outcomes \in Seq(Pairs), NEW size \in Nat \ {0}
  PROVE  /\ HasWindow(size, AllFailed) <=> \E n \in size..Len(outcomes) : FailedTo(outcomes, n, size)
         /\ HasWindow(size, AllEqual) <=> \E n \in size..Len(outcomes) : EqualTo(outcomes, n, size)
  <1>1. Len(outcomes) \in Nat
    BY LenProperties
  <1>2. \A k \in 1..Len(outcomes) - size + 1 : k + size - 1 \in size..Len(outcomes)
    BY <1>1
  <1>3. \A n \in size..Len(outcomes) :
          n - size + 1 \in 1..Len(outcomes) - size + 1 /\ (n - size + 1) + size - 1 = n
    BY <1>1
  <1>4. \A k \in 1..Len(outcomes) - size + 1 :
          /\ AllFailed(SubSeq(outcomes, k, k + size - 1)) <=> FailedTo(outcomes, k + size - 1, size)
          /\ AllEqual(SubSeq(outcomes, k, k + size - 1)) <=> EqualTo(outcomes, k + size - 1, size)
    BY WindowIs
  <1>5. HasWindow(size, AllFailed) <=>
          \E k \in 1..Len(outcomes) - size + 1 : FailedTo(outcomes, k + size - 1, size)
    BY <1>4 DEF HasWindow
  <1>6. HasWindow(size, AllEqual) <=>
          \E k \in 1..Len(outcomes) - size + 1 : EqualTo(outcomes, k + size - 1, size)
    BY <1>4 DEF HasWindow
  <1> QED BY <1>2, <1>3, <1>5, <1>6

-----------------------------------------------------------------------------
(* What the counters count *)

CountersOf(pairs) ==
  /\ FailuresAt(pairs, Len(pairs), failures)
  /\ RepeatsAt(pairs, Len(pairs), repeated)
  /\ previous = IF Len(pairs) = 0 THEN <<>> ELSE pairs[Len(pairs)]

CountersInv ==
  /\ outcomes \in Seq(Pairs)
  /\ pc \in {"prepare", "request", "execute", "commit"} =>
       /\ CountersOf(outcomes)
       /\ \A n \in MaxFailures..Len(outcomes) : ~FailedTo(outcomes, n, MaxFailures)
       /\ \A n \in MaxRepeats..Len(outcomes) : ~EqualTo(outcomes, n, MaxRepeats)
  /\ pc = "ready" => outcomes = <<>> /\ failures = 0 /\ repeated = 0 /\ previous = <<>>
  /\ status = "CONSECUTIVE_TOOL_FAILURES" =>
       \E n \in MaxFailures..Len(outcomes) : FailedTo(outcomes, n, MaxFailures)
  /\ status = "REPEATED_CALL" =>
       \E n \in MaxRepeats..Len(outcomes) : EqualTo(outcomes, n, MaxRepeats)

LEMMA RepeatLimits == MaxFailures \in Nat \ {0} /\ MaxRepeats \in Nat \ {0}
  BY LoopLimits

(* The recursions of the counters, unfolded *)
LEMMA FailuresUnfold ==
  ASSUME failures \in Nat
  PROVE  /\ FailuresAfter[0] = failures
         /\ \A k \in Nat :
              FailuresAfter[k + 1] = IF results[k + 1] = "ok" THEN 0 ELSE FailuresAfter[k] + 1
  <1> DEFINE step == [k \in Nat |-> [v \in Nat |-> IF results[k + 1] = "ok" THEN 0 ELSE v + 1]]
  <1>1. step \in Steps(Nat)
    BY DEF Steps
  <1>2. \A k, v \in Nat : step[k][v] = IF results[k + 1] = "ok" THEN 0 ELSE v + 1
    OBVIOUS
  <1> HIDE DEF step
  <1>3. PICK f : Makes(f, Nat, failures, step)
    BY <1>1, RecursionExists
  <1>4. /\ f = [k \in Nat |-> f[k]] /\ f[0] = failures
        /\ \A k \in Nat : f[k] \in Nat /\ f[k + 1] = IF results[k + 1] = "ok" THEN 0 ELSE f[k] + 1
    <2>1. /\ f \in [Nat -> Nat] /\ f[0] = failures
          /\ \A k \in Nat : f[k + 1] = step[k][f[k]]
      BY <1>3 DEF Makes
    <2>2. \A k \in Nat : f[k] \in Nat
      BY <2>1
    <2>3. ASSUME NEW k \in Nat
          PROVE  f[k + 1] = IF results[k + 1] = "ok" THEN 0 ELSE f[k] + 1
      BY <1>2, <2>1, <2>2
    <2> QED BY <2>1, <2>2, <2>3
  <1>5. \A k \in Nat : k # 0 => k - 1 \in Nat /\ (k - 1) + 1 = k
    OBVIOUS
  <1>6. \A k \in Nat :
          f[k] = IF k = 0 THEN failures ELSE IF results[k] = "ok" THEN 0 ELSE f[k - 1] + 1
    BY <1>4, <1>5
  <1>7. f = [k \in Nat |-> IF k = 0 THEN failures ELSE IF results[k] = "ok" THEN 0 ELSE f[k - 1] + 1]
    BY <1>4, <1>6
  <1>8. FailuresAfter =
          [k \in Nat |-> IF k = 0 THEN failures
                         ELSE IF results[k] = "ok" THEN 0 ELSE FailuresAfter[k - 1] + 1]
    BY <1>7 DEF FailuresAfter
  <1>9. \A k \in Nat : k + 1 \in Nat /\ k + 1 # 0 /\ (k + 1) - 1 = k
    OBVIOUS
  <1> QED BY <1>8, <1>9

LEMMA RepeatsUnfold ==
  ASSUME repeated \in Nat
  PROVE  /\ RepeatedAfter[0] = repeated
         /\ \A k \in Nat :
              RepeatedAfter[k + 1] =
                IF Pair(k + 1) = PreviousAfter(k) THEN RepeatedAfter[k] + 1 ELSE 1
  <1> DEFINE step == [k \in Nat |-> [v \in Nat |-> IF Pair(k + 1) = PreviousAfter(k) THEN v + 1 ELSE 1]]
  <1>1. step \in Steps(Nat)
    BY DEF Steps
  <1>2. \A k, v \in Nat : step[k][v] = IF Pair(k + 1) = PreviousAfter(k) THEN v + 1 ELSE 1
    OBVIOUS
  <1> HIDE DEF step
  <1>3. PICK f : Makes(f, Nat, repeated, step)
    BY <1>1, RecursionExists
  <1>4. /\ f = [k \in Nat |-> f[k]] /\ f[0] = repeated
        /\ \A k \in Nat : f[k] \in Nat
             /\ f[k + 1] = IF Pair(k + 1) = PreviousAfter(k) THEN f[k] + 1 ELSE 1
    BY <1>2, <1>3 DEF Makes
  <1>5. ASSUME NEW k \in Nat, k # 0
        PROVE  f[k] = IF Pair(k) = PreviousAfter(k - 1) THEN f[k - 1] + 1 ELSE 1
    <2>1. k - 1 \in Nat /\ (k - 1) + 1 = k
      BY <1>5
    <2>2. f[(k - 1) + 1] =
            IF Pair((k - 1) + 1) = PreviousAfter(k - 1) THEN f[k - 1] + 1 ELSE 1
      BY <1>4, <2>1
    <2> QED BY <2>1, <2>2
  <1>6. \A k \in Nat :
          f[k] = IF k = 0 THEN repeated
                 ELSE IF Pair(k) = PreviousAfter(k - 1) THEN f[k - 1] + 1 ELSE 1
    BY <1>4, <1>5
  <1>7. f = [k \in Nat |-> IF k = 0 THEN repeated
                           ELSE IF Pair(k) = PreviousAfter(k - 1) THEN f[k - 1] + 1 ELSE 1]
    BY <1>4, <1>6
  <1>8. RepeatedAfter =
          [k \in Nat |-> IF k = 0 THEN repeated
                         ELSE IF Pair(k) = PreviousAfter(k - 1) THEN RepeatedAfter[k - 1] + 1 ELSE 1]
    BY <1>7 DEF RepeatedAfter
  <1>9. \A k \in Nat : k + 1 \in Nat /\ k + 1 # 0 /\ (k + 1) - 1 = k
    OBVIOUS
  <1> QED BY <1>8, <1>9

(* The results of a run, round after round *)
LEMMA PairsAre ==
  ASSUME turn.calls \in Seq([id : CallIds, asks : Asks]), results \in Seq(Replies),
         Len(results) = Len(turn.calls), outcomes \in Seq(Pairs)
  PROVE  LET round == [k \in DOMAIN results |-> Pair(k)]
             all == outcomes \o round
         IN  /\ all \in Seq(Pairs) /\ Len(all) = Len(outcomes) + Len(results)
             /\ \A i \in 1..Len(outcomes) : all[i] = outcomes[i]
             /\ \A k \in 1..Len(results) : all[Len(outcomes) + k] = Pair(k)
  <1> DEFINE round == [k \in DOMAIN results |-> Pair(k)]
  <1>1. /\ Len(results) \in Nat /\ Len(outcomes) \in Nat
        /\ DOMAIN results = 1..Len(results)
    BY LenProperties
  <1>2. ASSUME NEW k \in 1..Len(results) PROVE Pair(k) \in Pairs
    <2>1. turn.calls[k] \in [id : CallIds, asks : Asks] /\ results[k] \in Replies
      BY ElementOfSeq
    <2> QED BY <2>1 DEF Pair, Pairs
  <1>3. round \in Seq(Pairs) /\ Len(round) = Len(results)
        /\ \A k \in 1..Len(results) : round[k] = Pair(k)
    BY <1>1, <1>2
  <1> HIDE DEF round
  <1>4. /\ outcomes \o round \in Seq(Pairs)
        /\ Len(outcomes \o round) = Len(outcomes) + Len(round)
        /\ \A i \in 1..Len(outcomes) + Len(round) :
             (outcomes \o round)[i] =
               IF i <= Len(outcomes) THEN outcomes[i] ELSE round[i - Len(outcomes)]
    <2>1. outcomes \in Seq(Pairs) /\ round \in Seq(Pairs)
      BY <1>3
    <2> QED BY ONLY <2>1, ConcatProperties
  <1>5. ASSUME NEW k \in 1..Len(results) PROVE (outcomes \o round)[Len(outcomes) + k] = Pair(k)
    <2>1. /\ Len(outcomes) + k \in 1..Len(outcomes) + Len(round)
          /\ ~(Len(outcomes) + k <= Len(outcomes)) /\ (Len(outcomes) + k) - Len(outcomes) = k
      BY <1>1, <1>3
    <2>2. (outcomes \o round)[Len(outcomes) + k] = round[(Len(outcomes) + k) - Len(outcomes)]
      BY <1>4, <2>1
    <2> QED BY <1>3, <2>1, <2>2
  <1>6. \A i \in 1..Len(outcomes) : (outcomes \o round)[i] = outcomes[i]
    BY <1>1, <1>3, <1>4
  <1> QED BY <1>3, <1>4, <1>5, <1>6 DEF round

(* Result by result, the counters keep the lengths of the runs *)
LEMMA CountersFollow ==
  ASSUME turn.calls \in Seq([id : CallIds, asks : Asks]), results \in Seq(Replies),
         Len(results) = Len(turn.calls), outcomes \in Seq(Pairs), CountersOf(outcomes),
         NEW k \in 0..Len(results)
  PROVE  LET all == outcomes \o [j \in DOMAIN results |-> Pair(j)]
             n == Len(outcomes) + k
         IN  /\ FailuresAt(all, n, FailuresAfter[k])
             /\ RepeatsAt(all, n, RepeatedAfter[k])
             /\ PreviousAfter(k) = IF n = 0 THEN <<>> ELSE all[n]
  <1> DEFINE all == outcomes \o [j \in DOMAIN results |-> Pair(j)]
             l == Len(outcomes)
             Follows(j) == /\ FailuresAt(all, l + j, FailuresAfter[j])
                           /\ RepeatsAt(all, l + j, RepeatedAfter[j])
                           /\ PreviousAfter(j) = IF l + j = 0 THEN <<>> ELSE all[l + j]
             S == {j \in Nat : j <= Len(results) => Follows(j)}
  <1>1. /\ all \in Seq(Pairs) /\ Len(all) = l + Len(results)
        /\ \A i \in 1..l : all[i] = outcomes[i]
        /\ \A j \in 1..Len(results) : all[l + j] = Pair(j)
    BY PairsAre
  <1>2. l \in Nat /\ Len(results) \in Nat
    BY LenProperties
  <1>3. FailuresAt(outcomes, l, failures) /\ RepeatsAt(outcomes, l, repeated)
        /\ previous = IF l = 0 THEN <<>> ELSE outcomes[l]
    BY DEF CountersOf
  <1>4. failures \in Nat /\ repeated \in Nat
    BY <1>2, <1>3 DEF FailuresAt, RepeatsAt
  <1> HIDE DEF all, l
  <1>5. Follows(0)
    <2>1. FailuresAt(all, l, failures)
      <3>1. failures \in 0..l /\ \A i \in l - failures + 1..l : i \in 1..l
        BY <1>2, <1>3 DEF FailuresAt
      <3>2. failures < l => l - failures \in 1..l
        BY <1>2, <3>1
      <3> QED BY <1>1, <1>3, <3>1, <3>2 DEF FailuresAt
    <2>2. RepeatsAt(all, l, repeated)
      <3>1. CASE l = 0
        BY <1>3, <3>1 DEF RepeatsAt
      <3>2. CASE l # 0
        <4>1. repeated \in 1..l /\ l \in 1..l /\ \A i \in l - repeated + 1..l : i \in 1..l
          BY <1>2, <1>3, <3>2 DEF RepeatsAt
        <4>2. repeated < l => l - repeated \in 1..l
          BY <1>2, <4>1
        <4> QED BY <1>1, <1>3, <3>2, <4>1, <4>2 DEF RepeatsAt
      <3> QED BY <3>1, <3>2
    <2>3. previous = IF l = 0 THEN <<>> ELSE all[l]
      <3>1. l # 0 => l \in 1..l
        BY <1>2
      <3>2. l # 0 => all[l] = outcomes[l]
        BY <1>1, <3>1
      <3> QED BY <1>3, <3>2
    <2>4. FailuresAfter[0] = failures /\ RepeatedAfter[0] = repeated /\ PreviousAfter(0) = previous
      BY <1>4, FailuresUnfold, RepeatsUnfold DEF PreviousAfter
    <2>5. l + 0 = l
      BY <1>2
    <2> QED BY <2>1, <2>2, <2>3, <2>4, <2>5
  <1>6. ASSUME NEW j \in Nat, j + 1 <= Len(results), Follows(j)
        PROVE  Follows(j + 1)
    <2> DEFINE n == l + j
    <2>0. j \in Nat /\ j + 1 <= Len(results)
      BY <1>6
    <2>1. n \in Nat /\ n + 1 = l + (j + 1) /\ j + 1 \in 1..Len(results)
      BY ONLY <1>2, <2>0
    <2>2. all[n + 1] = Pair(j + 1)
      BY <1>1, <2>1
    <2>3. FailuresAfter[j + 1] = IF all[n + 1][2] = "ok" THEN 0 ELSE FailuresAfter[j] + 1
      <3>1. all[n + 1][2] = results[j + 1]
        BY <2>2 DEF Pair
      <3> QED BY <1>4, <3>1, FailuresUnfold
    <2>4. RepeatedAfter[j + 1] =
            IF n # 0 /\ all[n + 1] = all[n] THEN RepeatedAfter[j] + 1 ELSE 1
      <3>1. Pair(j + 1) = PreviousAfter(j) <=> n # 0 /\ all[n + 1] = all[n]
        <4>1. Pair(j + 1) # <<>>
          BY DEF Pair
        <4> QED BY <1>6, <2>2, <4>1
      <3>2. RepeatedAfter[j + 1] =
              IF Pair(j + 1) = PreviousAfter(j) THEN RepeatedAfter[j] + 1 ELSE 1
        BY <1>4, RepeatsUnfold
      <3> QED BY <3>1, <3>2
    <2>5. PreviousAfter(j + 1) = all[n + 1]
      BY <2>2 DEF PreviousAfter
    <2>6. FailuresAt(all, n + 1, FailuresAfter[j + 1])
      BY <1>6, <2>1, <2>3, FailuresNext
    <2>7. RepeatsAt(all, n + 1, RepeatedAfter[j + 1])
      BY <1>6, <2>1, <2>4, RepeatsNext
    <2> HIDE DEF n
    <2> QED BY <2>1, <2>5, <2>6, <2>7
  <1>7. 0 \in S
    BY <1>5
  <1>8. ASSUME NEW j \in Nat, j \in S PROVE j + 1 \in S
    <2>1. j + 1 <= Len(results) => j <= Len(results)
      BY <1>2
    <2> HIDE DEF Follows
    <2> QED BY <1>6, <1>8, <2>1
  <1> HIDE DEF S
  <1>9. k \in S
    BY <1>7, <1>8, Induction
  <1>10. Follows(k)
    <2> HIDE DEF Follows
    <2> QED BY <1>2, <1>9 DEF S
  <1> QED BY <1>10 DEF all, l

Loops == {"CONSECUTIVE_TOOL_FAILURES", "REPEATED_CALL"}

LEMMA OutcomesStay ==
  ASSUME CountersInv, UNCHANGED <<outcomes, failures, previous, repeated>>,
         pc \in {"prepare", "request", "execute", "commit"}, pc' # "ready",
         status' \notin Loops
  PROVE  CountersInv'
  BY DEF CountersInv, CountersOf, Loops

(* Before a run's first result, no run of results is counted *)
LEMMA NoRunYet ==
  /\ <<>> \in Seq(Pairs) /\ Len(<<>>) = 0
  /\ FailuresAt(<<>>, 0, 0) /\ RepeatsAt(<<>>, 0, 0)
  /\ \A n \in MaxFailures..0 : FALSE
  /\ \A n \in MaxRepeats..0 : FALSE
  <1>1. <<>> \in Seq(Pairs) /\ Len(<<>>) = 0
    BY EmptySeq
  <1>2. FailuresAt(<<>>, 0, 0)
    <2>1. \A i \in 0 - 0 + 1..0 : FALSE
      OBVIOUS
    <2>2. 0 \in 0..0 /\ ~(0 < 0)
      OBVIOUS
    <2> QED BY ONLY <2>1, <2>2, Zenon DEF FailuresAt
  <1>3. RepeatsAt(<<>>, 0, 0)
    BY DEF RepeatsAt
  <1>4. (\A n \in MaxFailures..0 : FALSE) /\ (\A n \in MaxRepeats..0 : FALSE)
    BY RepeatLimits
  <1> QED BY <1>1, <1>2, <1>3, <1>4

LEMMA NothingCounted ==
  ASSUME outcomes' = <<>>, failures' = 0, repeated' = 0, previous' = <<>>, status' = ""
  PROVE  CountersInv'
  <1>1. /\ FailuresAt(outcomes', Len(outcomes'), failures')
        /\ RepeatsAt(outcomes', Len(outcomes'), repeated')
        /\ Len(outcomes') = 0 /\ outcomes' \in Seq(Pairs)
    BY NoRunYet
  <1>2. \A n : n \notin MaxFailures..0 /\ n \notin MaxRepeats..0
    BY NoRunYet
  <1> QED BY <1>1, <1>2 DEF CountersInv, CountersOf

(* A window of the results so far is one that was there before the round, or *)
(* one that ends at a result of the round                                    *)
LEMMA CommitCounts ==
  ASSUME LoopInv, CountersInv, Commit
  PROVE  CountersInv'
  <1> DEFINE all == outcomes \o [k \in DOMAIN results |-> Pair(k)]
             l == Len(outcomes)
             c == Len(results)
  <1>1. /\ pc = "commit" /\ outcomes' = all
        /\ failures' = FailuresAfter[c] /\ previous' = PreviousAfter(c) /\ repeated' = RepeatedAfter[c]
        /\ IF Verdict = "continue" THEN pc' = "prepare" /\ UNCHANGED status ELSE Stop(Verdict)
    BY DEF Commit
  <1>2. /\ turn.calls \in Seq([id : CallIds, asks : Asks]) /\ results \in Seq(Replies)
        /\ Len(results) = Len(turn.calls) /\ outcomes \in Seq(Pairs) /\ CountersOf(outcomes)
        /\ \A n \in MaxFailures..l : ~FailedTo(outcomes, n, MaxFailures)
        /\ \A n \in MaxRepeats..l : ~EqualTo(outcomes, n, MaxRepeats)
        /\ status = ""
    BY <1>1 DEF LoopInv, RunInv, RepliesInv, CountersInv
  <1>3. l \in Nat /\ c \in Nat /\ DOMAIN results = 1..c
    BY <1>2, LenProperties
  <1>4. /\ all \in Seq(Pairs) /\ Len(all) = l + c
        /\ \A i \in 1..l : all[i] = outcomes[i]
    BY <1>2, PairsAre
  <1>5. \A k \in 0..c :
          /\ FailuresAt(all, l + k, FailuresAfter[k])
          /\ RepeatsAt(all, l + k, RepeatedAfter[k])
          /\ PreviousAfter(k) = IF l + k = 0 THEN <<>> ELSE all[l + k]
    BY <1>2, CountersFollow
  <1> HIDE DEF all, l, c
  <1>6. c \in 0..c /\ l + c \in Nat
    BY <1>3
  <1>7. /\ FailuresAt(outcomes', l + c, failures') /\ RepeatsAt(outcomes', l + c, repeated')
        /\ previous' = (IF l + c = 0 THEN <<>> ELSE outcomes'[l + c])
        /\ Len(outcomes') = l + c
    BY <1>1, <1>4, <1>5, <1>6
  <1>8. ASSUME NEW n \in MaxFailures..l + c, FailedTo(all, n, MaxFailures)
        PROVE  \E k \in 1..c : n = l + k /\ FailuresAfter[k] >= MaxFailures
    <2>1. CASE n <= l
      <3>1. \A i \in n - MaxFailures + 1..n : i \in 1..l
        BY <1>3, <2>1, RepeatLimits
      <3>2. FailedTo(outcomes, n, MaxFailures)
        BY <1>4, <1>8, <3>1 DEF FailedTo
      <3>3. n \in MaxFailures..l
        BY <1>3, <2>1, RepeatLimits
      <3> QED BY <1>2, <3>2, <3>3 DEF l
    <2>2. CASE n > l
      <3> DEFINE k == n - l
      <3>1. k \in 1..c /\ k \in 0..c /\ l + k = n /\ n \in Nat /\ MaxFailures \in 1..n
        BY <1>3, <2>2, RepeatLimits
      <3>2. FailuresAt(all, n, FailuresAfter[k])
        BY <1>5, <3>1
      <3> QED BY <1>8, <3>1, <3>2, FailuresWindow
    <2> QED BY <1>3, <2>1, <2>2, RepeatLimits
  <1>9. ASSUME NEW n \in MaxRepeats..l + c, EqualTo(all, n, MaxRepeats)
        PROVE  \E k \in 1..c : n = l + k /\ RepeatedAfter[k] >= MaxRepeats
    <2>1. CASE n <= l
      <3>1. \A i \in n - MaxRepeats + 1..n : i \in 1..l
        BY <1>3, <2>1, RepeatLimits
      <3>2. EqualTo(outcomes, n, MaxRepeats)
        BY <1>4, <1>9, <3>1 DEF EqualTo
      <3>3. n \in MaxRepeats..l
        BY <1>3, <2>1, RepeatLimits
      <3> QED BY <1>2, <3>2, <3>3 DEF l
    <2>2. CASE n > l
      <3> DEFINE k == n - l
      <3>1. k \in 1..c /\ k \in 0..c /\ l + k = n /\ n \in Nat /\ MaxRepeats \in 1..n
        BY <1>3, <2>2, RepeatLimits
      <3>2. RepeatsAt(all, n, RepeatedAfter[k])
        BY <1>5, <3>1
      <3> QED BY <1>9, <3>1, <3>2, RepeatsWindow
    <2> QED BY <1>3, <2>1, <2>2, RepeatLimits
  <1>10. ASSUME NEW k \in 1..c, FailuresAfter[k] >= MaxFailures
         PROVE  l + k \in MaxFailures..l + c /\ FailedTo(all, l + k, MaxFailures)
    <2>1. k \in 0..c /\ l + k \in Nat /\ l + k <= l + c
      BY <1>3
    <2>2. FailuresAt(all, l + k, FailuresAfter[k])
      BY <1>5, <2>1
    <2>3. MaxFailures \in 1..l + k
      BY <1>10, <2>1, <2>2, RepeatLimits DEF FailuresAt
    <2>4. FailedTo(all, l + k, MaxFailures)
      BY <1>10, <2>1, <2>2, <2>3, FailuresWindow
    <2> QED BY <1>3, <2>1, <2>3, <2>4
  <1>11. ASSUME NEW k \in 1..c, RepeatedAfter[k] >= MaxRepeats
         PROVE  l + k \in MaxRepeats..l + c /\ EqualTo(all, l + k, MaxRepeats)
    <2>1. k \in 0..c /\ l + k \in Nat /\ l + k <= l + c /\ l + k # 0
      BY <1>3
    <2>2. RepeatsAt(all, l + k, RepeatedAfter[k])
      BY <1>5, <2>1
    <2>3. MaxRepeats \in 1..l + k
      BY <1>11, <2>1, <2>2, RepeatLimits DEF RepeatsAt
    <2>4. EqualTo(all, l + k, MaxRepeats)
      BY <1>11, <2>1, <2>2, <2>3, RepeatsWindow
    <2> QED BY <1>3, <2>1, <2>3, <2>4
  <1>12. Verdict = "continue" =>
           /\ \A n \in MaxFailures..l + c : ~FailedTo(all, n, MaxFailures)
           /\ \A n \in MaxRepeats..l + c : ~EqualTo(all, n, MaxRepeats)
    BY <1>3, <1>8, <1>9 DEF Verdict, LimitReached
  <1>13. Verdict = "CONSECUTIVE_TOOL_FAILURES" =>
           \E n \in MaxFailures..l + c : FailedTo(all, n, MaxFailures)
    BY <1>3, <1>10 DEF Verdict, LimitReached
  <1>14. Verdict = "REPEATED_CALL" => \E n \in MaxRepeats..l + c : EqualTo(all, n, MaxRepeats)
    BY <1>3, <1>11 DEF Verdict, LimitReached
  <1>15. /\ pc' \in {"prepare", "result"}
         /\ pc' = "prepare" => Verdict = "continue" /\ status' = ""
         /\ pc' = "result" => status' = Verdict
    BY <1>1, <1>2 DEF Stop
  <1>16. CASE pc' = "prepare"
    BY <1>1, <1>4, <1>7, <1>12, <1>15, <1>16 DEF CountersInv, CountersOf, Loops
  <1>17. CASE pc' = "result"
    BY <1>1, <1>4, <1>13, <1>14, <1>15, <1>17 DEF CountersInv
  <1> QED BY <1>15, <1>16, <1>17

LEMMA CountersKeep == LoopInv /\ CountersInv /\ [LoopNext]_loopVars => CountersInv'
  <1> SUFFICES ASSUME LoopInv, CountersInv, [LoopNext]_loopVars PROVE CountersInv'
    OBVIOUS
  <1>0. pc # "result" => status = ""
    BY DEF LoopInv, RunInv
  <1>1. ASSUME NEW size \in Tasks, StartRun(size) PROVE CountersInv'
    BY <1>0, <1>1, NothingCounted DEF StartRun, counters, CountersInv
  <1>2. CASE RoundLimit
    BY <1>2, OutcomesStay DEF RoundLimit, Stop, counters, runHistory, Loops
  <1>3. CASE Prepare
    BY <1>0, <1>3, OutcomesStay DEF Prepare, counters, Loops
  <1>4. CASE ContextLimit
    BY <1>4, OutcomesStay DEF ContextLimit, Stop, counters, runHistory, Loops
  <1>5. CASE RequestFails
    BY <1>5, OutcomesStay DEF RequestFails, Stop, counters, runHistory, Loops
  <1>6. ASSUME NEW answer \in Turns, Answer(answer) PROVE CountersInv'
    <2>1. FinalStatus(answer) \notin Loops
      BY DEF FinalStatus, Loops
    <2> QED BY <1>6, <2>1, OutcomesStay DEF Answer, Stop, counters, runHistory
  <1>7. ASSUME NEW answer \in Turns, RefuseIds(answer) PROVE CountersInv'
    BY <1>7, OutcomesStay DEF RefuseIds, Stop, counters, runHistory, Loops
  <1>8. ASSUME NEW answer \in Turns, AskForTools(answer) PROVE CountersInv'
    BY <1>0, <1>8, OutcomesStay DEF AskForTools, counters, runHistory, Loops
  <1>9. ASSUME NEW reply \in Executed, ExecuteCall(reply) PROVE CountersInv'
    BY <1>0, <1>9, OutcomesStay DEF ExecuteCall, counters, Loops
  <1>10. CASE Commit
    BY <1>10, CommitCounts
  <1>11. CASE Return \/ Escape
    BY <1>11, NothingCounted DEF Return, Escape, Leave
  <1>12. CASE Reset \/ \E size \in Summaries : Compact(size)
    <2>1. pc = "ready" /\ status = "" /\ UNCHANGED <<status, outcomes, counters>>
      BY <1>0, <1>12 DEF Reset, Compact, runHistory
    <2> QED BY <2>1, NothingCounted DEF CountersInv, counters
  <1>13. CASE UNCHANGED loopVars
    BY <1>13 DEF loopVars, CountersInv, CountersOf
  <1> QED BY <1>1, <1>2, <1>3, <1>4, <1>5, <1>6, <1>7, <1>8, <1>9, <1>10, <1>11, <1>12, <1>13
          DEF LoopNext, RunStep

LEMMA CountersStart == LoopInit => CountersInv
  BY NoRunYet DEF LoopInit, CountersInv, CountersOf

(* The model is never asked again after as many failures in a row, or as     *)
(* many repetitions of one call with one result, as the limits allow, also   *)
(* across rounds; and a run stopped for that reason had them                 *)
THEOREM LoopsAlwaysBroken == LoopSpec => []LoopsAreBroken
  <1>1. CountersInv => LoopsAreBroken
    <2> SUFFICES ASSUME CountersInv PROVE LoopsAreBroken
      OBVIOUS
    <2>1. outcomes \in Seq(Pairs)
      BY DEF CountersInv
    <2>2. HasWindow(MaxFailures, AllFailed)
            <=> \E n \in MaxFailures..Len(outcomes) : FailedTo(outcomes, n, MaxFailures)
      BY <2>1, RepeatLimits, WindowsEnd
    <2>3. HasWindow(MaxRepeats, AllEqual)
            <=> \E n \in MaxRepeats..Len(outcomes) : EqualTo(outcomes, n, MaxRepeats)
      BY <2>1, RepeatLimits, WindowsEnd
    <2> QED BY <2>2, <2>3 DEF LoopsAreBroken, CountersInv
  <1> QED BY <1>1, CountersStart, CountersKeep, LoopInvariantHolds, PTL DEF LoopSpec
-----------------------------------------------------------------------------
(* A group that was parsed, and a turn: its user message, then groups *)
GroupShaped(g) ==
  /\ g \in Seq(Message) /\ Len(g) > 0
  /\ g[1].role = "assistant"
  /\ \A k \in 2..Len(g) : g[k].role = "tool"

TurnShaped(t) ==
  /\ t \in Seq(Seq(Message)) /\ Len(t) > 0
  /\ Len(t[1]) = 1 /\ t[1][1].role = "user"
  /\ \A k \in 2..Len(t) : GroupShaped(t[k])

Joined(turns) == FlattenSeq(FlattenSeq(turns))

(* The messages before i are as _parse_complete_turns wants them *)
ParsedTo(m, i) ==
  /\ IsRole(m, 1, "system") /\ IsRole(m, 2, "user")
  /\ \A j \in 2..i - 1 :
       \/ IsRole(m, j, "user")
       \/ IsRole(m, j, "assistant") /\ GroupAt(m, j)
       \/ IsRole(m, j, "tool") /\ m[j - 1].role \in {"assistant", "tool"}

ParseInv ==
  trimAt = "parse" =>
    /\ index \in 2..Len(input) + 1
    /\ ParsedTo(input, index)
    /\ IsRole(input, index, "tool") => input[index - 1].role = "user"
    /\ index > 2 => kept # <<>>
    /\ Joined(kept) = SubSeq(input, 2, index - 1)

(* The turns that are kept are the newest, and none of those popped fitted *)
TurnsInv ==
  trimAt = "turns" =>
    /\ Replayable(input) /\ kept # <<>>
    /\ \E p \in UserAt(input) :
         /\ Joined(kept) = SubSeq(input, p, Len(input))
         /\ \A i \in UserAt(input) : i < p => ~Fits(FromTurn(input, i))

(* As many turns as fit, or of the current one the newest groups *)
GroupsInv ==
  trimAt = "groups" =>
    /\ Replayable(input) /\ kept # <<>>
    /\ \/ /\ ~Unpreparable(input)
          /\ Flatten(kept) = Prepared(input) /\ Fits(Flatten(kept))
       \/ /\ TurnCuts(input) = {} /\ Len(kept) = 1
          /\ kept[1][1] = <<input[CurrentUser(input)]>>
          /\ \E g \in CurrentUser(input) + 1..Len(input) + 1 :
               /\ FlattenSeq(Tail(kept[1])) = SubSeq(input, g, Len(input))
               /\ Len(kept[1]) = 1 => g = CurrentUser(input) + 1
               /\ \A i \in GroupsAt(input) : i < g => ~Fits(FromGroup(input, i))

TrimInv ==
  /\ input \in Seq(Message) /\ index \in Nat
  /\ \A n \in DOMAIN kept : TurnShaped(kept[n])
  /\ kept \in Seq(Seq(Seq(Message)))
  /\ trimAt \in {"head", "parse", "turns", "groups", "done", "error"}
  /\ trimAt = "head" => kept = <<>>
  /\ ParseInv /\ TurnsInv /\ GroupsInv
  /\ PreparesAsDefined
-----------------------------------------------------------------------------
(* What FlattenSeq makes of a list of lists, by its last list *)

Joins(f, ss, l) == f[1] = ss[1] /\ \A n \in 2..l : f[n] = f[n - 1] \o ss[n]

LEMMA JoinsExist ==
  ASSUME NEW S, NEW ss \in Seq(Seq(S)), ss # <<>>
  PROVE  \E f \in [1..Len(ss) -> Seq(S)] : Joins(f, ss, Len(ss))
  <1> DEFINE l == Len(ss)
             step == [k \in Nat |-> [v \in Seq(S) |-> IF k + 2 \in 1..l THEN v \o ss[k + 2] ELSE <<>>]]
  <1>1. l \in Nat \ {0} /\ \A n \in 1..l : ss[n] \in Seq(S)
    BY EmptySeq, ElementOfSeq
  <1>2. step \in Steps(Seq(S))
    <2>1. \A k \in Nat : \A v \in Seq(S) : k + 2 \in 1..l => v \o ss[k + 2] \in Seq(S)
      BY <1>1, ConcatProperties
    <2>2. <<>> \in Seq(S)
      BY EmptySeq
    <2> QED BY <2>1, <2>2 DEF Steps
  <1>3. \A k \in Nat : \A v \in Seq(S) : k + 2 \in 1..l => step[k][v] = v \o ss[k + 2]
    OBVIOUS
  <1> HIDE DEF step
  <1>4. ss[1] \in Seq(S)
    BY <1>1
  <1>5. PICK g : Makes(g, Seq(S), ss[1], step)
    BY <1>2, <1>4, RecursionExists
  <1> DEFINE f == [n \in 1..l |-> g[n - 1]]
  <1>6. f \in [1..l -> Seq(S)] /\ f[1] = ss[1]
    <2>1. \A n \in 1..l : n - 1 \in Nat
      BY <1>1
    <2>0. g \in [Nat -> Seq(S)] /\ g[0] = ss[1]
      BY <1>5 DEF Makes
    <2>2. 1 \in 1..l /\ 1 - 1 = 0
      BY <1>1
    <2>3. \A n \in 1..l : g[n - 1] \in Seq(S)
      BY <2>0, <2>1
    <2>4. f[1] = g[0]
      BY <2>2
    <2> HIDE DEF l
    <2>5. f \in [1..l -> Seq(S)]
      BY <2>3
    <2> QED BY <2>0, <2>4, <2>5
  <1>7. ASSUME NEW n \in 2..l PROVE f[n] = f[n - 1] \o ss[n]
    <2>1. /\ n - 2 \in Nat /\ n - 2 + 1 = n - 1 /\ n - 2 + 2 = n /\ n \in 1..l /\ n - 1 \in 1..l
          /\ n - 1 - 1 = n - 2
      BY <1>1
    <2>2. f[n] = g[n - 1] /\ f[n - 1] = g[n - 2]
      BY <2>1
    <2>3. g[n - 1] = step[n - 2][g[n - 2]] /\ g[n - 2] \in Seq(S)
      BY <1>5, <2>1 DEF Makes
    <2>4. step[n - 2][g[n - 2]] = g[n - 2] \o ss[n]
      BY <1>3, <2>1, <2>3
    <2> QED BY <2>2, <2>3, <2>4
  <1> HIDE DEF f
  <1>8. Joins(f, ss, l)
    BY <1>6, <1>7 DEF Joins
  <1> QED BY <1>6, <1>8

(* Lists that begin alike are joined alike *)
LEMMA JoinsAgree ==
  ASSUME NEW l \in Nat \ {0}, NEW m \in Nat, l <= m, NEW ss, NEW tt, \A n \in 1..l : ss[n] = tt[n],
         NEW f, Joins(f, ss, l), NEW g, Joins(g, tt, m)
  PROVE  g[l] = f[l]
  <1> DEFINE S == {n \in Nat : n + 1 <= l => g[n + 1] = f[n + 1]}
  <1>1. 0 \in S
    BY DEF Joins
  <1>2. ASSUME NEW n \in Nat, n \in S PROVE n + 1 \in S
    <2> SUFFICES ASSUME n + 1 + 1 <= l PROVE g[n + 1 + 1] = f[n + 1 + 1]
      OBVIOUS
    <2>1. n + 1 + 1 \in 2..l /\ n + 1 + 1 \in 2..m /\ n + 1 + 1 \in 1..l
          /\ (n + 1 + 1) - 1 = n + 1 /\ g[n + 1] = f[n + 1]
      BY <1>2
    <2>2. f[n + 1 + 1] = f[n + 1] \o ss[n + 1 + 1]
      BY <2>1 DEF Joins
    <2>3. g[n + 1 + 1] = g[n + 1] \o tt[n + 1 + 1]
      BY <2>1 DEF Joins
    <2> QED BY <2>1, <2>2, <2>3
  <1> HIDE DEF S
  <1>3. Nat \subseteq S
    BY <1>1, <1>2, Induction
  <1>4. l - 1 \in Nat /\ l - 1 + 1 = l
    OBVIOUS
  <1> QED BY <1>3, <1>4 DEF S

LEMMA FlattenIs ==
  ASSUME NEW S, NEW ss \in Seq(Seq(S)), ss # <<>>,
         NEW f \in [1..Len(ss) -> Seq(S)], Joins(f, ss, Len(ss))
  PROVE  FlattenSeq(ss) = f[Len(ss)]
  <1> DEFINE l == Len(ss)
             flatten[i \in 1..l] == IF i = 1 THEN ss[i] ELSE flatten[i - 1] \o ss[i]
  <1>1. l \in Nat \ {0}
    BY EmptySeq
  <1>2. FlattenSeq(ss) = flatten[l]
    BY <1>1 DEF FlattenSeq
  <1>3. f = [i \in 1..l |-> IF i = 1 THEN ss[i] ELSE f[i - 1] \o ss[i]]
    <2>1. ASSUME NEW i \in 1..l PROVE f[i] = IF i = 1 THEN ss[i] ELSE f[i - 1] \o ss[i]
      <3>1. i = 1 \/ i \in 2..l
        BY <1>1
      <3> QED BY <3>1 DEF Joins
    <2> QED BY <2>1
  <1>4. flatten = [i \in 1..l |-> IF i = 1 THEN ss[i] ELSE flatten[i - 1] \o ss[i]]
    BY <1>3
  <1> HIDE DEF flatten
  <1>5. Joins(flatten, ss, l)
    <2>1. flatten[1] = ss[1]
      BY <1>1, <1>4
    <2>2. ASSUME NEW n \in 2..l PROVE flatten[n] = flatten[n - 1] \o ss[n]
      <3>1. n \in 1..l /\ n # 1
        BY <1>1
      <3> QED BY <1>4, <3>1
    <2> QED BY <2>1, <2>2 DEF Joins
  <1>6. flatten[l] = f[l]
    <2>1. l \in Nat /\ l <= l
      BY <1>1
    <2> QED BY <1>1, <1>5, <2>1, JoinsAgree
  <1> QED BY <1>2, <1>6

LEMMA FlattenNothing == FlattenSeq(<<>>) = <<>>
  BY DEF FlattenSeq

LEMMA FlattenIn ==
  ASSUME NEW S, NEW ss \in Seq(Seq(S))
  PROVE  FlattenSeq(ss) \in Seq(S)
  <1>1. CASE ss = <<>>
    BY <1>1, FlattenNothing, EmptySeq
  <1>2. CASE ss # <<>>
    <2>1. Len(ss) \in 1..Len(ss)
      BY <1>2, EmptySeq
    <2>2. PICK f \in [1..Len(ss) -> Seq(S)] : Joins(f, ss, Len(ss))
      BY <1>2, JoinsExist
    <2>3. FlattenSeq(ss) = f[Len(ss)]
      BY <1>2, <2>2, FlattenIs
    <2> QED BY <2>1, <2>3
  <1> QED BY <1>1, <1>2

LEMMA FlattenAppend ==
  ASSUME NEW S, NEW ss \in Seq(Seq(S)), NEW s \in Seq(S)
  PROVE  FlattenSeq(Append(ss, s)) = FlattenSeq(ss) \o s
  <1> DEFINE tt == Append(ss, s)
             l == Len(ss)
  <1>1. /\ tt \in Seq(Seq(S)) /\ tt # <<>> /\ Len(tt) = l + 1 /\ l \in Nat
        /\ (\A i \in 1..l : tt[i] = ss[i]) /\ tt[l + 1] = s
    BY AppendProperties, LenProperties
  <1> HIDE DEF tt
  <1>2. PICK g : g \in [1..Len(tt) -> Seq(S)] /\ Joins(g, tt, Len(tt))
    BY <1>1, JoinsExist
  <1>3. FlattenSeq(tt) = g[l + 1]
    BY <1>1, <1>2, FlattenIs
  <1>4. CASE ss = <<>>
    <2>1. l = 0 /\ g[1] = s
      BY <1>1, <1>2, <1>4 DEF Joins
    <2> QED BY <1>3, <1>4, <2>1, FlattenNothing, ConcatEmptySeq DEF tt
  <1>5. CASE ss # <<>>
    <2>1. PICK f : f \in [1..l -> Seq(S)] /\ Joins(f, ss, l)
      BY <1>5, JoinsExist
    <2>2. l \in Nat \ {0} /\ l + 1 \in 2..Len(tt) /\ (l + 1) - 1 = l
      BY <1>1, <1>5, EmptySeq
    <2>3. FlattenSeq(ss) = f[l]
      BY <1>5, <2>1, FlattenIs
    <2>4. g[l] = f[l]
      <3>1. l + 1 \in Nat /\ l <= l + 1 /\ l \in Nat \ {0}
        BY <2>2
      <3>2. Joins(g, tt, l + 1) /\ Joins(f, ss, l)
        BY <1>1, <1>2, <2>1
      <3>3. \A n \in 1..l : ss[n] = tt[n]
        BY <1>1
      <3> HIDE DEF l
      <3> QED BY <3>1, <3>2, <3>3, JoinsAgree
    <2>5. g[l + 1] = g[l] \o s
      BY <1>1, <1>2, <2>2 DEF Joins
    <2> QED BY <1>3, <2>3, <2>4, <2>5 DEF tt
  <1> QED BY <1>4, <1>5

LEMMA FlattenOne ==
  ASSUME NEW S, NEW s \in Seq(S)
  PROVE  FlattenSeq(<<s>>) = s
  <1>1. <<>> \in Seq(Seq(S)) /\ Append(<<>>, s) = <<s>>
    OBVIOUS
  <1>2. FlattenSeq(Append(<<>>, s)) = <<>> \o s
    BY <1>1, FlattenAppend, FlattenNothing
  <1> QED BY <1>1, <1>2, ConcatEmptySeq

(* and by where it is cut in two *)
LEMMA FlattenConcat ==
  ASSUME NEW S, NEW ss \in Seq(Seq(S)), NEW tt \in Seq(Seq(S))
  PROVE  FlattenSeq(ss \o tt) = FlattenSeq(ss) \o FlattenSeq(tt)
  <1> DEFINE Good == {n \in Nat : \A uu \in Seq(Seq(S)) :
                        Len(uu) = n => FlattenSeq(ss \o uu) = FlattenSeq(ss) \o FlattenSeq(uu)}
  <1>0. FlattenSeq(ss) \in Seq(S)
    BY FlattenIn
  <1>1. 0 \in Good
    <2>1. ASSUME NEW uu \in Seq(Seq(S)), Len(uu) = 0
          PROVE  FlattenSeq(ss \o uu) = FlattenSeq(ss) \o FlattenSeq(uu)
      <3>1. uu = <<>>
        BY <2>1, EmptySeq
      <3>2. ss \o uu = ss
        BY <3>1, ConcatEmptySeq
      <3>3. FlattenSeq(ss) \o FlattenSeq(uu) = FlattenSeq(ss)
        BY <1>0, <3>1, FlattenNothing, ConcatEmptySeq
      <3> QED BY <3>2, <3>3
    <2> QED BY <2>1
  <1>2. ASSUME NEW n \in Nat, n \in Good PROVE n + 1 \in Good
    <2>1. ASSUME NEW uu \in Seq(Seq(S)), Len(uu) = n + 1
          PROVE  FlattenSeq(ss \o uu) = FlattenSeq(ss) \o FlattenSeq(uu)
      <3>1. uu # <<>>
        BY <2>1
      <3>2. PICK vv \in Seq(Seq(S)), s \in Seq(S) : uu = Append(vv, s)
        BY <3>1, SequenceEmptyOrAppend
      <3>3. Len(vv) = n
        <4>1. Len(uu) = Len(vv) + 1 /\ Len(vv) \in Nat
          BY <3>2, AppendProperties, LenProperties
        <4> QED BY <2>1, <4>1
      <3>4. FlattenSeq(ss \o vv) = FlattenSeq(ss) \o FlattenSeq(vv)
        BY <1>2, <3>3
      <3>5. ss \o vv \in Seq(Seq(S)) /\ FlattenSeq(vv) \in Seq(S) /\ <<s>> \in Seq(Seq(S))
        BY ConcatProperties, FlattenIn
      <3>6. ss \o uu = Append(ss \o vv, s)
        <4>1. uu = vv \o <<s>> /\ Append(ss \o vv, s) = (ss \o vv) \o <<s>>
          BY <3>2, <3>5, AppendIsConcat
        <4> QED BY <3>5, <4>1, ConcatAssociative
      <3>7. FlattenSeq(ss \o uu) = (FlattenSeq(ss) \o FlattenSeq(vv)) \o s
        BY <3>4, <3>5, <3>6, FlattenAppend
      <3>8. FlattenSeq(uu) = FlattenSeq(vv) \o s
        BY <3>2, FlattenAppend
      <3>9. (FlattenSeq(ss) \o FlattenSeq(vv)) \o s = FlattenSeq(ss) \o (FlattenSeq(vv) \o s)
        <4> DEFINE a == FlattenSeq(ss)
                   b == FlattenSeq(vv)
        <4>1. a \in Seq(S) /\ b \in Seq(S) /\ s \in Seq(S)
          BY <1>0, <3>2, <3>5
        <4> HIDE DEF a, b
        <4>2. (a \o b) \o s = a \o (b \o s)
          BY ONLY <4>1, ConcatAssociative
        <4> QED BY <4>2 DEF a, b
      <3> QED BY <3>7, <3>8, <3>9
    <2> QED BY <2>1
  <1> HIDE DEF Good
  <1>3. Nat \subseteq Good
    BY <1>1, <1>2, Induction
  <1>4. Len(tt) \in Good
    BY <1>3, LenProperties
  <1> QED BY <1>4 DEF Good

(* A list of lists, by its first list *)
LEMMA FlattenFirst ==
  ASSUME NEW S, NEW ss \in Seq(Seq(S)), ss # <<>>
  PROVE  /\ ss[1] \in Seq(S) /\ Tail(ss) \in Seq(Seq(S))
         /\ FlattenSeq(ss) = ss[1] \o FlattenSeq(Tail(ss))
  <1>1. Len(ss) \in Nat \ {0} /\ ss[1] \in Seq(S) /\ Tail(ss) \in Seq(Seq(S))
    BY EmptySeq, ElementOfSeq, HeadTailProperties
  <1>2. ss = <<ss[1]>> \o Tail(ss)
    <2>1. SubSeq(ss, 1, Len(ss)) = <<ss[1]>> \o SubSeq(ss, 1 + 1, Len(ss))
      <3>1. 1 \in 1..Len(ss) /\ Len(ss) \in 1..Len(ss)
        BY <1>1
      <3> QED BY <3>1, SubSeqRecursiveFirst
    <2>2. SubSeq(ss, 1, Len(ss)) = ss
      BY SubSeqFull
    <2>3. Tail(ss) = SubSeq(ss, 2, Len(ss))
      BY TailIsSubSeq
    <2> QED BY <2>1, <2>2, <2>3
  <1>3. <<ss[1]>> \in Seq(Seq(S)) /\ FlattenSeq(<<ss[1]>>) = ss[1]
    BY <1>1, FlattenOne
  <1>4. FlattenSeq(<<ss[1]>> \o Tail(ss)) = FlattenSeq(<<ss[1]>>) \o FlattenSeq(Tail(ss))
    BY <1>1, <1>3, FlattenConcat
  <1> QED BY <1>1, <1>2, <1>3, <1>4

-----------------------------------------------------------------------------
(* What turns of groups are joined to *)

LEMMA GroupsJoined ==
  ASSUME NEW gs \in Seq(Seq(Message)), \A k \in 1..Len(gs) : GroupShaped(gs[k])
  PROVE  \A j \in 1..Len(FlattenSeq(gs)) : FlattenSeq(gs)[j].role # "user"
  <1> DEFINE Userless(m) == \A j \in 1..Len(m) : m[j].role # "user"
             Good == {n \in Nat : \A hs \in Seq(Seq(Message)) :
                        /\ Len(hs) = n
                        /\ \A k \in 1..Len(hs) : GroupShaped(hs[k])
                        => Userless(FlattenSeq(hs))}
  <1>1. 0 \in Good
    <2>1. ASSUME NEW hs \in Seq(Seq(Message)), Len(hs) = 0 PROVE Userless(FlattenSeq(hs))
      <3>1. hs = <<>>
        BY <2>1, EmptySeq
      <3> QED BY <3>1, FlattenNothing
    <2> QED BY <2>1
  <1>2. ASSUME NEW n \in Nat, n \in Good PROVE n + 1 \in Good
    <2> SUFFICES ASSUME NEW hs \in Seq(Seq(Message)), Len(hs) = n + 1,
                        \A k \in 1..Len(hs) : GroupShaped(hs[k])
                 PROVE  Userless(FlattenSeq(hs))
      OBVIOUS
    <2>1. hs # <<>>
      OBVIOUS
    <2>2. PICK is \in Seq(Seq(Message)), g \in Seq(Message) : hs = Append(is, g)
      BY <2>1, SequenceEmptyOrAppend
    <2>3. /\ Len(is) = n /\ hs[n + 1] = g /\ \A k \in 1..n : hs[k] = is[k]
      <3>1. /\ Len(hs) = Len(is) + 1 /\ Len(is) \in Nat /\ hs[Len(is) + 1] = g
            /\ \A k \in 1..Len(is) : hs[k] = is[k]
        BY <2>2, AppendProperties, LenProperties
      <3> QED BY <3>1
    <2>4. GroupShaped(g) /\ \A k \in 1..Len(is) : GroupShaped(is[k])
      BY <2>3
    <2>5. Userless(FlattenSeq(is))
      BY <1>2, <2>3, <2>4
    <2>6. FlattenSeq(hs) = FlattenSeq(is) \o g /\ FlattenSeq(is) \in Seq(Message)
      BY <2>2, FlattenAppend, FlattenIn
    <2>7. \A j \in 1..Len(g) : g[j].role # "user"
      <3>1. \A j \in 1..Len(g) : j = 1 \/ j \in 2..Len(g)
        OBVIOUS
      <3> QED BY <2>4, <3>1 DEF GroupShaped
    <2> DEFINE m == FlattenSeq(is)
    <2>8. /\ Len(m) \in Nat /\ Len(g) \in Nat /\ Len(m \o g) = Len(m) + Len(g)
          /\ \A j \in 1..Len(m) + Len(g) : (m \o g)[j] = IF j <= Len(m) THEN m[j] ELSE g[j - Len(m)]
      BY <2>6, ConcatProperties, LenProperties
    <2> HIDE DEF m
    <2>9. Userless(m \o g)
      <3> SUFFICES ASSUME NEW j \in 1..Len(m) + Len(g) PROVE (m \o g)[j].role # "user"
        BY <2>8
      <3>1. j \in 1..Len(m) \/ (j - Len(m) \in 1..Len(g) /\ ~(j <= Len(m)))
        BY <2>8
      <3>2. Userless(m)
        BY <2>5 DEF m
      <3> QED BY <2>7, <2>8, <3>1, <3>2
    <2> QED BY <2>6, <2>9 DEF m
  <1> HIDE DEF Good
  <1>3. Nat \subseteq Good
    BY <1>1, <1>2, Induction
  <1>4. Len(gs) \in Good
    BY <1>3, LenProperties
  <1> QED BY <1>4 DEF Good

(* What is put before a list, and what it leaves of the list *)
LEMMA PutBefore ==
  ASSUME NEW s \in Seq(Message), NEW t \in Seq(Message)
  PROVE  /\ s \o t \in Seq(Message) /\ Len(s \o t) = Len(s) + Len(t)
         /\ Len(s) \in Nat /\ Len(t) \in Nat
         /\ \A j \in 1..Len(s) : (s \o t)[j] = s[j]
         /\ \A j \in 1..Len(t) : (s \o t)[j + Len(s)] = t[j]
  <1>1. /\ s \o t \in Seq(Message) /\ Len(s \o t) = Len(s) + Len(t)
        /\ Len(s) \in Nat /\ Len(t) \in Nat
        /\ \A j \in 1..Len(s) + Len(t) : (s \o t)[j] = IF j <= Len(s) THEN s[j] ELSE t[j - Len(s)]
    BY ConcatProperties, LenProperties
  <1>2. ASSUME NEW j \in 1..Len(t) PROVE (s \o t)[j + Len(s)] = t[j]
    <2>1. j + Len(s) \in 1..Len(s) + Len(t) /\ ~(j + Len(s) <= Len(s)) /\ j + Len(s) - Len(s) = j
      BY <1>1
    <2> QED BY <1>1, <2>1
  <1>3. ASSUME NEW j \in 1..Len(s) PROVE (s \o t)[j] = s[j]
    BY <1>1
  <1> QED BY <1>1, <1>2, <1>3

LEMMA TurnJoined ==
  ASSUME NEW t, TurnShaped(t)
  PROVE  LET m == FlattenSeq(t) IN
         /\ m \in Seq(Message) /\ Len(m) \in Nat \ {0}
         /\ Tail(t) \in Seq(Seq(Message)) /\ m = <<t[1][1]>> \o FlattenSeq(Tail(t))
         /\ m[1] = t[1][1] /\ m[1].role = "user"
         /\ \A j \in 2..Len(m) : m[j].role # "user"
  <1> DEFINE gs == Tail(t)
             r == FlattenSeq(gs)
             m == FlattenSeq(t)
  <1>1. t \in Seq(Seq(Message)) /\ t # <<>> /\ Len(t) \in Nat \ {0}
    <2>1. t \in Seq(Seq(Message)) /\ Len(t) > 0
      BY DEF TurnShaped
    <2> QED BY <2>1, LenProperties
  <1>2. /\ t[1] \in Seq(Message) /\ gs \in Seq(Seq(Message)) /\ m = t[1] \o r
    BY <1>1, FlattenFirst
  <1>3. t[1] = <<t[1][1]>>
    BY <1>2 DEF TurnShaped
  <1>4. Len(gs) = Len(t) - 1 /\ \A k \in 1..Len(gs) : gs[k] = t[k + 1]
    BY <1>1, HeadTailProperties
  <1>5. \A k \in 1..Len(gs) : GroupShaped(gs[k])
    <2>1. \A k \in 1..Len(gs) : k + 1 \in 2..Len(t)
      BY <1>1, <1>4
    <2> QED BY <1>4, <2>1 DEF TurnShaped
  <1>6. r \in Seq(Message) /\ \A j \in 1..Len(r) : r[j].role # "user"
    BY <1>2, <1>5, GroupsJoined, FlattenIn
  <1>7. Len(t[1]) = 1 /\ t[1][1].role = "user"
    BY DEF TurnShaped
  <1> HIDE DEF m, r, gs
  <1>8. /\ m \in Seq(Message) /\ Len(m) = 1 + Len(r) /\ Len(r) \in Nat
        /\ m[1] = t[1][1] /\ \A j \in 1..Len(r) : m[j + 1] = r[j]
    <2>1. 1 \in 1..Len(t[1])
      BY <1>7
    <2> DEFINE u == t[1]
    <2>2. u \in Seq(Message) /\ Len(u) = 1 /\ 1 \in 1..Len(u) /\ u[1] = t[1][1] /\ m = u \o r
      BY <1>2, <1>7, <2>1
    <2> HIDE DEF u
    <2>3. /\ m \in Seq(Message) /\ Len(m) = Len(u) + Len(r) /\ Len(r) \in Nat
          /\ (\A j \in 1..Len(u) : m[j] = u[j]) /\ \A j \in 1..Len(r) : m[j + Len(u)] = r[j]
      BY <1>6, <2>2, PutBefore
    <2> QED BY <2>2, <2>3
  <1>9. ASSUME NEW j \in 2..Len(m) PROVE m[j].role # "user"
    <2>1. j - 1 \in 1..Len(r) /\ (j - 1) + 1 = j
      BY <1>8
    <2> QED BY <1>6, <1>8, <2>1
  <1>10. m = <<t[1][1]>> \o r
    BY <1>2, <1>3
  <1>11. Len(m) \in Nat \ {0}
    BY <1>8
  <1> QED BY <1>2, <1>7, <1>8, <1>9, <1>10, <1>11 DEF m, r, gs

TurnLists == Seq(Seq(Seq(Message)))

LEMMA KeptJoined ==
  ASSUME NEW turns \in TurnLists, turns # <<>>, \A n \in DOMAIN turns : TurnShaped(turns[n])
  PROVE  /\ Joined(turns) \in Seq(Message) /\ Len(Joined(turns)) \in Nat \ {0}
         /\ TurnShaped(turns[1])
         /\ Joined(turns)[1] = turns[1][1][1] /\ Joined(turns)[1].role = "user"
         /\ Tail(turns) \in TurnLists /\ Joined(Tail(turns)) \in Seq(Message)
         /\ \A n \in DOMAIN Tail(turns) : TurnShaped(Tail(turns)[n])
         /\ Joined(turns) = FlattenSeq(turns[1]) \o Joined(Tail(turns))
  <1> DEFINE t == turns[1]
             r == Tail(turns)
  <1>1. Len(turns) \in Nat \ {0} /\ DOMAIN turns = 1..Len(turns)
    BY EmptySeq, LenProperties DEF TurnLists
  <1>2. /\ t \in Seq(Seq(Message)) /\ r \in TurnLists /\ FlattenSeq(turns) = t \o FlattenSeq(r)
    BY FlattenFirst DEF TurnLists
  <1>3. FlattenSeq(r) \in Seq(Seq(Message))
    BY <1>2, FlattenIn DEF TurnLists
  <1>4. Joined(turns) = FlattenSeq(t) \o Joined(r)
    BY <1>2, <1>3, FlattenConcat DEF Joined
  <1>5. TurnShaped(t)
    BY <1>1
  <1>6. \A n \in DOMAIN r : TurnShaped(r[n])
    <2>1. Len(r) = Len(turns) - 1 /\ \A n \in 1..Len(r) : r[n] = turns[n + 1]
      BY HeadTailProperties DEF TurnLists
    <2>2. DOMAIN r = 1..Len(r)
      BY <1>2, LenProperties DEF TurnLists
    <2>3. \A n \in 1..Len(r) : n + 1 \in DOMAIN turns
      BY <1>1, <2>1
    <2> QED BY <2>1, <2>2, <2>3
  <1>7. Joined(r) \in Seq(Message)
    BY <1>3, FlattenIn DEF Joined
  <1> DEFINE f == FlattenSeq(t)
  <1>8. f \in Seq(Message) /\ Len(f) \in Nat \ {0} /\ f[1] = t[1][1] /\ f[1].role = "user"
    BY <1>5, TurnJoined
  <1> HIDE DEF f, r, t
  <1>9. /\ f \o Joined(r) \in Seq(Message) /\ Len(f \o Joined(r)) \in Nat \ {0}
        /\ (f \o Joined(r))[1] = f[1]
    <2>1. /\ f \o Joined(r) \in Seq(Message) /\ Len(f \o Joined(r)) = Len(f) + Len(Joined(r))
          /\ Len(Joined(r)) \in Nat /\ \A j \in 1..Len(f) : (f \o Joined(r))[j] = f[j]
      BY <1>7, <1>8, PutBefore
    <2>2. 1 \in 1..Len(f)
      BY <1>8
    <2> QED BY <1>8, <2>1, <2>2
  <1> QED BY <1>2, <1>4, <1>5, <1>6, <1>7, <1>8, <1>9 DEF f, r, t

(* What the parser adds goes to the end *)
LEMMA TurnAdded ==
  ASSUME NEW turns \in TurnLists, NEW g \in Seq(Message)
  PROVE  /\ Append(turns, <<g>>) \in TurnLists
         /\ Joined(Append(turns, <<g>>)) = Joined(turns) \o g
  <1>1. <<g>> \in Seq(Seq(Message)) /\ FlattenSeq(turns) \in Seq(Seq(Message))
    BY FlattenIn DEF TurnLists
  <1>2. Append(turns, <<g>>) \in TurnLists
    BY <1>1, AppendProperties DEF TurnLists
  <1>3. FlattenSeq(Append(turns, <<g>>)) = FlattenSeq(turns) \o <<g>>
    BY <1>1, FlattenAppend DEF TurnLists
  <1>4. FlattenSeq(turns) \o <<g>> = Append(FlattenSeq(turns), g)
    BY <1>1, AppendIsConcat
  <1>5. FlattenSeq(Append(FlattenSeq(turns), g)) = FlattenSeq(FlattenSeq(turns)) \o g
    BY <1>1, FlattenAppend
  <1> QED BY <1>2, <1>3, <1>4, <1>5 DEF Joined

LEMMA GroupAdded ==
  ASSUME NEW turns \in TurnLists, turns # <<>>, NEW g \in Seq(Message)
  PROVE  LET more == [turns EXCEPT ![Len(turns)] = Append(@, g)]
         IN  more \in TurnLists /\ Joined(more) = Joined(turns) \o g
  <1> DEFINE more == [turns EXCEPT ![Len(turns)] = Append(@, g)]
  <1>1. PICK front \in TurnLists, t \in Seq(Seq(Message)) : turns = Append(front, t)
    BY SequenceEmptyOrAppend DEF TurnLists
  <1>2. Append(t, g) \in Seq(Seq(Message))
    BY AppendProperties
  <1>3. more = Append(front, Append(t, g))
    <2>1. /\ Len(front) \in Nat /\ Len(turns) = Len(front) + 1 /\ turns[Len(turns)] = t
          /\ \A n \in 1..Len(front) : turns[n] = front[n]
      BY <1>1, AppendProperties, LenProperties DEF TurnLists
    <2>2. /\ more \in TurnLists /\ Len(more) = Len(turns)
          /\ \A n \in 1..Len(turns) : more[n] = IF n = Len(turns) THEN Append(t, g) ELSE turns[n]
      <3>1. Len(turns) \in 1..Len(turns)
        BY <2>1
      <3> QED BY <1>2, <2>1, <3>1, ExceptSeq DEF TurnLists
    <2> DEFINE whole == Append(front, Append(t, g))
    <2>3. /\ whole \in TurnLists /\ Len(whole) = Len(front) + 1 /\ whole[Len(front) + 1] = Append(t, g)
          /\ \A n \in 1..Len(front) : whole[n] = front[n]
      BY <1>2, AppendProperties DEF TurnLists
    <2> HIDE DEF more, whole
    <2>4. \A n \in 1..Len(more) : more[n] = whole[n]
      <3> SUFFICES ASSUME NEW n \in 1..Len(more) PROVE more[n] = whole[n]
        OBVIOUS
      <3>1. (n \in 1..Len(front) /\ n # Len(turns)) \/ n = Len(front) + 1
        BY <2>1, <2>2
      <3> QED BY <2>1, <2>2, <2>3, <3>1
    <2>5. more = whole
      BY <2>1, <2>2, <2>3, <2>4, SeqEqual DEF TurnLists
    <2> QED BY <2>5 DEF whole
  <1> HIDE DEF more
  <1>4. FlattenSeq(front) \in Seq(Seq(Message))
    BY FlattenIn DEF TurnLists
  <1>5. FlattenSeq(turns) = FlattenSeq(front) \o t
    BY <1>1, FlattenAppend DEF TurnLists
  <1>6. FlattenSeq(more) = FlattenSeq(front) \o Append(t, g)
    BY <1>2, <1>3, FlattenAppend DEF TurnLists
  <1>7. FlattenSeq(front) \o Append(t, g) = Append(FlattenSeq(front) \o t, g)
    <2>1. Append(t, g) = t \o <<g>> /\ <<g>> \in Seq(Seq(Message))
      BY AppendIsConcat
    <2>2. FlattenSeq(front) \o t \in Seq(Seq(Message))
      BY <1>4, ConcatProperties
    <2>3. Append(FlattenSeq(front) \o t, g) = (FlattenSeq(front) \o t) \o <<g>>
      BY <2>2, AppendIsConcat
    <2> QED BY <1>4, <2>1, <2>3, ConcatAssociative
  <1>8. FlattenSeq(turns) \in Seq(Seq(Message))
    BY <1>4, <1>5, ConcatProperties
  <1>9. FlattenSeq(Append(FlattenSeq(turns), g)) = FlattenSeq(FlattenSeq(turns)) \o g
    BY <1>8, FlattenAppend
  <1>10. more \in TurnLists
    BY <1>2, <1>3, AppendProperties DEF TurnLists
  <1> QED BY <1>5, <1>6, <1>7, <1>9, <1>10 DEF Joined, more

LEMMA TurnGrown ==
  ASSUME NEW t, TurnShaped(t), NEW g, GroupShaped(g)
  PROVE  TurnShaped(Append(t, g))
  <1>1. t \in Seq(Seq(Message)) /\ g \in Seq(Message) /\ Len(t) \in Nat \ {0}
    <2>1. t \in Seq(Seq(Message)) /\ Len(t) > 0 /\ g \in Seq(Message)
      BY DEF TurnShaped, GroupShaped
    <2> QED BY <2>1, LenProperties
  <1>2. /\ Append(t, g) \in Seq(Seq(Message)) /\ Len(Append(t, g)) = Len(t) + 1
        /\ (\A k \in 1..Len(t) : Append(t, g)[k] = t[k]) /\ Append(t, g)[Len(t) + 1] = g
    BY <1>1, AppendProperties
  <1>3. Append(t, g)[1] = t[1]
    BY <1>1, <1>2
  <1>4. ASSUME NEW k \in 2..Len(Append(t, g)) PROVE GroupShaped(Append(t, g)[k])
    <2>1. (k \in 1..Len(t) /\ k \in 2..Len(t)) \/ k = Len(t) + 1
      BY <1>1, <1>2
    <2> QED BY <1>2, <2>1 DEF TurnShaped
  <1>5. Len(Append(t, g)) > 0
    BY <1>1, <1>2
  <1> QED BY <1>2, <1>3, <1>4, <1>5 DEF TurnShaped

-----------------------------------------------------------------------------
(* _parse_assistant_group takes what GroupAt says *)

LEMMA PartIs ==
  ASSUME NEW m \in Seq(Message), NEW lo \in 1..Len(m) + 1, NEW hi \in lo - 1..Len(m)
  PROVE  /\ SubSeq(m, lo, hi) \in Seq(Message) /\ Len(SubSeq(m, lo, hi)) = hi - lo + 1
         /\ \A k \in 1..hi - lo + 1 : SubSeq(m, lo, hi)[k] = m[lo + k - 1]
  <1>1. Len(m) \in Nat /\ lo \in Int /\ hi \in Int
    BY LenProperties
  <1>2. \A k \in lo..hi : m[k] \in Message
    BY <1>1, ElementOfSeq
  <1>3. /\ SubSeq(m, lo, hi) \in Seq(Message)
        /\ Len(SubSeq(m, lo, hi)) = IF lo <= hi THEN hi - lo + 1 ELSE 0
        /\ \A k \in 1..hi - lo + 1 : SubSeq(m, lo, hi)[k] = m[lo + k - 1]
    BY <1>1, <1>2, SubSeqProperties
  <1> QED BY <1>1, <1>3

LEMMA SameLength ==
  ASSUME NEW l \in Nat, NEW n \in Nat, 1..l = 1..n
  PROVE  l = n
  <1>1. l # 0 => l \in 1..n
    OBVIOUS
  <1>2. n # 0 => n \in 1..l
    OBVIOUS
  <1> QED BY <1>1, <1>2

LEMMA AnswersAre ==
  ASSUME input \in Seq(Message), index \in 1..Len(input)
  PROVE  /\ Answers \in Seq(Message) /\ Len(Answers) \in 0..Len(input) - index
         /\ Answers = SubSeq(input, index + 1, index + Len(Answers))
         /\ \A k \in 1..Len(Answers) :
              Answers[k] = input[index + k] /\ IsRole(input, index + k, "tool")
         /\ ~IsRole(input, index + Len(Answers) + 1, "tool")
  <1> DEFINE isRun(n) == \A k \in 1..n : IsRole(input, index + k, "tool")
             length == CHOOSE n \in 0..Len(input) : isRun(n) /\ ~isRun(n + 1)
             S == {n \in Nat : ~IsRole(input, index + n + 1, "tool")}
  <1>1. Len(input) \in Nat /\ DOMAIN input = 1..Len(input) /\ index \in Nat /\ index > 0
    BY LenProperties
  <1>2. PICK i \in S : \A j \in S : i <= j
    <2>1. Len(input) \in S
      BY <1>1 DEF IsRole
    <2> QED BY <2>1, Smallest
  <1>3. i \in 0..Len(input)
    <2>1. Len(input) \in S
      BY <1>1 DEF IsRole
    <2> QED BY <1>1, <1>2, <2>1
  <1>4. isRun(i)
    <2> SUFFICES ASSUME NEW k \in 1..i PROVE IsRole(input, index + k, "tool")
      OBVIOUS
    <2>1. k - 1 \in Nat /\ index + (k - 1) + 1 = index + k /\ ~(i <= k - 1)
      BY <1>1, <1>3
    <2>2. k - 1 \notin S
      BY <1>2, <2>1
    <2> QED BY <2>1, <2>2
  <1>5. ~isRun(i + 1)
    <2>1. i + 1 \in 1..i + 1 /\ index + (i + 1) = index + i + 1
      BY <1>1, <1>3
    <2> QED BY <1>2, <2>1
  <1>6. length \in 0..Len(input) /\ isRun(length) /\ ~isRun(length + 1)
    BY <1>3, <1>4, <1>5
  <1>7. Answers = SubSeq(input, index + 1, index + length)
    BY DEF Answers
  <1> HIDE DEF length
  <1>8. ~IsRole(input, index + length + 1, "tool")
    <2>1. PICK k \in 1..length + 1 : ~IsRole(input, index + k, "tool")
      BY <1>6
    <2>2. k \in 1..length \/ k = length + 1
      BY <1>6, <2>1
    <2>3. k = length + 1
      BY <1>6, <2>1, <2>2
    <2>4. index + (length + 1) = index + length + 1
      BY <1>1, <1>6
    <2> QED BY <2>1, <2>3, <2>4
  <1>9. index + length <= Len(input)
    <2>1. CASE length = 0
      BY <1>1, <2>1
    <2>2. CASE length # 0
      <3>1. length \in 1..length
        BY <1>6, <2>2
      <3>2. IsRole(input, index + length, "tool")
        BY <1>6, <3>1
      <3>3. index + length \in 1..Len(input)
        BY <1>1, <3>2 DEF IsRole
      <3> QED BY <3>3
    <2> QED BY <2>1, <2>2
  <1>10. /\ Answers \in Seq(Message) /\ Len(Answers) = length
         /\ \A k \in 1..length : Answers[k] = input[index + k]
    <2> DEFINE lo == index + 1
               hi == index + length
    <2>1. lo \in 1..Len(input) + 1 /\ hi \in lo - 1..Len(input) /\ hi - lo + 1 = length
      BY <1>1, <1>6, <1>9
    <2>2. \A k \in 1..length : lo + k - 1 = index + k
      BY <1>1, <1>6
    <2>3. Answers = SubSeq(input, lo, hi)
      BY <1>7
    <2> HIDE DEF lo, hi
    <2>4. /\ SubSeq(input, lo, hi) \in Seq(Message) /\ Len(SubSeq(input, lo, hi)) = hi - lo + 1
          /\ \A k \in 1..hi - lo + 1 : SubSeq(input, lo, hi)[k] = input[lo + k - 1]
      BY <2>1, PartIs
    <2> QED BY <2>1, <2>2, <2>3, <2>4
  <1>11. length \in 0..Len(input) - index
    BY <1>1, <1>6, <1>9
  <1> HIDE DEF isRun
  <1> QED BY <1>6, <1>7, <1>8, <1>10, <1>11 DEF isRun

LEMMA GroupParsed ==
  ASSUME input \in Seq(Message), index \in 1..Len(input), IsRole(input, index, "assistant")
  PROVE  GroupAt(input, index) <=>
           /\ IsInjective(input[index].calls)
           /\ [k \in DOMAIN Answers |-> Answers[k].id] = input[index].calls
  <1> DEFINE calls == input[index].calls
             a == Answers
  <1>1. /\ a \in Seq(Message) /\ Len(a) \in Nat /\ DOMAIN a = 1..Len(a)
        /\ \A k \in 1..Len(a) : a[k] = input[index + k] /\ IsRole(input, index + k, "tool")
        /\ ~IsRole(input, index + Len(a) + 1, "tool")
    BY AnswersAre, LenProperties
  <1>2. calls \in Seq(CallIds) /\ Len(calls) \in Nat /\ DOMAIN calls = 1..Len(calls)
    <2>1. input[index] \in Message /\ input[index].role = "assistant"
      BY ElementOfSeq DEF IsRole
    <2>2. calls \in Seq(CallIds)
      BY <2>1 DEF Message, System
    <2> QED BY <2>2, LenProperties
  <1>3. index \in Nat
    OBVIOUS
  <1>4. DistinctIds(calls) <=> IsInjective(calls)
    BY DEF DistinctIds, IsInjective
  <1> HIDE DEF a, calls
  <1>5. ASSUME IsInjective(calls), [k \in DOMAIN a |-> a[k].id] = calls
        PROVE  GroupAt(input, index)
    <2>0. DOMAIN calls = 1..Len(a)
      BY <1>1, <1>5
    <2>1. Len(calls) = Len(a)
      BY <1>1, <1>2, <2>0, SameLength
    <2>2. ASSUME NEW k \in DOMAIN calls
          PROVE  IsRole(input, index + k, "tool") /\ input[index + k].id = calls[k]
      BY <1>1, <1>5, <2>0
    <2> QED BY <1>1, <1>4, <1>5, <2>1, <2>2 DEF GroupAt, calls
  <1>6. ASSUME GroupAt(input, index)
        PROVE  IsInjective(calls) /\ [k \in DOMAIN a |-> a[k].id] = calls
    <2>1. /\ DistinctIds(calls)
          /\ \A k \in 1..Len(calls) : IsRole(input, index + k, "tool") /\ input[index + k].id = calls[k]
          /\ ~IsRole(input, index + Len(calls) + 1, "tool")
      BY <1>2, <1>6 DEF GroupAt, calls
    <2>2. ~(Len(calls) < Len(a))
      <3> SUFFICES ASSUME Len(calls) < Len(a) PROVE FALSE
        OBVIOUS
      <3>1. Len(calls) + 1 \in 1..Len(a) /\ index + (Len(calls) + 1) = index + Len(calls) + 1
        BY <1>1, <1>2, <1>3
      <3> QED BY <1>1, <2>1, <3>1
    <2>3. ~(Len(a) < Len(calls))
      <3> SUFFICES ASSUME Len(a) < Len(calls) PROVE FALSE
        OBVIOUS
      <3>1. Len(a) + 1 \in 1..Len(calls) /\ index + (Len(a) + 1) = index + Len(a) + 1
        BY <1>1, <1>2, <1>3
      <3> QED BY <1>1, <2>1, <3>1
    <2>4. Len(a) = Len(calls)
      <3>1. Len(a) \in Nat /\ Len(calls) \in Nat
        BY <1>1, <1>2
      <3> QED BY <2>2, <2>3, <3>1
    <2>5. \A k \in 1..Len(calls) : a[k].id = calls[k]
      BY <1>1, <2>1, <2>4
    <2>6. calls = [k \in 1..Len(calls) |-> calls[k]]
      BY <1>2, LenProperties
    <2> QED BY <1>1, <1>4, <2>1, <2>4, <2>5, <2>6
  <1> QED BY <1>5, <1>6 DEF a, calls

-----------------------------------------------------------------------------
(* Parsing *)

LEMMA HeadParsed ==
  ASSUME TrimInv, ParseHead
  PROVE  TrimInv'
  <1>1. input' = input /\ kept' = kept /\ index' = 2 /\ kept = <<>> /\ input \in Seq(Message)
    BY DEF TrimInv, ParseHead
  <1>2. Len(input) \in Nat /\ DOMAIN input = 1..Len(input)
    BY <1>1, LenProperties
  <1>3. /\ kept' \in Seq(Seq(Seq(Message))) /\ \A n \in DOMAIN kept' : TurnShaped(kept'[n])
    BY <1>1 DEF TrimInv
  <1>4. CASE IsRole(input, 1, "system") /\ IsRole(input, 2, "user")
    <2>1. trimAt' = "parse"
      BY <1>4 DEF ParseHead
    <2>2. index' \in 2..Len(input) + 1
      BY <1>1, <1>2, <1>4 DEF IsRole
    <2>3. ParsedTo(input, 2)
      BY <1>4 DEF ParsedTo
    <2>4. ~IsRole(input, 2, "tool")
      BY <1>4 DEF IsRole
    <2>5. Joined(kept) = SubSeq(input, 2, 2 - 1)
      <3>1. SubSeq(input, 2, 2 - 1) = <<>>
        BY SubSeqEmpty
      <3> QED BY <1>1, <3>1, FlattenNothing DEF Joined
    <2>6. ParseInv'
      BY <1>1, <2>1, <2>2, <2>3, <2>4, <2>5 DEF ParseInv
    <2> QED BY <1>1, <1>3, <2>1, <2>6 DEF TrimInv, TurnsInv, GroupsInv, PreparesAsDefined
  <1>5. CASE ~(IsRole(input, 1, "system") /\ IsRole(input, 2, "user"))
    <2>1. trimAt' = "error"
      BY <1>5 DEF ParseHead
    <2>2. Unpreparable(input)
      BY <1>5 DEF Unpreparable, Replayable
    <2> QED BY <1>1, <1>3, <2>1, <2>2 DEF TrimInv, ParseInv, TurnsInv, GroupsInv, PreparesAsDefined
  <1> QED BY <1>4, <1>5

LEMMA TurnOpened ==
  ASSUME TrimInv, OpenTurn
  PROVE  TrimInv'
  <1> DEFINE g == <<input[index]>>
  <1>1. /\ input' = input /\ index' = index + 1 /\ trimAt' = "parse" /\ trimAt = "parse"
        /\ kept' = Append(kept, <<g>>) /\ IsRole(input, index, "user")
    BY DEF OpenTurn, NextIs
  <1>2. /\ input \in Seq(Message) /\ kept \in TurnLists /\ \A n \in DOMAIN kept : TurnShaped(kept[n])
    BY DEF TrimInv, TurnLists
  <1>3. /\ index \in 2..Len(input) + 1 /\ ParsedTo(input, index)
        /\ Joined(kept) = SubSeq(input, 2, index - 1)
    BY <1>1 DEF TrimInv, ParseInv
  <1>4. Len(input) \in Nat /\ DOMAIN input = 1..Len(input)
    BY <1>2, LenProperties
  <1>5. index \in 2..Len(input) /\ index \in 1..Len(input) /\ input[index].role = "user"
    BY <1>1, <1>3, <1>4 DEF IsRole
  <1>6. g \in Seq(Message) /\ Len(g) = 1 /\ g[1] = input[index]
    <2>1. input[index] \in Message
      BY <1>2, <1>5, ElementOfSeq
    <2> QED BY <2>1
  <1> HIDE DEF g
  <1>7. <<g>> \in Seq(Seq(Message)) /\ TurnShaped(<<g>>)
    <2>1. <<g>> \in Seq(Seq(Message)) /\ Len(<<g>>) = 1 /\ <<g>>[1] = g
      BY <1>6
    <2> QED BY <1>5, <1>6, <2>1 DEF TurnShaped
  <1>8. /\ kept' \in TurnLists /\ kept' # <<>> /\ Joined(kept') = Joined(kept) \o g
    BY <1>1, <1>2, <1>6, <1>7, TurnAdded, AppendProperties DEF TurnLists
  <1>9. \A n \in DOMAIN kept' : TurnShaped(kept'[n])
    <2>1. /\ Len(kept) \in Nat /\ Len(kept') = Len(kept) + 1 /\ kept'[Len(kept) + 1] = <<g>>
          /\ \A n \in 1..Len(kept) : kept'[n] = kept[n] /\ n \in DOMAIN kept
      BY <1>1, <1>2, <1>7, AppendProperties, LenProperties DEF TurnLists
    <2>2. DOMAIN kept' = 1..Len(kept')
      BY <1>8, LenProperties DEF TurnLists
    <2> SUFFICES ASSUME NEW n \in 1..Len(kept') PROVE TurnShaped(kept'[n])
      BY <2>2
    <2>3. n \in 1..Len(kept) \/ n = Len(kept) + 1
      BY <2>1
    <2> QED BY <1>2, <1>7, <2>1, <2>3
  <1>10. Joined(kept') = SubSeq(input, 2, index' - 1)
    <2>1. SubSeq(input, 2, index) = SubSeq(input, 2, index - 1) \o <<input[index]>>
      <3>1. 2 \in 1..Len(input) /\ index \in 2..Len(input)
        BY <1>4, <1>5
      <3> QED BY <1>2, <3>1, SubSeqRecursiveSecond
    <2>2. index' - 1 = index
      BY <1>1, <1>4, <1>5
    <2> QED BY <1>3, <1>8, <2>1, <2>2 DEF g
  <1>11. ParsedTo(input, index')
    <2>1. \A j \in 2..index' - 1 : j \in 2..index - 1 \/ j = index
      BY <1>1, <1>4, <1>5
    <2> QED BY <1>1, <1>3, <2>1 DEF ParsedTo
  <1>12. index' \in 2..Len(input) + 1 /\ index' - 1 = index /\ index' \in Nat
    BY <1>1, <1>4, <1>5
  <1>13. ParseInv'
    BY <1>1, <1>5, <1>8, <1>10, <1>11, <1>12 DEF ParseInv
  <1> QED BY <1>1, <1>2, <1>8, <1>9, <1>12, <1>13
          DEF TrimInv, TurnsInv, GroupsInv, PreparesAsDefined, TurnLists

LEMMA GroupTaken ==
  ASSUME TrimInv, ParseGroup
  PROVE  TrimInv'
  <1> DEFINE a == Answers
             g == <<input[index]>> \o a
             l == Len(a)
  <1>1. /\ input' = input /\ index' = index + 1 + l /\ trimAt' = "parse" /\ trimAt = "parse"
        /\ kept' = [kept EXCEPT ![Len(kept)] = Append(@, g)] /\ IsRole(input, index, "assistant")
        /\ IsInjective(input[index].calls)
        /\ [k \in DOMAIN Answers |-> Answers[k].id] = input[index].calls
    BY DEF ParseGroup, NextIs
  <1>2. /\ input \in Seq(Message) /\ kept \in TurnLists /\ \A n \in DOMAIN kept : TurnShaped(kept[n])
    BY DEF TrimInv, TurnLists
  <1>3. /\ index \in 2..Len(input) + 1 /\ ParsedTo(input, index)
        /\ (index > 2 => kept # <<>>)
        /\ Joined(kept) = SubSeq(input, 2, index - 1)
    BY <1>1 DEF TrimInv, ParseInv
  <1>4. Len(input) \in Nat /\ DOMAIN input = 1..Len(input)
    BY <1>2, LenProperties
  <1>5. index \in 2..Len(input) /\ index \in 1..Len(input) /\ input[index].role = "assistant"
    BY <1>1, <1>3, <1>4 DEF IsRole
  <1>6. kept # <<>>
    <2>1. index # 2
      BY <1>1, <1>3 DEF ParsedTo, IsRole
    <2> QED BY <1>3, <1>4, <2>1
  <1>7. GroupAt(input, index)
    BY <1>1, <1>2, <1>5, GroupParsed
  <1>8. /\ a \in Seq(Message) /\ l \in 0..Len(input) - index
        /\ a = SubSeq(input, index + 1, index + l)
        /\ \A k \in 1..l : a[k] = input[index + k] /\ IsRole(input, index + k, "tool")
        /\ ~IsRole(input, index + l + 1, "tool")
    BY <1>2, <1>5, AnswersAre
  <1> HIDE DEF a, l
  <1>9. l \in Nat /\ l = Len(a) /\ index + l \in index..Len(input)
    BY <1>4, <1>5, <1>8 DEF l
  <1>10. g = SubSeq(input, index, index + l)
    BY <1>2, <1>5, <1>8, <1>9, SubSeqRecursiveFirst
  <1>11. GroupShaped(g)
    <2> DEFINE h == <<input[index]>>
    <2>1. h \in Seq(Message) /\ Len(h) = 1 /\ h[1] = input[index] /\ g = h \o a
      <3>1. input[index] \in Message
        BY <1>2, <1>5, ElementOfSeq
      <3> QED BY <3>1
    <2> HIDE DEF h, g
    <2>a. a \in Seq(Message) /\ Len(a) = l
      BY <1>8, <1>9
    <2>0. /\ g \in Seq(Message) /\ Len(g) = Len(h) + l /\ (\A j \in 1..Len(h) : g[j] = h[j])
          /\ \A j \in 1..l : g[j + Len(h)] = a[j]
      BY <2>a, <2>1, PutBefore
    <2>2. /\ g \in Seq(Message) /\ Len(g) = 1 + l /\ (\A j \in 1..1 : g[j] = h[j])
          /\ \A j \in 1..l : g[j + 1] = a[j]
      BY <2>0, <2>1
    <2>3. ASSUME NEW j \in 2..Len(g) PROVE g[j].role = "tool"
      <3>1. j - 1 \in 1..l /\ (j - 1) + 1 = j
        BY <1>9, <2>2
      <3>2. g[j] = input[index + (j - 1)] /\ IsRole(input, index + (j - 1), "tool")
        BY <1>8, <2>2, <3>1
      <3> QED BY <3>2 DEF IsRole
    <2>4. Len(g) > 0 /\ g[1].role = "assistant"
      BY <1>5, <1>9, <2>1, <2>2
    <2> QED BY <2>2, <2>3, <2>4 DEF GroupShaped
  <1>12. g \in Seq(Message)
    BY <1>11 DEF GroupShaped
  <1> HIDE DEF g
  <1>13. kept' \in TurnLists /\ Joined(kept') = Joined(kept) \o g
    BY <1>1, <1>2, <1>6, <1>12, GroupAdded
  <1>14. Len(kept) \in Nat \ {0} /\ Len(kept) \in 1..Len(kept) /\ DOMAIN kept = 1..Len(kept)
    BY <1>2, <1>6, EmptySeq, LenProperties DEF TurnLists
  <1>15. /\ Len(kept') = Len(kept) /\ DOMAIN kept' = 1..Len(kept) /\ kept' # <<>>
         /\ \A n \in 1..Len(kept) :
              kept'[n] = IF n = Len(kept) THEN Append(kept[Len(kept)], g) ELSE kept[n]
    <2>1. kept[Len(kept)] \in Seq(Seq(Message))
      BY <1>2, <1>14, ElementOfSeq DEF TurnLists
    <2>2. Append(kept[Len(kept)], g) \in Seq(Seq(Message))
      BY <1>12, <2>1, AppendProperties
    <2>3. /\ Len(kept') = Len(kept)
          /\ \A n \in 1..Len(kept) :
               kept'[n] = IF n = Len(kept) THEN Append(kept[Len(kept)], g) ELSE kept[n]
      BY <1>1, <1>2, <1>14, <2>2, ExceptSeq DEF TurnLists
    <2>4. DOMAIN kept' = 1..Len(kept')
      BY <1>13, LenProperties DEF TurnLists
    <2>5. kept' # <<>>
      <3>1. Len(kept') = Len(kept) /\ Len(kept) # 0
        BY <1>14, <2>3
      <3> QED BY <3>1
    <2> QED BY <2>3, <2>4, <2>5
  <1>16. \A n \in DOMAIN kept' : TurnShaped(kept'[n])
    BY <1>2, <1>11, <1>14, <1>15, TurnGrown
  <1>17. Joined(kept') = SubSeq(input, 2, index' - 1)
    <2> DEFINE j == index - 1
               n == index + l
    <2>1. 2 \in 1..Len(input) + 1 /\ j \in 2 - 1..Len(input) /\ n \in j..Len(input) /\ j + 1 = index
          /\ index' - 1 = n
      BY <1>1, <1>4, <1>5, <1>9
    <2>2. Joined(kept') = SubSeq(input, 2, j) \o SubSeq(input, j + 1, n)
      BY <1>3, <1>10, <1>13, <2>1
    <2> HIDE DEF j, n
    <2>3. SubSeq(input, 2, j) \o SubSeq(input, j + 1, n) = SubSeq(input, 2, n)
      BY <1>2, <2>1, ConcatAdjacentSubSeq
    <2> QED BY <2>1, <2>2, <2>3
  <1>18. ParsedTo(input, index')
    <2> SUFFICES ASSUME NEW j \in 2..index' - 1
                 PROVE  \/ IsRole(input, j, "user")
                        \/ IsRole(input, j, "assistant") /\ GroupAt(input, j)
                        \/ IsRole(input, j, "tool") /\ input[j - 1].role \in {"assistant", "tool"}
      BY <1>3 DEF ParsedTo
    <2>1. CASE j < index
      <3>1. j \in 2..index - 1
        BY <1>5, <2>1
      <3> QED BY <1>3, <3>1 DEF ParsedTo
    <2>2. CASE j = index
      BY <1>1, <1>7, <2>2
    <2>3. CASE j > index
      <3> DEFINE k == j - index
      <3>1. k \in 1..l /\ index + k = j /\ (k # 1 => k - 1 \in 1..l /\ index + (k - 1) = j - 1)
            /\ (k = 1 => j - 1 = index)
        <4>1. j \in Nat /\ index \in Nat /\ l \in Nat /\ j <= index + l
          BY <1>1, <1>5, <1>9
        <4>2. k \in 1..l /\ index + k = j /\ index + (k - 1) = j - 1
          BY <2>3, <4>1
        <4> HIDE DEF k
        <4> QED BY <4>1, <4>2
      <3> HIDE DEF k
      <3>2. IsRole(input, j, "tool")
        BY <1>8, <3>1
      <3>3. input[j - 1].role \in {"assistant", "tool"}
        BY <1>5, <1>8, <3>1 DEF IsRole
      <3> QED BY <3>2, <3>3
    <2>4. j < index \/ j = index \/ j > index
      BY <1>1, <1>5, <1>9
    <2> QED BY <2>1, <2>2, <2>3, <2>4
  <1>19. index' \in 2..Len(input) + 1 /\ index' \in Nat /\ index' = index + l + 1
    BY <1>1, <1>4, <1>5, <1>9
  <1>20. ~IsRole(input, index', "tool")
    BY <1>8, <1>19
  <1>21. ParseInv'
    BY <1>1, <1>15, <1>17, <1>18, <1>19, <1>20 DEF ParseInv
  <1> QED BY <1>1, <1>2, <1>13, <1>16, <1>19, <1>21
          DEF TrimInv, TurnsInv, GroupsInv, PreparesAsDefined, TurnLists

LEMMA MessageRefused ==
  ASSUME TrimInv, RefuseMessage
  PROVE  TrimInv'
  <1>1. /\ input' = input /\ index' = index /\ kept' = kept
        /\ trimAt' = "error" /\ trimAt = "parse"
    BY DEF RefuseMessage
  <1>2. /\ input \in Seq(Message) /\ index \in 2..Len(input) + 1
        /\ (IsRole(input, index, "tool") => input[index - 1].role = "user")
    BY <1>1 DEF TrimInv, ParseInv
  <1>3. Len(input) \in Nat /\ DOMAIN input = 1..Len(input)
    BY <1>2, LenProperties
  <1>4. index \in 2..Len(input) /\ index \in 1..Len(input)
    BY <1>2, <1>3 DEF RefuseMessage, NextIs, IsRole
  <1>5. ASSUME Replayable(input) PROVE FALSE
    <2>1. \/ IsRole(input, index, "user")
          \/ IsRole(input, index, "assistant") /\ GroupAt(input, index)
          \/ IsRole(input, index, "tool") /\ input[index - 1].role \in {"assistant", "tool"}
      BY <1>4, <1>5 DEF Replayable
    <2>2. ~IsRole(input, index, "tool")
      BY <1>2, <2>1 DEF IsRole
    <2>3. ~(IsRole(input, index, "system") \/ IsRole(input, index, "tool"))
      BY <2>1, <2>2 DEF IsRole
    <2>4. IsRole(input, index, "assistant") /\ ~IsRole(input, index, "user")
      BY <2>3 DEF RefuseMessage, NextIs, IsRole
    <2>5. GroupAt(input, index)
      BY <2>1, <2>2, <2>4
    <2>6. /\ IsInjective(input[index].calls)
          /\ [k \in DOMAIN Answers |-> Answers[k].id] = input[index].calls
      BY <1>2, <1>4, <2>4, <2>5, GroupParsed
    <2> QED BY <2>3, <2>6 DEF RefuseMessage, NextIs
  <1>6. Unpreparable(input)
    BY <1>5 DEF Unpreparable
  <1> QED BY <1>1, <1>6 DEF TrimInv, ParseInv, TurnsInv, GroupsInv, PreparesAsDefined

LEMMA ParsedWhole ==
  ASSUME TrimInv, Parsed
  PROVE  TrimInv'
  <1>1. /\ input' = input /\ index' = index /\ kept' = kept
        /\ trimAt' = "turns" /\ trimAt = "parse" /\ index > Len(input)
    BY DEF Parsed
  <1>2. /\ input \in Seq(Message) /\ index \in 2..Len(input) + 1
        /\ ParsedTo(input, index) /\ (index > 2 => kept # <<>>)
        /\ Joined(kept) = SubSeq(input, 2, index - 1)
    BY <1>1 DEF TrimInv, ParseInv
  <1>3. Len(input) \in Nat /\ DOMAIN input = 1..Len(input)
    BY <1>2, LenProperties
  <1>4. index = Len(input) + 1 /\ index - 1 = Len(input)
    BY <1>1, <1>2, <1>3
  <1>5. Replayable(input)
    BY <1>2, <1>4 DEF ParsedTo, Replayable
  <1>6. /\ 2 \in UserAt(input) /\ kept # <<>> /\ input[1].role = "system"
    <2>1. 2 \in 1..Len(input) /\ input[2].role = "user" /\ input[1].role = "system"
      BY <1>2, <1>3 DEF ParsedTo, IsRole
    <2> QED BY <1>2, <1>3, <1>4, <2>1 DEF UserAt
  <1>7. \A i \in UserAt(input) : ~(i < 2)
    <2>1. \A i \in 1..Len(input) : i < 2 => i = 1
      BY <1>3
    <2> QED BY <1>3, <1>6, <2>1 DEF UserAt
  <1>8. TurnsInv'
    BY <1>1, <1>2, <1>4, <1>5, <1>6, <1>7 DEF TurnsInv
  <1> QED BY <1>1, <1>8 DEF TrimInv, ParseInv, GroupsInv, PreparesAsDefined

-----------------------------------------------------------------------------
(* Trimming *)

LEMMA FirstIs ==
  ASSUME NEW S, S \subseteq Nat, NEW i \in S, \A j \in S : i <= j
  PROVE  First(S) = i
  <1> DEFINE k == CHOOSE n \in S : \A j \in S : n <= j
  <1>1. k \in S /\ \A j \in S : k <= j
    OBVIOUS
  <1>2. First(S) = k
    BY DEF First
  <1> HIDE DEF k
  <1>3. k <= i /\ i <= k /\ k \in Nat /\ i \in Nat
    BY <1>1
  <1> QED BY <1>2, <1>3

LEMMA NotEmpty ==
  ASSUME NEW s, Len(s) # 0
  PROVE  s # <<>>
  OBVIOUS

(* What is left of m from p on is f, which ends before q, and r *)
Splits(m, p, f, r, q) ==
  /\ m \in Seq(Message) /\ f \in Seq(Message) /\ r \in Seq(Message)
  /\ p \in 1..Len(m) + 1 /\ q = p + Len(f)
  /\ f \o r = SubSeq(m, p, Len(m))

(* What f and r are then *)
AreParts(m, p, f, r, q) ==
  /\ q \in p..Len(m) + 1 /\ r = SubSeq(m, q, Len(m)) /\ Len(r) = Len(m) + 1 - q
  /\ \A j \in 1..Len(f) : f[j] = m[p + j - 1]
  /\ \A i \in p..q - 1 : i - p + 1 \in 1..Len(f) /\ m[i] = f[i - p + 1]
  /\ \A j \in 1..Len(r) : r[j] = m[q + j - 1]
  /\ \A i \in q..Len(m) : i - q + 1 \in 1..Len(r) /\ m[i] = r[i - q + 1]

LEMMA RestIs ==
  ASSUME NEW m, NEW p, NEW f, NEW r, NEW q, Splits(m, p, f, r, q)
  PROVE  AreParts(m, p, f, r, q)
  <1>0. /\ m \in Seq(Message) /\ f \in Seq(Message) /\ r \in Seq(Message)
        /\ p \in 1..Len(m) + 1 /\ q = p + Len(f) /\ f \o r = SubSeq(m, p, Len(m))
    BY DEF Splits
  <1> DEFINE l == Len(m)
             s == f \o r
             t == SubSeq(m, q, l)
  <1>1. l \in Nat /\ Len(f) \in Nat /\ Len(r) \in Nat /\ p \in Nat /\ p > 0 /\ p <= l + 1 /\ q = p + Len(f)
    BY <1>0, LenProperties
  <1>2. /\ Len(s) = l + 1 - p /\ \A k \in 1..l + 1 - p : s[k] = m[p + k - 1]
    <2>1. l \in p - 1..Len(m) /\ l - p + 1 = l + 1 - p
      BY <1>1
    <2>2. /\ Len(SubSeq(m, p, l)) = l - p + 1
          /\ \A k \in 1..l - p + 1 : SubSeq(m, p, l)[k] = m[p + k - 1]
      BY <1>0, <2>1, PartIs
    <2> QED BY <1>0, <2>1, <2>2
  <1>3. /\ Len(s) = Len(f) + Len(r) /\ (\A j \in 1..Len(f) : s[j] = f[j])
        /\ \A j \in 1..Len(r) : s[j + Len(f)] = r[j]
    BY <1>0, PutBefore
  <1> HIDE DEF s
  <1>4. Len(f) + Len(r) = l + 1 - p /\ Len(r) = l + 1 - q /\ q \in p..l + 1
    <2>1. Len(f) + Len(r) = l + 1 - p
      BY <1>2, <1>3
    <2> DEFINE a == Len(f)
               b == Len(r)
    <2>2. l \in Nat /\ a \in Nat /\ b \in Nat /\ p \in Nat /\ q = p + a /\ a + b = l + 1 - p
      BY <1>1, <2>1
    <2> HIDE DEF a, b, l
    <2>3. b = l + 1 - q /\ q \in p..l + 1
      BY <2>2
    <2> QED BY <2>1, <2>3 DEF a, b
  <1>5. ASSUME NEW j \in 1..Len(f) PROVE f[j] = m[p + j - 1]
    <2>1. j \in 1..l + 1 - p
      BY <1>1, <1>4
    <2> QED BY <1>2, <1>3, <2>1
  <1>6. ASSUME NEW j \in 1..Len(r) PROVE r[j] = m[q + j - 1]
    <2>1. j + Len(f) \in 1..l + 1 - p /\ p + (j + Len(f)) - 1 = q + j - 1
      BY <1>1, <1>4
    <2>2. s[j + Len(f)] = m[p + (j + Len(f)) - 1]
      BY <1>2, <2>1
    <2> QED BY <1>3, <2>1, <2>2
  <1>7. r = t
    <2>1. q \in 1..Len(m) + 1 /\ l \in q - 1..Len(m) /\ l - q + 1 = l + 1 - q
      BY <1>1, <1>4
    <2> HIDE DEF l
    <2>2. /\ t \in Seq(Message) /\ Len(t) = l - q + 1
          /\ \A k \in 1..l - q + 1 : t[k] = m[q + k - 1]
      BY <1>0, <2>1, PartIs
    <2> HIDE DEF t
    <2>3. Len(r) = Len(t)
      BY <1>4, <2>1, <2>2
    <2>4. \A k \in 1..Len(r) : r[k] = t[k]
      BY <1>6, <2>2, <2>3
    <2> QED BY <1>0, <2>2, <2>3, <2>4, SeqEqual
  <1>8. ASSUME NEW i \in p..q - 1 PROVE i - p + 1 \in 1..Len(f) /\ m[i] = f[i - p + 1]
    <2>1. i - p + 1 \in 1..Len(f) /\ p + (i - p + 1) - 1 = i
      BY <1>1
    <2>2. f[i - p + 1] = m[p + (i - p + 1) - 1]
      BY <1>5, <2>1
    <2> QED BY <2>1, <2>2
  <1>9. ASSUME NEW i \in q..l PROVE i - q + 1 \in 1..Len(r) /\ m[i] = r[i - q + 1]
    <2>1. i - q + 1 \in 1..Len(r) /\ q + (i - q + 1) - 1 = i
      BY <1>1, <1>4
    <2>2. r[i - q + 1] = m[q + (i - q + 1) - 1]
      BY <1>6, <2>1
    <2> QED BY <2>1, <2>2
  <1> QED BY <1>4, <1>5, <1>6, <1>7, <1>8, <1>9 DEF AreParts

LEMMA TurnPopped ==
  ASSUME TrimInv, DropTurn
  PROVE  TrimInv'
  <1>1. /\ input' = input /\ index' = index /\ kept' = Tail(kept)
        /\ trimAt' = "turns" /\ trimAt = "turns" /\ ~Fits(Flatten(kept)) /\ Len(kept) > 1
    BY DEF DropTurn, OverBudget
  <1>2. /\ input \in Seq(Message) /\ kept \in TurnLists /\ kept # <<>>
        /\ (\A n \in DOMAIN kept : TurnShaped(kept[n])) /\ Replayable(input) /\ index \in Nat
    BY <1>1 DEF TrimInv, TurnsInv, TurnLists
  <1>3. PICK p \in UserAt(input) :
          /\ Joined(kept) = SubSeq(input, p, Len(input))
          /\ \A i \in UserAt(input) : i < p => ~Fits(FromTurn(input, i))
    BY <1>1 DEF TrimInv, TurnsInv
  <1>4. Len(input) \in Nat /\ DOMAIN input = 1..Len(input) /\ p \in 1..Len(input)
    BY <1>2, LenProperties DEF UserAt
  <1> DEFINE f == FlattenSeq(kept[1])
             r == Joined(Tail(kept))
             q == p + Len(f)
  <1>5. /\ Tail(kept) \in TurnLists /\ (\A n \in DOMAIN Tail(kept) : TurnShaped(Tail(kept)[n]))
        /\ r \in Seq(Message) /\ Joined(kept) = f \o r /\ TurnShaped(kept[1])
    BY <1>2, KeptJoined
  <1>6. Tail(kept) # <<>>
    <2>1. Len(Tail(kept)) = Len(kept) - 1 /\ Len(kept) \in Nat
      BY <1>2, HeadTailProperties, LenProperties DEF TurnLists
    <2>2. Len(Tail(kept)) # 0
      BY <1>1, <2>1
    <2> QED BY <2>2, NotEmpty, Zenon
  <1>7. Len(r) \in Nat \ {0} /\ r[1].role = "user"
    BY <1>5, <1>6, KeptJoined
  <1>8. /\ f \in Seq(Message) /\ Len(f) \in Nat \ {0}
        /\ \A j \in 2..Len(f) : f[j].role # "user"
    BY <1>5, TurnJoined
  <1>q. q = p + Len(f)
    OBVIOUS
  <1> HIDE DEF f, r, q
  <1>9. /\ q \in p..Len(input) + 1 /\ r = SubSeq(input, q, Len(input)) /\ Len(r) = Len(input) + 1 - q
        /\ \A i \in p..q - 1 : i - p + 1 \in 1..Len(f) /\ input[i] = f[i - p + 1]
        /\ \A j \in 1..Len(r) : r[j] = input[q + j - 1]
    <2>1. p \in 1..Len(input) + 1 /\ f \o r = SubSeq(input, p, Len(input))
      BY <1>3, <1>4, <1>5
    <2>2. Splits(input, p, f, r, q)
      BY <1>2, <1>5, <1>8, <1>q, <2>1 DEF Splits
    <2>3. AreParts(input, p, f, r, q)
      BY <2>2, RestIs
    <2> QED BY <2>3 DEF AreParts
  <1>10. q \in UserAt(input)
    <2>1. q \in 1..Len(input) /\ q + 1 - 1 = q /\ 1 \in 1..Len(r)
      BY <1>4, <1>7, <1>9
    <2>2. r[1] = input[q]
      BY <1>9, <2>1
    <2> QED BY <1>4, <1>7, <2>1, <2>2 DEF UserAt
  <1>11. ~Fits(FromTurn(input, p))
    BY <1>1, <1>3 DEF Flatten, Joined, FromTurn
  <1>12. ASSUME NEW i \in UserAt(input), i < q PROVE ~Fits(FromTurn(input, i))
    <2>1. i \in 1..Len(input) /\ input[i].role = "user"
      BY <1>4 DEF UserAt
    <2>2. CASE i < p
      BY <1>3, <2>2
    <2>3. CASE i = p
      BY <1>11, <2>3
    <2>4. CASE i > p
      <3>1. i \in p..q - 1 /\ i - p + 1 # 1
        BY <1>4, <1>9, <1>12, <2>1, <2>4
      <3>2. i - p + 1 \in 2..Len(f) /\ input[i] = f[i - p + 1]
        <4>1. i - p + 1 \in 1..Len(f) /\ input[i] = f[i - p + 1]
          BY <1>9, <3>1
        <4> QED BY <1>8, <3>1, <4>1
      <3> QED BY <1>8, <2>1, <3>2
    <2>5. i < p \/ i = p \/ i > p
      BY <1>4, <2>1
    <2> QED BY <2>2, <2>3, <2>4, <2>5
  <1>13. TurnsInv'
    BY <1>1, <1>2, <1>6, <1>9, <1>10, <1>12 DEF TurnsInv, r
  <1> QED BY <1>1, <1>2, <1>5, <1>13 DEF TrimInv, ParseInv, GroupsInv, PreparesAsDefined, TurnLists

LEMMA TurnsPopped ==
  ASSUME TrimInv, TurnsDropped
  PROVE  TrimInv'
  <1>1. /\ input' = input /\ index' = index /\ kept' = kept
        /\ trimAt' = "groups" /\ trimAt = "turns" /\ (Fits(Flatten(kept)) \/ Len(kept) <= 1)
    BY DEF TurnsDropped, OverBudget
  <1>2. /\ input \in Seq(Message) /\ kept \in TurnLists /\ kept # <<>>
        /\ (\A n \in DOMAIN kept : TurnShaped(kept[n])) /\ Replayable(input)
    BY <1>1 DEF TrimInv, TurnsInv, TurnLists
  <1>3. PICK p \in UserAt(input) :
          /\ Joined(kept) = SubSeq(input, p, Len(input))
          /\ \A i \in UserAt(input) : i < p => ~Fits(FromTurn(input, i))
    BY <1>1 DEF TrimInv, TurnsInv
  <1>4. Len(input) \in Nat /\ DOMAIN input = 1..Len(input) /\ p \in 1..Len(input)
    BY <1>2, LenProperties DEF UserAt
  <1>5. Flatten(kept) = FromTurn(input, p)
    BY <1>3 DEF Flatten, Joined, FromTurn
  <1>6. UserAt(input) \subseteq 1..Len(input) /\ UserAt(input) \subseteq Nat
    BY <1>4 DEF UserAt
  <1>7. CASE Fits(Flatten(kept))
    <2>1. p \in TurnCuts(input)
      BY <1>5, <1>7 DEF TurnCuts
    <2>2. \A i \in TurnCuts(input) : i \in Nat /\ p <= i
      BY <1>3, <1>4, <1>6 DEF TurnCuts
    <2>3. First(TurnCuts(input)) = p
      BY <2>1, <2>2, FirstIs
    <2>4. ~Unpreparable(input) /\ Prepared(input) = FromTurn(input, p)
      BY <1>2, <2>1, <2>3 DEF Unpreparable, Prepared
    <2>5. Flatten(kept)' = Flatten(kept)
      BY <1>1 DEF Flatten
    <2>6. GroupsInv'
      BY <1>1, <1>2, <1>5, <1>7, <2>4, <2>5 DEF GroupsInv
    <2> QED BY <1>1, <2>6 DEF TrimInv, ParseInv, TurnsInv, PreparesAsDefined
  <1>8. CASE ~Fits(Flatten(kept))
    <2> DEFINE t == kept[1]
               f == FlattenSeq(t)
               r == FlattenSeq(Tail(t))
    <2>1. Len(kept) = 1
      <3>1. Len(kept) \in Nat \ {0}
        BY <1>2, EmptySeq DEF TurnLists
      <3> QED BY <1>1, <1>8, <3>1
    <2>2. TurnShaped(t) /\ Joined(kept) = f \o Joined(Tail(kept)) /\ Tail(kept) \in TurnLists
      BY <1>2, KeptJoined
    <2>3. /\ f \in Seq(Message) /\ Len(f) \in Nat \ {0}
          /\ Tail(t) \in Seq(Seq(Message)) /\ f = <<t[1][1]>> \o r
          /\ f[1] = t[1][1] /\ \A j \in 2..Len(f) : f[j].role # "user"
      BY <2>2, TurnJoined
    <2>4. Joined(kept) = f
      <3>1. Tail(kept) = <<>>
        <4>1. Len(Tail(kept)) = 0
          BY <1>2, <2>1, HeadTailProperties DEF TurnLists
        <4> QED BY <2>2, <4>1, EmptySeq DEF TurnLists
      <3>2. Joined(Tail(kept)) = <<>>
        BY <3>1, FlattenNothing DEF Joined
      <3> QED BY <2>2, <2>3, <3>2, ConcatEmptySeq
    <2>5. r \in Seq(Message)
      BY <2>3, FlattenIn
    <2>6. t[1] = <<t[1][1]>> /\ t[1][1] \in Message
      <3>1. t[1] \in Seq(Message) /\ Len(t[1]) = 1
        <4>1. t \in Seq(Seq(Message)) /\ Len(t) > 0 /\ Len(t[1]) = 1
          BY <2>2 DEF TurnShaped
        <4>2. 1 \in 1..Len(t)
          BY <4>1, LenProperties
        <4> QED BY <4>1, <4>2, ElementOfSeq
      <3> QED BY <3>1
    <2> DEFINE u == t[1][1]
               h == <<u>>
    <2>7. /\ h \in Seq(Message) /\ Len(h) = 1 /\ h[1] = u /\ f = h \o r
      BY <2>3, <2>6
    <2> HIDE DEF f, r, u, h
    <2>8. /\ p + 1 \in p..Len(input) + 1 /\ r = SubSeq(input, p + 1, Len(input))
          /\ u = input[p] /\ Len(r) = Len(input) + 1 - (p + 1)
          /\ \A i \in p + 1..Len(input) : i - (p + 1) + 1 \in 1..Len(r) /\ input[i] = r[i - (p + 1) + 1]
      <3>1. p \in 1..Len(input) + 1 /\ h \o r = SubSeq(input, p, Len(input))
        BY <1>3, <1>4, <2>4, <2>7
      <3> DEFINE q == p + 1
      <3>2. q = p + Len(h)
        BY <2>7
      <3> HIDE DEF q
      <3>4. /\ q \in p..Len(input) + 1 /\ r = SubSeq(input, q, Len(input)) /\ Len(r) = Len(input) + 1 - q
            /\ \A j \in 1..Len(h) : h[j] = input[p + j - 1]
            /\ \A i \in q..Len(input) : i - q + 1 \in 1..Len(r) /\ input[i] = r[i - q + 1]
        <4>1. Splits(input, p, h, r, q)
          BY <1>2, <2>5, <2>7, <3>1, <3>2 DEF Splits
        <4>2. AreParts(input, p, h, r, q)
          BY <4>1, RestIs
        <4> QED BY <4>2 DEF AreParts
      <3>3. h[1] = input[p]
        <4>1. 1 \in 1..Len(h) /\ p + 1 - 1 = p
          BY <1>4, <2>7
        <4> QED BY <3>4, <4>1
      <3> QED BY <2>7, <3>4, <3>3 DEF q
    <2>9. ASSUME NEW i \in UserAt(input) PROVE i <= p
      <3> SUFFICES ASSUME i > p PROVE FALSE
        BY <1>4, <1>6
      <3>1. i \in p + 1..Len(input) /\ input[i].role = "user"
        BY <1>4, <1>6 DEF UserAt
      <3> DEFINE k == i - (p + 1) + 1
      <3>2. k \in 1..Len(r) /\ input[i] = r[k]
        BY <2>8, <3>1
      <3> HIDE DEF k
      <3>3. /\ Len(f) = Len(h) + Len(r) /\ Len(r) \in Nat
            /\ \A j \in 1..Len(r) : f[j + Len(h)] = r[j]
        BY <2>5, <2>7, PutBefore
      <3>4. k + 1 \in 2..Len(f) /\ f[k + 1] = r[k]
        BY <2>7, <3>2, <3>3
      <3> QED BY <2>3, <3>1, <3>2, <3>4
    <2>10. CurrentUser(input) = p
      BY <1>6, <2>9 DEF CurrentUser
    <2>11. TurnCuts(input) = {}
      <3> SUFFICES ASSUME NEW i \in TurnCuts(input) PROVE FALSE
        OBVIOUS
      <3>1. i \in UserAt(input) /\ Fits(FromTurn(input, i)) /\ i \in Nat /\ i <= p
        BY <1>6, <2>9 DEF TurnCuts
      <3>2. i < p \/ i = p
        BY <1>4, <3>1
      <3> QED BY <1>3, <1>5, <1>8, <3>1, <3>2
    <2>12. ASSUME NEW i \in GroupsAt(input) PROVE ~(i < p + 1)
      BY <1>4, <2>10 DEF GroupsAt
    <2>13. kept[1][1] = <<input[CurrentUser(input)]>> /\ FlattenSeq(Tail(kept[1])) = r
      BY <2>6, <2>8, <2>10 DEF u, r
    <2>14. GroupsInv'
      <3>1. p + 1 \in CurrentUser(input) + 1..Len(input) + 1
        BY <1>4, <2>8, <2>10
      <3> HIDE DEF t
      <3> QED BY <1>1, <1>2, <2>1, <2>8, <2>10, <2>11, <2>12, <2>13, <3>1 DEF GroupsInv
    <2> QED BY <1>1, <2>14 DEF TrimInv, ParseInv, TurnsInv, PreparesAsDefined
  <1> QED BY <1>7, <1>8

LEMMA TwoHeads ==
  ASSUME NEW u \in Message, NEW v \in Message, NEW r \in Seq(Message)
  PROVE  <<u>> \o (<<v>> \o r) = <<u, v>> \o r
  <1> DEFINE a == <<u>>
             b == <<v>>
             c == <<u, v>>
  <1>1. /\ a \in Seq(Message) /\ Len(a) = 1 /\ a[1] = u
        /\ b \in Seq(Message) /\ Len(b) = 1 /\ b[1] = v
        /\ c \in Seq(Message) /\ Len(c) = 2 /\ c[1] = u /\ c[2] = v
    OBVIOUS
  <1> HIDE DEF a, b, c
  <1>2. /\ a \o b \in Seq(Message) /\ Len(a \o b) = 2 /\ (a \o b)[1] = u /\ (a \o b)[2] = v
    <2>1. /\ a \o b \in Seq(Message) /\ Len(a \o b) = Len(a) + Len(b)
          /\ (\A j \in 1..Len(a) : (a \o b)[j] = a[j])
          /\ \A j \in 1..Len(b) : (a \o b)[j + Len(a)] = b[j]
      BY <1>1, PutBefore
    <2>2. 1 \in 1..Len(a) /\ 1 \in 1..Len(b) /\ 1 + Len(a) = 2
      BY <1>1
    <2> QED BY <1>1, <2>1, <2>2
  <1> DEFINE d == a \o b
  <1>3. d = c
    <2> HIDE DEF d
    <2>1. \A i \in 1..Len(d) : i = 1 \/ i = 2
      BY <1>2 DEF d
    <2>2. d \in Seq(Message) /\ Len(d) = Len(c) /\ \A i \in 1..Len(d) : d[i] = c[i]
      BY <1>1, <1>2, <2>1 DEF d
    <2> QED BY <1>1, <2>2, SeqEqual
  <1>4. (a \o b) \o r = a \o (b \o r)
    BY <1>1, ConcatAssociative
  <1> QED BY <1>3, <1>4 DEF a, b, c

LEMMA GroupRemoved ==
  ASSUME NEW t, TurnShaped(t), Len(t) > 1
  PROVE  /\ t \in Seq(Seq(Message)) /\ Len(t) \in Nat /\ GroupShaped(t[2])
         /\ RemoveAt(t, 2) \in Seq(Seq(Message)) /\ Len(RemoveAt(t, 2)) = Len(t) - 1
         /\ TurnShaped(RemoveAt(t, 2)) /\ RemoveAt(t, 2)[1] = t[1]
         /\ Tail(RemoveAt(t, 2)) = Tail(Tail(t)) /\ Tail(Tail(t)) \in Seq(Seq(Message))
         /\ Len(Tail(Tail(t))) = Len(t) - 2
         /\ FlattenSeq(Tail(t)) = t[2] \o FlattenSeq(Tail(Tail(t)))
  <1> DEFINE a == Tail(t)
             b == Tail(a)
             h == SubSeq(t, 1, 2 - 1)
             n == RemoveAt(t, 2)
  <1>1. t \in Seq(Seq(Message)) /\ Len(t) \in Nat /\ t # <<>> /\ Len(t) > 1
    <2>1. t \in Seq(Seq(Message))
      BY DEF TurnShaped
    <2> QED BY <2>1, LenProperties, NotEmpty
  <1>2. /\ a \in Seq(Seq(Message)) /\ Len(a) = Len(t) - 1 /\ \A k \in 1..Len(a) : a[k] = t[k + 1]
    BY <1>1, HeadTailProperties
  <1> HIDE DEF a
  <1>3. a # <<>> /\ a[1] = t[2] /\ Len(a) \in Nat /\ Len(a) > 0
    <2>1. Len(a) # 0 /\ 1 \in 1..Len(a) /\ 1 + 1 = 2 /\ Len(a) \in Nat /\ Len(a) > 0
      <3> DEFINE l == Len(t)
      <3>1. l \in Nat /\ l > 1 /\ Len(a) = l - 1
        BY <1>1, <1>2
      <3> HIDE DEF l
      <3> QED BY <3>1
    <2>2. a # <<>>
      BY <2>1, NotEmpty
    <2> QED BY <1>2, <2>1, <2>2
  <1>4. /\ b \in Seq(Seq(Message)) /\ Len(b) = Len(a) - 1
        /\ (\A k \in 1..Len(b) : b[k] = a[k + 1])
        /\ FlattenSeq(a) = a[1] \o FlattenSeq(b)
    BY <1>2, <1>3, HeadTailProperties, FlattenFirst
  <1>5. h = <<t[1]>> /\ h \in Seq(Seq(Message)) /\ t[1] \in Seq(Message)
    <2>1. 1 \in 1..Len(t) /\ 2 - 1 = 1
      BY <1>1
    <2>2. t[1] \in Seq(Message)
      BY <1>1, <2>1, ElementOfSeq
    <2>3. SubSeq(t, 1, 1) = <<t[1]>> \o SubSeq(t, 1 + 1, 1)
      <3>1. 1 \in 1..1
        OBVIOUS
      <3> QED BY <1>1, <2>1, <3>1, SubSeqRecursiveFirst
    <2>4. SubSeq(t, 1 + 1, 1) = <<>> /\ <<t[1]>> \in Seq(Seq(Message))
      BY <2>2, SubSeqEmpty
    <2>5. <<t[1]>> \o <<>> = <<t[1]>>
      BY <2>4, ConcatEmptySeq, Zenon
    <2> QED BY <2>1, <2>2, <2>3, <2>4, <2>5
  <1>6. b = SubSeq(t, 2 + 1, Len(t))
    <2>1. a = SubSeq(t, 2, Len(t))
      BY <1>1, TailIsSubSeq DEF a
    <2>2. Tail(SubSeq(t, 2, Len(t))) = SubSeq(t, 2 + 1, Len(t))
      <3>1. 2 \in 1..Len(t) /\ Len(t) \in 2..Len(t)
        BY <1>1
      <3> QED BY <1>1, <3>1, HeadTailOfSubSeq
    <2> QED BY <2>1, <2>2
  <1> HIDE DEF b, h
  <1>7. n = h \o b
    BY <1>6 DEF RemoveAt, h
  <1>8. n = <<t[1]>> \o b
    BY <1>5, <1>7
  <1> HIDE DEF n
  <1>9. /\ n \in Seq(Seq(Message)) /\ Len(n) = 1 + Len(b) /\ n[1] = t[1]
        /\ \A k \in 1..Len(b) : n[k + 1] = b[k]
    <2>1. /\ n \in Seq(Seq(Message)) /\ Len(n) = Len(h) + Len(b) /\ Len(h) = 1 /\ h[1] = t[1]
          /\ \A i \in 1..Len(h) + Len(b) : n[i] = IF i <= Len(h) THEN h[i] ELSE b[i - Len(h)]
      BY <1>4, <1>5, <1>7, ConcatProperties
    <2>2. Len(b) \in Nat
      BY <1>4, LenProperties
    <2>3. n[1] = t[1]
      <3>1. 1 \in 1..Len(h) + Len(b) /\ 1 <= Len(h)
        BY <2>1, <2>2
      <3> QED BY <2>1, <3>1
    <2>4. ASSUME NEW k \in 1..Len(b) PROVE n[k + 1] = b[k]
      <3>1. k + 1 \in 1..Len(h) + Len(b) /\ ~(k + 1 <= Len(h)) /\ k + 1 - Len(h) = k
        BY <2>1, <2>2
      <3> QED BY <2>1, <3>1
    <2> QED BY <2>1, <2>3, <2>4
  <1>10. \A k \in 1..Len(b) : b[k] = t[k + 2] /\ k + 2 \in 2..Len(t)
    <2> SUFFICES ASSUME NEW k \in 1..Len(b) PROVE b[k] = t[k + 2] /\ k + 2 \in 2..Len(t)
      OBVIOUS
    <2>1. k + 1 \in 1..Len(a) /\ k + 1 + 1 = k + 2 /\ k + 2 \in 2..Len(t)
      BY <1>1, <1>2, <1>3, <1>4
    <2>2. a[k + 1] = t[k + 1 + 1]
      BY <1>2, <2>1
    <2> QED BY <1>4, <2>1, <2>2
  <1>11. Len(n) = Len(t) - 1 /\ Len(b) = Len(t) - 2 /\ Len(n) \in Nat /\ Len(n) > 0
    BY <1>1, <1>2, <1>3, <1>4, <1>9
  <1>12. TurnShaped(n)
    <2>1. ASSUME NEW k \in 2..Len(n) PROVE GroupShaped(n[k])
      <3>1. k - 1 \in 1..Len(b) /\ (k - 1) + 1 = k
        BY <1>9, <1>11
      <3>2. n[k] = t[(k - 1) + 2] /\ (k - 1) + 2 \in 2..Len(t)
        BY <1>9, <1>10, <3>1
      <3> QED BY <3>2 DEF TurnShaped
    <2> QED BY <1>9, <1>11, <2>1 DEF TurnShaped
  <1>13. Tail(n) = b
    <2>1. n # <<>>
      BY <1>11, NotEmpty
    <2>2. /\ Tail(n) \in Seq(Seq(Message)) /\ Len(Tail(n)) = Len(n) - 1
          /\ \A k \in 1..Len(Tail(n)) : Tail(n)[k] = n[k + 1]
      BY <1>9, <2>1, HeadTailProperties
    <2> DEFINE c == Tail(n)
    <2>3. c \in Seq(Seq(Message)) /\ Len(c) = Len(b) /\ \A k \in 1..Len(c) : c[k] = b[k]
      BY <1>9, <1>11, <2>2
    <2> HIDE DEF c
    <2>4. c = b
      BY <1>4, <2>3, SeqEqual
    <2> QED BY <2>4 DEF c
  <1>14. GroupShaped(t[2])
    <2>1. 2 \in 2..Len(t)
      BY <1>1
    <2> QED BY <2>1 DEF TurnShaped
  <1> QED BY <1>1, <1>3, <1>4, <1>9, <1>11, <1>12, <1>13, <1>14 DEF n, b, a

(* The turn's user message and its groups from g on are what is sent *)
LEMMA GroupsSent ==
  ASSUME input \in Seq(Message), Replayable(input), kept \in TurnLists, Len(kept) = 1,
         TurnShaped(kept[1]), kept[1][1] = <<input[CurrentUser(input)]>>,
         NEW g, FlattenSeq(Tail(kept[1])) = SubSeq(input, g, Len(input))
  PROVE  Flatten(kept) = FromGroup(input, g)
  <1> DEFINE t == kept[1]
             cu == CurrentUser(input)
             r == FlattenSeq(Tail(t))
  <1>1. /\ FlattenSeq(t) = <<t[1][1]>> \o r /\ Tail(t) \in Seq(Seq(Message))
        /\ FlattenSeq(t) \in Seq(Message)
    BY TurnJoined
  <1>2. r \in Seq(Message)
    BY <1>1, FlattenIn
  <1>3. t[1][1] = input[cu]
    OBVIOUS
  <1>4. Joined(kept) = FlattenSeq(t)
    <2>1. Len(kept) # 0
      OBVIOUS
    <2>2. kept # <<>>
      BY <2>1, NotEmpty
    <2>3. Tail(kept) \in TurnLists /\ Len(Tail(kept)) = 0
      BY <2>2, HeadTailProperties DEF TurnLists
    <2>4. Tail(kept) = <<>>
      BY <2>3, EmptySeq DEF TurnLists
    <2>5. FlattenSeq(kept) = t \o FlattenSeq(Tail(kept)) /\ t \in Seq(Seq(Message))
      BY <2>2, FlattenFirst DEF TurnLists
    <2>6. FlattenSeq(kept) = t
      BY <2>4, <2>5, FlattenNothing, ConcatEmptySeq
    <2> QED BY <2>6 DEF Joined
  <1>5. cu \in 1..Len(input) /\ 1 \in 1..Len(input)
    <2>1. Len(input) \in Nat /\ DOMAIN input = 1..Len(input)
      BY LenProperties
    <2>2. 2 \in UserAt(input) /\ 1 \in 1..Len(input)
      BY <2>1 DEF Replayable, IsRole, UserAt
    <2>3. cu \in UserAt(input)
      BY <2>1, <2>2, CurrentIsIn
    <2> QED BY <2>1, <2>2, <2>3 DEF UserAt
  <1>6. input[1] \in Message /\ input[cu] \in Message
    BY <1>5, ElementOfSeq
  <1> HIDE DEF t, cu, r
  <1>7. <<input[1]>> \o (<<input[cu]>> \o r) = <<input[1], input[cu]>> \o r
    BY <1>2, <1>6, TwoHeads
  <1>8. Flatten(kept) = <<input[1]>> \o (<<input[cu]>> \o r)
    BY <1>1, <1>3, <1>4 DEF Flatten, Joined
  <1>9. FromGroup(input, g) = <<input[1], input[cu]>> \o r
    BY DEF FromGroup, cu, r, t
  <1> QED BY <1>7, <1>8, <1>9

(* The current turn, over budget, as GroupsInv has it *)
TrimmedTo(g) ==
  /\ TurnCuts(input) = {} /\ Len(kept) = 1
  /\ kept[1][1] = <<input[CurrentUser(input)]>>
  /\ g \in CurrentUser(input) + 1..Len(input) + 1
  /\ FlattenSeq(Tail(kept[1])) = SubSeq(input, g, Len(input))
  /\ Len(kept[1]) = 1 => g = CurrentUser(input) + 1
  /\ \A i \in GroupsAt(input) : i < g => ~Fits(FromGroup(input, i))

LEMMA InGroups ==
  ASSUME TrimInv, trimAt = "groups"
  PROVE  /\ input \in Seq(Message) /\ kept \in TurnLists /\ kept # <<>> /\ Replayable(input)
         /\ index \in Nat
         /\ TurnShaped(kept[1]) /\ Len(input) \in Nat /\ DOMAIN input = 1..Len(input)
         /\ CurrentUser(input) \in 2..Len(input) /\ CurrentUser(input) \in UserAt(input)
         /\ \/ /\ ~Unpreparable(input)
               /\ Flatten(kept) = Prepared(input) /\ Fits(Flatten(kept))
            \/ \E g : TrimmedTo(g) /\ Flatten(kept) = FromGroup(input, g)
  <1>1. /\ input \in Seq(Message) /\ kept \in TurnLists /\ kept # <<>> /\ Replayable(input) /\ index \in Nat
        /\ \A n \in DOMAIN kept : TurnShaped(kept[n])
    BY DEF TrimInv, GroupsInv, TurnLists
  <1>2. Len(input) \in Nat /\ DOMAIN input = 1..Len(input)
    BY <1>1, LenProperties
  <1>3. TurnShaped(kept[1])
    BY <1>1, KeptJoined
  <1>4. CurrentUser(input) \in 2..Len(input) /\ CurrentUser(input) \in UserAt(input)
    <2>1. 2 \in UserAt(input) /\ input[1].role = "system"
      BY <1>1, <1>2 DEF Replayable, IsRole, UserAt
    <2>2. CurrentUser(input) \in UserAt(input)
      BY <1>2, <2>1, CurrentIsIn
    <2>3. \A i \in UserAt(input) : i \in 1..Len(input) /\ i # 1
      BY <1>2, <2>1 DEF UserAt
    <2> QED BY <1>2, <2>2, <2>3
  <1>5. \/ /\ ~Unpreparable(input)
           /\ Flatten(kept) = Prepared(input) /\ Fits(Flatten(kept))
        \/ \E g : TrimmedTo(g)
    BY DEF TrimInv, GroupsInv, TrimmedTo
  <1>6. ASSUME NEW g, TrimmedTo(g) PROVE Flatten(kept) = FromGroup(input, g)
    BY <1>1, <1>3, <1>6, GroupsSent DEF TrimmedTo
  <1> QED BY <1>1, <1>2, <1>3, <1>4, <1>5, <1>6

(* A group that is left is one of the current turn, and the next behind it *)
LEMMA NewestGroups ==
  ASSUME TrimInv, trimAt = "groups", NEW g, TrimmedTo(g), Len(kept[1]) > 1
  PROVE  LET next == g + Len(kept[1][2])
             rest == FlattenSeq(Tail(Tail(kept[1])))
         IN  /\ g \in GroupsAt(input) /\ g \in Nat
             /\ next \in g + 1..Len(input) + 1 /\ rest = SubSeq(input, next, Len(input))
             /\ Len(rest) = Len(input) + 1 - next
             /\ \A i \in GroupsAt(input) : i < next => i <= g
  <1> DEFINE t == kept[1]
             f == t[2]
             b == Tail(Tail(t))
             rest == FlattenSeq(b)
             next == g + Len(f)
  <1>1. /\ input \in Seq(Message) /\ TurnShaped(t) /\ Len(input) \in Nat /\ DOMAIN input = 1..Len(input)
        /\ CurrentUser(input) \in 2..Len(input)
    BY InGroups
  <1>2. /\ GroupShaped(f) /\ b \in Seq(Seq(Message)) /\ FlattenSeq(Tail(t)) = f \o rest
    BY <1>1, GroupRemoved
  <1>3. /\ g \in CurrentUser(input) + 1..Len(input) + 1
        /\ FlattenSeq(Tail(t)) = SubSeq(input, g, Len(input))
    BY DEF TrimmedTo
  <1>4. rest \in Seq(Message)
    BY <1>2, FlattenIn
  <1>5. /\ f \in Seq(Message) /\ Len(f) \in Nat /\ Len(f) > 0 /\ f[1].role = "assistant"
        /\ \A k \in 2..Len(f) : f[k].role = "tool"
    <2>1. f \in Seq(Message)
      BY <1>2 DEF GroupShaped
    <2> QED BY <1>2, <2>1, LenProperties DEF GroupShaped
  <1>c. g \in 1..Len(input) + 1
    <2>1. CurrentUser(input) \in Nat /\ Len(input) \in Nat
      BY <1>1
    <2> QED BY <1>3, <2>1
  <1>6. next = g + Len(f) /\ g \in 1..Len(input) + 1 /\ f \o rest = SubSeq(input, g, Len(input))
    BY <1>2, <1>3, <1>c
  <1> HIDE DEF t, f, b, rest, next
  <1>7. AreParts(input, g, f, rest, next)
    <2>1. Splits(input, g, f, rest, next)
      BY <1>1, <1>4, <1>5, <1>6 DEF Splits
    <2> QED BY <2>1, RestIs
  <1>8. next \in g + 1..Len(input) + 1 /\ g \in Nat /\ g \in 1..Len(input)
    BY <1>1, <1>5, <1>6, <1>7 DEF AreParts
  <1>9. g \in GroupsAt(input)
    <2>1. 1 \in 1..Len(f) /\ g + 1 - 1 = g
      BY <1>5, <1>8
    <2>2. f[1] = input[g]
      BY <1>7, <2>1 DEF AreParts
    <2>3. g > CurrentUser(input)
      BY <1>1, <1>3
    <2> QED BY <1>1, <1>5, <1>8, <2>2, <2>3 DEF GroupsAt
  <1>10. ASSUME NEW i \in GroupsAt(input), i < next PROVE i <= g
    <2>1. i \in 1..Len(input) /\ input[i].role = "assistant"
      BY <1>1 DEF GroupsAt
    <2> SUFFICES ASSUME i > g PROVE FALSE
      BY <1>8, <2>1
    <2>2. i \in g..next - 1 /\ i - g + 1 # 1
      BY <1>8, <1>10, <2>1
    <2>3. i - g + 1 \in 1..Len(f) /\ input[i] = f[i - g + 1]
      BY <1>7, <2>2 DEF AreParts
    <2>4. i - g + 1 \in 2..Len(f)
      BY <1>5, <2>2, <2>3
    <2> QED BY <1>5, <2>1, <2>3, <2>4
  <1>11. rest = SubSeq(input, next, Len(input)) /\ Len(rest) = Len(input) + 1 - next
    BY <1>7 DEF AreParts
  <1> QED BY <1>8, <1>9, <1>10, <1>11 DEF next, rest, b, f, t

LEMMA GroupPopped ==
  ASSUME TrimInv, DropGroup
  PROVE  TrimInv'
  <1> DEFINE t == kept[1]
             less == RemoveAt(t, 2)
  <1>1. /\ input' = input /\ index' = index /\ kept' = [kept EXCEPT ![1] = less]
        /\ trimAt' = "groups" /\ trimAt = "groups" /\ ~Fits(Flatten(kept)) /\ Len(t) > 2
    BY DEF DropGroup, OverBudget
  <1>2. /\ input \in Seq(Message) /\ kept \in TurnLists /\ Replayable(input) /\ TurnShaped(t)
        /\ index \in Nat /\ Len(input) \in Nat /\ CurrentUser(input) \in 2..Len(input)
    BY <1>1, InGroups
  <1>3. PICK g : TrimmedTo(g) /\ Flatten(kept) = FromGroup(input, g)
    BY <1>1, InGroups
  <1>4. Len(t) \in Nat
    <2>1. t \in Seq(Seq(Message))
      BY <1>2 DEF TurnShaped
    <2> QED BY <2>1, LenProperties
  <1>5. Len(t) > 1 /\ Len(t) - 1 # 1
    <2> DEFINE l == Len(t)
    <2>1. l \in Nat /\ l > 2
      BY <1>1, <1>4
    <2> HIDE DEF l
    <2>2. l > 1 /\ l - 1 # 1
      BY <2>1
    <2> QED BY <2>2 DEF l
  <1>6. /\ less \in Seq(Seq(Message)) /\ Len(less) = Len(t) - 1 /\ TurnShaped(less)
        /\ less[1] = t[1] /\ Tail(less) = Tail(Tail(t))
    BY <1>2, <1>5, GroupRemoved
  <1> DEFINE next == g + Len(t[2])
             rest == FlattenSeq(Tail(Tail(t)))
  <1>7. /\ g \in Nat /\ next \in g + 1..Len(input) + 1 /\ rest = SubSeq(input, next, Len(input))
        /\ \A i \in GroupsAt(input) : i < next => i <= g
    BY <1>1, <1>3, <1>5, NewestGroups
  <1>8. Len(kept) = 1 /\ TurnCuts(input) = {} /\ t[1] = <<input[CurrentUser(input)]>>
        /\ g \in CurrentUser(input) + 1..Len(input) + 1
        /\ \A i \in GroupsAt(input) : i < g => ~Fits(FromGroup(input, i))
    BY <1>3 DEF TrimmedTo
  <1> HIDE DEF less, next, rest
  <1>9. /\ kept' \in TurnLists /\ Len(kept') = 1 /\ kept'[1] = less /\ kept' # <<>>
        /\ DOMAIN kept' = 1..1
    <2>1. 1 \in 1..Len(kept)
      BY <1>8
    <2>2. /\ kept' \in TurnLists /\ Len(kept') = Len(kept)
          /\ \A j \in 1..Len(kept) : kept'[j] = IF j = 1 THEN less ELSE kept[j]
      <3>1. kept \in Seq(Seq(Seq(Message))) /\ kept' = [kept EXCEPT ![1] = less]
        BY <1>1, <1>2 DEF TurnLists
      <3>2. less \in Seq(Seq(Message))
        BY <1>6
      <3> QED BY ONLY <2>1, <3>1, <3>2, ExceptSeq DEF TurnLists
    <2>3. Len(kept') = 1 /\ kept'[1] = less
      <3>1. Len(kept) = 1
        BY <1>8
      <3> QED BY <2>1, <2>2, <3>1
    <2>4. Len(kept') # 0
      BY <2>3
    <2> QED BY <2>2, <2>3, <2>4, NotEmpty, LenProperties DEF TurnLists
  <1>10. \A n \in DOMAIN kept' : TurnShaped(kept'[n])
    BY <1>6, <1>9
  <1>11. FlattenSeq(Tail(less)) = SubSeq(input, next, Len(input))
    BY <1>6, <1>7 DEF rest
  <1>12. Len(less) # 1
    BY <1>5, <1>6
  <1>13. next \in CurrentUser(input) + 1..Len(input) + 1
    BY <1>2, <1>7, <1>8
  <1>14. ASSUME NEW i \in GroupsAt(input), i < next PROVE ~Fits(FromGroup(input, i))
    <2>1. i <= g /\ i \in Nat
      <3>1. DOMAIN input = 1..Len(input)
        BY <1>2, LenProperties
      <3> QED BY <1>7, <1>14, <3>1 DEF GroupsAt
    <2>2. i < g \/ i = g
      BY <1>7, <2>1
    <2> QED BY <1>1, <1>3, <1>8, <2>2
  <1>15. GroupsInv'
    <2> HIDE DEF t
    <2>1. kept'[1][1] = <<input[CurrentUser(input)]>>
      BY <1>6, <1>8, <1>9
    <2> QED BY <1>1, <1>2, <1>8, <1>9, <1>11, <1>12, <1>13, <1>14, <2>1 DEF GroupsInv
  <1> QED BY <1>1, <1>2, <1>9, <1>10, <1>15
          DEF TrimInv, ParseInv, TurnsInv, PreparesAsDefined, TurnLists

LEMMA GroupsPopped ==
  ASSUME TrimInv, GroupsDropped
  PROVE  TrimInv'
  <1>1. /\ input' = input /\ index' = index /\ kept' = kept /\ trimAt = "groups"
        /\ trimAt' = IF ~Fits(Flatten(kept)) THEN "error" ELSE "done"
        /\ (Fits(Flatten(kept)) \/ Len(kept[1]) <= 2)
    BY DEF GroupsDropped, OverBudget
  <1>2. Flatten(kept)' = Flatten(kept) /\ Prepared(input)' = Prepared(input)
    BY <1>1 DEF Flatten
  <1>3. PreparesAsDefined'
    <2>1. CASE ~Unpreparable(input) /\ Flatten(kept) = Prepared(input) /\ Fits(Flatten(kept))
      BY <1>1, <1>2, <2>1 DEF PreparesAsDefined
    <2>2. CASE \E g : TrimmedTo(g) /\ Flatten(kept) = FromGroup(input, g)
      <3> DEFINE cu == CurrentUser(input)
                 t == kept[1]
      <3>1. PICK g : TrimmedTo(g) /\ Flatten(kept) = FromGroup(input, g)
        BY <2>2
      <3>2. /\ input \in Seq(Message) /\ Replayable(input) /\ TurnShaped(t) /\ Len(input) \in Nat
            /\ DOMAIN input = 1..Len(input) /\ cu \in 2..Len(input) /\ cu \in UserAt(input)
        BY <1>1, InGroups
      <3>3. /\ TurnCuts(input) = {} /\ FlattenSeq(Tail(t)) = SubSeq(input, g, Len(input))
            /\ (Len(t) = 1 => g = cu + 1) /\ g \in cu + 1..Len(input) + 1
            /\ \A i \in GroupsAt(input) : i < g => ~Fits(FromGroup(input, i))
        BY <3>1 DEF TrimmedTo
      <3>4. t \in Seq(Seq(Message)) /\ Len(t) \in Nat /\ Len(t) > 0
        <4>1. t \in Seq(Seq(Message)) /\ Len(t) > 0
          BY <3>2 DEF TurnShaped
        <4> QED BY <4>1, LenProperties
      <3>5. GroupsAt(input) \subseteq 1..Len(input) /\ GroupsAt(input) \subseteq Nat
        BY <3>2 DEF GroupsAt
      <3>a. Fits(Flatten(kept)) \/ Len(t) <= 2
        BY <1>1
      <3>b. cu \in 2..Len(input) /\ Len(input) \in Nat
        BY <3>2
      <3> HIDE DEF cu, t
      <3>6. CASE Len(t) = 1
        <4>1. g = Len(input) + 1
          <5>1. Len(Tail(t)) = 0 /\ Tail(t) \in Seq(Seq(Message))
            <6>1. t # <<>>
              BY <3>6, NotEmpty
            <6> QED BY <3>4, <3>6, <6>1, HeadTailProperties
          <5>2. Tail(t) = <<>>
            BY <5>1, EmptySeq
          <5>3. SubSeq(input, g, Len(input)) = <<>>
            BY <3>3, <5>2, FlattenNothing
          <5>4. /\ g \in 1..Len(input) + 1 /\ Len(input) \in g - 1..Len(input)
            BY <3>2, <3>3
          <5>5. Len(SubSeq(input, g, Len(input))) = Len(input) - g + 1
            BY <3>2, <5>4, PartIs
          <5>6. Len(input) - g + 1 = 0
            BY <5>3, <5>5
          <5> QED BY <3>2, <5>4, <5>6
        <4>2. cu = Len(input)
          BY <3>3, <3>6, <3>b, <4>1
        <4>3. GroupsAt(input) = {}
          <5> SUFFICES ASSUME NEW i \in GroupsAt(input) PROVE FALSE
            OBVIOUS
          <5>1. i > cu /\ i \in 1..Len(input)
            BY <3>5 DEF GroupsAt, cu
          <5> QED BY <3>2, <4>2, <5>1
        <4>4. Unpreparable(input)
          BY <3>3, <4>3 DEF Unpreparable, GroupCuts
        <4>5. ~Fits(Flatten(kept))
          <5>1. FromGroup(input, g) = FromTurn(input, cu)
            <6> DEFINE r == SubSeq(input, cu + 1, Len(input))
            <6>1. SubSeq(input, cu, Len(input)) = <<input[cu]>> \o r
              <7>1. cu \in 1..Len(input) /\ Len(input) \in cu..Len(input)
                BY <3>b
              <7> QED BY <3>2, <7>1, SubSeqRecursiveFirst
            <6>2. input[cu] \in Message /\ input[1] \in Message
              <7>1. cu \in 1..Len(input) /\ 1 \in 1..Len(input)
                BY <3>b
              <7> QED BY <3>2, <7>1, ElementOfSeq
            <6>3. r \in Seq(Message)
              <7>1. cu + 1 \in 1..Len(input) + 1 /\ Len(input) \in cu + 1 - 1..Len(input)
                BY <3>b
              <7> QED BY <3>2, <7>1, PartIs
            <6> HIDE DEF r
            <6>4. <<input[1]>> \o (<<input[cu]>> \o r) = <<input[1], input[cu]>> \o r
              BY <6>2, <6>3, TwoHeads
            <6>5. FromTurn(input, cu) = <<input[1]>> \o (<<input[cu]>> \o r)
              BY <6>1 DEF FromTurn
            <6>6. FromGroup(input, g) = <<input[1], input[cu]>> \o r
              BY <3>3, <3>6 DEF FromGroup, r, cu
            <6> QED BY <6>4, <6>5, <6>6
          <5> QED BY <3>1, <3>2, <3>3, <5>1 DEF TurnCuts
        <4> QED BY <1>1, <4>4, <4>5 DEF PreparesAsDefined
      <3>7. CASE Len(t) > 1
        <4> DEFINE next == g + Len(t[2])
                   rest == FlattenSeq(Tail(Tail(t)))
        <4>1. /\ g \in GroupsAt(input) /\ g \in Nat
              /\ rest = SubSeq(input, next, Len(input)) /\ next \in g + 1..Len(input) + 1
              /\ Len(rest) = Len(input) + 1 - next
              /\ \A i \in GroupsAt(input) : i < next => i <= g
          BY <1>1, <3>1, <3>7, NewestGroups DEF t
        <4> HIDE DEF next
        <4>2. CASE Fits(Flatten(kept))
          <5>1. g \in GroupCuts(input)
            BY <3>1, <4>1, <4>2 DEF GroupCuts
          <5>2. GroupCuts(input) \subseteq Nat /\ \A i \in GroupCuts(input) : g <= i
            <6> SUFFICES ASSUME NEW i \in GroupCuts(input) PROVE i \in Nat /\ g <= i
              OBVIOUS
            <6>1. i \in Nat /\ ~(i < g)
              BY <3>3, <3>5 DEF GroupCuts
            <6> QED BY <4>1, <6>1
          <5>3. First(GroupCuts(input)) = g
            BY <5>1, <5>2, FirstIs
          <5>4. ~Unpreparable(input) /\ Prepared(input) = FromGroup(input, g)
            BY <3>2, <3>3, <5>1, <5>3 DEF Unpreparable, Prepared
          <5> QED BY <1>1, <1>2, <3>1, <4>2, <5>4 DEF PreparesAsDefined
        <4>3. CASE ~Fits(Flatten(kept))
          <5>1. Len(t) = 2
            <6> DEFINE l == Len(t)
            <6>1. l \in Nat /\ l > 1 /\ l <= 2
              BY <3>4, <3>7, <3>a, <4>3
            <6> HIDE DEF l
            <6>2. l = 2
              BY <6>1
            <6> QED BY <6>2 DEF l
          <5>2. next = Len(input) + 1
            <6>1. Tail(Tail(t)) \in Seq(Seq(Message)) /\ Len(Tail(Tail(t))) = Len(t) - 2
              BY <3>2, <3>7, GroupRemoved
            <6> DEFINE b == Tail(Tail(t))
            <6>5. b \in Seq(Seq(Message)) /\ Len(b) = 0
              BY <5>1, <6>1
            <6> HIDE DEF b
            <6>6. b = <<>>
              BY <6>5, EmptySeq
            <6>2. Tail(Tail(t)) = <<>>
              BY <6>6 DEF b
            <6>3. rest = <<>>
              BY <6>2, FlattenNothing
            <6>4. Len(rest) = 0
              BY <6>3
            <6> HIDE DEF rest
            <6> QED BY <3>2, <4>1, <6>4
          <5>3. GroupCuts(input) = {}
            <6> SUFFICES ASSUME NEW i \in GroupCuts(input) PROVE FALSE
              OBVIOUS
            <6>1. i \in GroupsAt(input) /\ Fits(FromGroup(input, i)) /\ i \in 1..Len(input)
              BY <3>5 DEF GroupCuts
            <6>2. i <= g
              BY <3>2, <4>1, <5>2, <6>1
            <6>3. i < g \/ i = g
              BY <4>1, <6>1, <6>2
            <6> QED BY <3>1, <3>3, <4>3, <6>1, <6>3
          <5>4. Unpreparable(input)
            BY <3>3, <5>3 DEF Unpreparable
          <5> QED BY <1>1, <4>3, <5>4 DEF PreparesAsDefined
        <4> QED BY <4>2, <4>3
      <3>8. Len(t) = 1 \/ Len(t) > 1
        <4> DEFINE l == Len(t)
        <4>1. l \in Nat /\ l > 0
          BY <3>4
        <4> HIDE DEF l
        <4>2. l = 1 \/ l > 1
          BY <4>1
        <4> QED BY <4>2 DEF l
      <3> QED BY <3>6, <3>7, <3>8
    <2> QED BY <1>1, <2>1, <2>2, InGroups
  <1>4. trimAt' \in {"done", "error"}
    BY <1>1
  <1> QED BY <1>1, <1>3, <1>4 DEF TrimInv, ParseInv, TurnsInv, GroupsInv

-----------------------------------------------------------------------------
LEMMA TrimStarts == TrimInit => TrimInv
  <1> SUFFICES ASSUME NEW m \in Inputs, TrimIs("head", m) PROVE TrimInv
    BY DEF TrimInit
  <1>1. m \in Seq(Message)
    BY InputsAssumption
  <1>2. <<>> \in Seq(Seq(Seq(Message))) /\ \A n \in DOMAIN <<>> : TurnShaped(<<>>[n])
    <2>1. DOMAIN <<>> = {}
      OBVIOUS
    <2> QED BY <2>1, EmptySeq
  <1> QED BY <1>1, <1>2 DEF TrimIs, TrimInv, ParseInv, TurnsInv, GroupsInv, PreparesAsDefined

LEMMA TrimKeeps == TrimInv /\ [TrimNext]_trimVars => TrimInv'
  <1> SUFFICES ASSUME TrimInv, [TrimNext]_trimVars PROVE TrimInv'
    OBVIOUS
  <1>1. CASE ParseHead \/ OpenTurn \/ ParseGroup \/ RefuseMessage \/ Parsed
    BY <1>1, HeadParsed, TurnOpened, GroupTaken, MessageRefused, ParsedWhole
  <1>2. CASE DropTurn \/ TurnsDropped \/ DropGroup \/ GroupsDropped
    BY <1>2, TurnPopped, TurnsPopped, GroupPopped, GroupsPopped
  <1>3. CASE UNCHANGED trimVars
    BY <1>3 DEF trimVars, TrimInv, ParseInv, TurnsInv, GroupsInv, PreparesAsDefined, Flatten
  <1> QED BY <1>1, <1>2, <1>3 DEF TrimNext

(* Whatever list of messages it gets, prepare returns what the closed       *)
(* definition says, and refuses only what that refuses.                     *)
THEOREM PreparesAlwaysAsDefined == TrimSpec => []PreparesAsDefined
  <1>1. TrimInv => PreparesAsDefined
    BY DEF TrimInv
  <1> QED BY <1>1, TrimStarts, TrimKeeps, PTL DEF TrimSpec

-----------------------------------------------------------------------------
(* What prepare keeps of the list it is given *)

LEMMA ReverseIs ==
  ASSUME NEW s \in Seq(Message)
  PROVE  /\ Reverse(s) \in Seq(Message) /\ Len(Reverse(s)) = Len(s)
         /\ \A k \in 1..Len(s) : Reverse(s)[k] = s[Len(s) - k + 1]
  <1> DEFINE l == Len(s)
  <1>1. l \in Nat
    BY LenProperties
  <1>2. \A k \in 1..l : s[l - k + 1] \in Message
    <2> SUFFICES ASSUME NEW k \in 1..l PROVE s[l - k + 1] \in Message
      OBVIOUS
    <2>1. l - k + 1 \in 1..Len(s)
      BY <1>1
    <2> QED BY <2>1, ElementOfSeq
  <1>3. Reverse(s) = [k \in 1..l |-> s[l - k + 1]]
    BY DEF Reverse
  <1> HIDE DEF l
  <1>4. Reverse(s) \in Seq(Message) /\ DOMAIN Reverse(s) = 1..l
    <2>1. Reverse(s) \in [1..l -> Message]
      BY <1>2, <1>3
    <2> QED BY <1>1, <2>1, SeqDef
  <1>5. Len(Reverse(s)) = l
    <2>1. Len(Reverse(s)) \in Nat /\ DOMAIN Reverse(s) = 1..Len(Reverse(s))
      BY <1>4, LenProperties
    <2> QED BY <1>1, <1>4, <2>1, SameLength
  <1> QED BY <1>3, <1>4, <1>5 DEF l

(* The last messages of a list are a suffix of it *)
LEMMA LastAreSuffix ==
  ASSUME NEW s \in Seq(Message), NEW t \in Seq(Message), NEW d \in Nat, Len(t) = Len(s) + d,
         \A k \in 1..Len(s) : t[k + d] = s[k]
  PROVE  IsSuffix(s, t)
  <1> DEFINE l == Len(s)
             rs == Reverse(s)
             rt == Reverse(t)
  <1>1. l \in Nat /\ l <= l + d /\ Len(t) = l + d
    BY LenProperties
  <1>2. /\ rs \in Seq(Message) /\ rt \in Seq(Message) /\ Len(rs) = l /\ Len(rt) = l + d
        /\ \A k \in 1..l : rs[k] = s[l - k + 1]
        /\ \A k \in 1..l + d : rt[k] = t[l + d - k + 1]
    <2>1. /\ rs \in Seq(Message) /\ Len(rs) = l
          /\ \A k \in 1..l : rs[k] = s[l - k + 1]
      BY ReverseIs
    <2>2. /\ rt \in Seq(Message) /\ Len(rt) = Len(t)
          /\ \A k \in 1..Len(t) : rt[k] = t[Len(t) - k + 1]
      BY ReverseIs
    <2> HIDE DEF rs, rt, l
    <2> QED BY <1>1, <2>1, <2>2
  <1>3. ASSUME NEW k \in 1..l PROVE rs[k] = rt[k]
    <2> DEFINE j == l - k + 1
    <2>1. j \in 1..l /\ k \in 1..l + d /\ l + d - k + 1 = j + d
      BY <1>1
    <2>2. t[j + d] = s[j]
      BY <2>1
    <2> QED BY <1>2, <2>1, <2>2
  <1> HIDE DEF rs, rt, l
  <1>4. SubSeq(rs, 1, l) = SubSeq(rt, 1, l)
    <2>1. /\ SubSeq(rs, 1, l) = [k \in 1..l |-> rs[k]]
          /\ SubSeq(rt, 1, l) = [k \in 1..l |-> rt[k]]
      BY <1>1, <1>2, SubSeqProperties
    <2> QED BY <1>3, <2>1
  <1> QED BY <1>1, <1>2, <1>4 DEF IsSuffix, IsPrefix, rs, rt

(* What is put in front of the messages from i on leaves those from n on last *)
LEMMA CutKeepsLast ==
  ASSUME NEW m \in Seq(Message), NEW head \in Seq(Message), NEW i \in 1..Len(m),
         NEW n \in i..Len(m) + 1
  PROVE  IsSuffix(SubSeq(m, n, Len(m)), head \o SubSeq(m, i, Len(m)))
  <1> DEFINE l == Len(m)
             h == Len(head)
             s == SubSeq(m, n, l)
             t == head \o SubSeq(m, i, l)
             d == h + n - i
  <1>1. l \in Nat /\ h \in Nat /\ i \in Nat /\ n \in Nat /\ 1 <= i /\ i <= n /\ n <= l + 1
    BY LenProperties
  <1>2. n \in 1..l + 1 /\ l \in n - 1..l /\ d \in Nat
    BY <1>1
  <1>3. /\ s \in Seq(Message) /\ Len(s) = l - n + 1
        /\ \A k \in 1..l - n + 1 : s[k] = m[n + k - 1]
    BY <1>2, PartIs
  <1>4. /\ t \in Seq(Message) /\ Len(t) = l + (h + 1 - i)
        /\ \A j \in i..l : t[j + (h + 1 - i)] = m[j]
    BY KeptFrom
  <1> HIDE DEF s, t, l, h
  <1>5. Len(t) = Len(s) + d
    BY <1>1, <1>3, <1>4
  <1>6. ASSUME NEW k \in 1..Len(s) PROVE t[k + d] = s[k]
    <2> DEFINE j == n + k - 1
    <2>1. k \in 1..l - n + 1 /\ j \in i..l /\ j + (h + 1 - i) = k + d
      BY <1>1, <1>3
    <2> QED BY <1>3, <1>4, <2>1
  <1> HIDE DEF d
  <1>7. IsSuffix(s, t)
    BY <1>2, <1>3, <1>4, <1>5, <1>6, LastAreSuffix
  <1> QED BY <1>7 DEF s, t, l

(* The newest group of the current turn, or the end when it has none *)
NewestGroup(m) ==
  IF GroupsAt(m) = {} THEN Len(m) + 1
  ELSE CHOOSE i \in GroupsAt(m) : \A j \in GroupsAt(m) : j <= i

LEMMA NewestIs ==
  ASSUME NEW m \in Seq(Message), Replayable(m)
  PROVE  /\ NewestGroup(m) \in CurrentUser(m) + 1..Len(m) + 1
         /\ \A i \in GroupsAt(m) : i <= NewestGroup(m)
  <1> DEFINE l == Len(m)
             c == CurrentUser(m)
  <1>1. l \in Nat /\ DOMAIN m = 1..l
    BY LenProperties
  <1>2. c \in UserAt(m) /\ c \in 1..l
    <2>1. 2 \in UserAt(m)
      BY DEF Replayable, IsRole, UserAt
    <2> QED BY <1>1, <2>1, CurrentIsIn DEF UserAt
  <1>3. GroupsAt(m) \subseteq c + 1..l
    BY <1>1, <1>2 DEF GroupsAt
  <1> HIDE DEF l, c
  <1>4. CASE GroupsAt(m) = {}
    <2>1. NewestGroup(m) = l + 1
      BY <1>4 DEF NewestGroup, l
    <2> QED BY <1>1, <1>2, <1>4, <2>1 DEF l, c
  <1>5. CASE GroupsAt(m) # {}
    <2> DEFINE S == {d \in Nat : \E j \in GroupsAt(m) : d = l - j}
    <2>1. S \subseteq Nat /\ S # {}
      <3>1. PICK j \in GroupsAt(m) : TRUE
        BY <1>5
      <3>2. l - j \in S
        BY <1>1, <1>2, <1>3, <3>1
      <3> QED BY <3>2
    <2>2. PICK d \in S : \A e \in S : d <= e
      BY <2>1, Smallest
    <2>3. PICK i \in GroupsAt(m) : d = l - i
      BY <2>2
    <2>4. ASSUME NEW j \in GroupsAt(m) PROVE j <= i
      <3>1. l - j \in S
        BY <1>1, <1>2, <1>3
      <3> QED BY <1>1, <1>2, <1>3, <2>2, <2>3, <3>1
    <2>5. NewestGroup(m) \in GroupsAt(m) /\ \A j \in GroupsAt(m) : j <= NewestGroup(m)
      BY <1>5, <2>3, <2>4 DEF NewestGroup
    <2>6. NewestGroup(m) \in c + 1..l + 1
      BY <1>1, <1>2, <1>3, <2>5
    <2> QED BY <2>5, <2>6 DEF l, c
  <1> QED BY <1>4, <1>5

LEMMA NewestKept ==
  ASSUME NEW m \in Seq(Message), ~Unpreparable(m)
  PROVE  IsSuffix(SubSeq(m, NewestGroup(m), Len(m)), Prepared(m))
  <1> DEFINE n == NewestGroup(m)
  <1>1. Replayable(m)
    BY DEF Unpreparable
  <1>2. DOMAIN m = 1..Len(m) /\ Len(m) \in Nat
    BY LenProperties
  <1>3. /\ n \in CurrentUser(m) + 1..Len(m) + 1 /\ \A i \in GroupsAt(m) : i <= n
    BY <1>1, NewestIs
  <1>4. /\ CurrentUser(m) \in UserAt(m) /\ \A j \in UserAt(m) : j <= CurrentUser(m)
    <2>1. 2 \in UserAt(m)
      BY <1>1 DEF Replayable, IsRole, UserAt
    <2> QED BY <1>2, <2>1, CurrentIsIn
  <1> HIDE DEF n
  <1>5. CurrentUser(m) \in 1..Len(m) /\ UserAt(m) \subseteq 1..Len(m)
        /\ GroupsAt(m) \subseteq 1..Len(m)
    BY <1>2, <1>4 DEF UserAt, GroupsAt
  <1>6. m[1] \in Message /\ m[CurrentUser(m)] \in Message
    <2>1. 1 \in 1..Len(m)
      BY <1>2, <1>5
    <2> QED BY <1>5, <2>1, ElementOfSeq
  <1>7. CASE TurnCuts(m) # {}
    <2> DEFINE i == First(TurnCuts(m))
    <2>1. i \in UserAt(m)
      <3>1. TurnCuts(m) \subseteq Nat
        BY <1>2 DEF TurnCuts, UserAt
      <3>2. i \in TurnCuts(m)
        BY <1>7, <3>1, FirstIsIn
      <3> QED BY <3>2 DEF TurnCuts
    <2>2. Prepared(m) = <<m[1]>> \o SubSeq(m, i, Len(m))
      BY <1>7 DEF Prepared, FromTurn
    <2>3. <<m[1]>> \in Seq(Message)
      BY <1>6
    <2> HIDE DEF i
    <2>4. i \in 1..Len(m) /\ n \in i..Len(m) + 1
      BY <1>2, <1>3, <1>4, <1>5, <2>1
    <2> QED BY <2>2, <2>3, <2>4, CutKeepsLast DEF n
  <1>8. CASE TurnCuts(m) = {}
    <2> DEFINE i == First(GroupCuts(m))
               head == <<m[1], m[CurrentUser(m)]>>
    <2>1. i \in GroupsAt(m)
      <3>1. GroupCuts(m) \subseteq Nat /\ GroupCuts(m) # {}
        BY <1>2, <1>8 DEF GroupCuts, GroupsAt, Unpreparable
      <3>2. i \in GroupCuts(m)
        BY <3>1, FirstIsIn
      <3> QED BY <3>2 DEF GroupCuts
    <2>2. Prepared(m) = head \o SubSeq(m, i, Len(m))
      BY <1>8 DEF Prepared, FromGroup
    <2>3. head \in Seq(Message)
      BY <1>6
    <2> HIDE DEF i, head
    <2>4. i \in 1..Len(m) /\ n \in i..Len(m) + 1
      BY <1>2, <1>3, <1>5, <2>1
    <2> QED BY <2>2, <2>3, <2>4, CutKeepsLast DEF n
  <1> QED BY <1>7, <1>8

(* Whatever prepare drops of whatever list, what it returns can be replayed, *)
(* is within the budget, holds the current task and ends with the newest     *)
(* assistant message of the current turn and all its results.                *)
THEOREM PointAlwaysKept == TrimSpec => []TrimKeepsThePoint
  <1>1. TrimInv => TrimKeepsThePoint
    <2> SUFFICES ASSUME TrimInv, trimAt = "done" PROVE TrimKeepsThePoint
      BY DEF TrimKeepsThePoint
    <2>1. input \in Seq(Message) /\ ~Unpreparable(input) /\ Flatten(kept) = Prepared(input)
      BY DEF TrimInv, PreparesAsDefined
    <2>2. IsSuffix(SubSeq(input, NewestGroup(input), Len(input)), Prepared(input))
      BY <2>1, NewestKept
    <2>3. /\ Replayable(Prepared(input)) /\ Fits(Prepared(input))
          /\ Prepared(input)[CurrentUser(Prepared(input))] = input[CurrentUser(input)]
      BY <2>1, PreparedKeeps
    <2> QED BY <2>1, <2>2, <2>3 DEF TrimKeepsThePoint, NewestGroup
  <1> QED BY <1>1, TrimStarts, TrimKeeps, PTL DEF TrimSpec
=============================================================================
