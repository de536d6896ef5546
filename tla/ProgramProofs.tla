---------------------------- MODULE ProgramProofs ----------------------------
(***************************************************************************)
(* Theorems about the programs that run alone, as in MCPrograms: the       *)
(* search, for any tree; and the three that pass judgement, the batch of   *)
(* GoldenEval, for any number of official runs, the phase of               *)
(* ComparisonStudy, for any cells, and the run of ProbeRun, for any events *)
(* of its turns.                                                           *)
(***************************************************************************)
EXTENDS SearchTool, GoldenEval, ComparisonStudy, ProbeRun, NatRecursion, SequenceTheorems,
        FiniteSetTheorems, TLAPS

-----------------------------------------------------------------------------
(* SearchTool *)

Places == Dirs \cup Files \cup Denied

AllOf(seq) == {seq[k] : k \in DOMAIN seq}

LinesOf(seq, f) == {k \in DOMAIN seq : seq[k] = f}

(* What is behind the walk: every entry of a directory in it is in it too or *)
(* still to be looked at, and every line of a file in it is reported         *)
Covers(visited, left, found) ==
  /\ searchRoot \in visited \cup AllOf(left)
  /\ \A d \in visited \cap Listable : AllOf(entries[d]) \subseteq visited \cup AllOf(left)
  /\ \A f \in visited \cap Fitting \cap Readable \cap Files :
       Cardinality(LinesOf(found, f)) >= Lines[f]

SearchInv ==
  /\ entries \in Trees /\ pending \in Seq(Places) /\ matches \in Seq(Files)
  /\ searchRoot \in Places /\ truncated \in {TRUE, FALSE}
  /\ Len(matches) <= MaxResults /\ scanned \in Nat /\ scanned <= MaxFiles
  /\ walk = "walk" => truncated = FALSE
  /\ walk = "done" /\ truncated = TRUE =>
       (Len(matches) = MaxResults \/ scanned = MaxFiles) /\ pending # <<>>
  /\ walk = "done" /\ truncated = FALSE => pending = <<>>
  /\ walk \in {"walk", "done"} /\ truncated = FALSE =>
       \E visited \in SUBSET Places : Covers(visited, pending, matches)

LEMMA EntriesAre ==
  ASSUME SearchInv, NEW d \in Dirs
  PROVE  entries[d] \in Seq(Places) /\ AllOf(entries[d]) \subseteq Places
  <1>1. entries[d] \in Seq(Places)
    BY SearchConstants DEF SearchInv, Places
  <1>2. \A k \in DOMAIN entries[d] : entries[d][k] \in Places
    BY <1>1, ElementOfSeq, LenProperties
  <1> QED BY <1>1, <1>2 DEF AllOf

(* The candidate leads the paths still to look at *)
LEMMA CandidateFirst ==
  ASSUME pending \in Seq(Places), pending # <<>>
  PROVE  /\ Candidate \in Places /\ Tail(pending) \in Seq(Places)
         /\ AllOf(pending) = {Candidate} \cup AllOf(Tail(pending))
  <1> DEFINE rest == Tail(pending)
             l == Len(pending)
  <1>1. /\ rest \in Seq(Places) /\ Len(rest) = l - 1
        /\ Candidate = Head(pending) /\ Candidate \in Places
        /\ \A n \in 1..Len(rest) : rest[n] = pending[n + 1]
    BY HeadTailProperties DEF Candidate
  <1>2. l \in Nat /\ l # 0 /\ DOMAIN pending = 1..l /\ DOMAIN rest = 1..l - 1
    BY <1>1, EmptySeq, LenProperties
  <1> HIDE DEF rest, l
  <1>3. ASSUME NEW k \in 1..l PROVE pending[k] \in {Candidate} \cup AllOf(rest)
    <2>1. CASE k = 1
      BY <2>1 DEF Candidate
    <2>2. CASE k # 1
      <3>1. k - 1 \in 1..l - 1 /\ (k - 1) + 1 = k
        BY <1>2, <2>2
      <3>2. pending[k] = rest[k - 1]
        BY <1>1, <1>2, <3>1
      <3> QED BY <1>2, <3>1, <3>2 DEF AllOf
    <2> QED BY <2>1, <2>2
  <1>4. ASSUME NEW k \in 1..l - 1 PROVE rest[k] \in AllOf(pending)
    <2>1. k + 1 \in 1..l
      BY <1>2
    <2>2. rest[k] = pending[k + 1]
      BY <1>1, <1>2
    <2> QED BY <1>2, <2>1, <2>2 DEF AllOf
  <1>5. Candidate \in AllOf(pending)
    <2>1. 1 \in 1..l
      BY <1>2
    <2> QED BY <1>2, <2>1 DEF Candidate, AllOf
  <1>6. AllOf(pending) \subseteq {Candidate} \cup AllOf(rest)
    BY <1>2, <1>3 DEF AllOf
  <1>7. AllOf(rest) \subseteq AllOf(pending)
    BY <1>2, <1>4 DEF AllOf
  <1> QED BY <1>1, <1>5, <1>6, <1>7 DEF rest

LEMMA AllOfBoth ==
  ASSUME NEW S, NEW one \in Seq(S), NEW other \in Seq(S)
  PROVE  one \o other \in Seq(S) /\ AllOf(one \o other) = AllOf(one) \cup AllOf(other)
  <1> DEFINE both == one \o other
             l == Len(one)
             n == Len(other)
  <1>1. /\ both \in Seq(S) /\ Len(both) = l + n
        /\ \A i \in 1..l + n : both[i] = IF i <= l THEN one[i] ELSE other[i - l]
    BY ConcatProperties
  <1>2. l \in Nat /\ n \in Nat /\ DOMAIN one = 1..l /\ DOMAIN other = 1..n /\ DOMAIN both = 1..l + n
    BY <1>1, LenProperties
  <1> HIDE DEF both, l, n
  <1>3. ASSUME NEW i \in 1..l PROVE i \in 1..l + n /\ both[i] = one[i]
    BY <1>1, <1>2
  <1>4. ASSUME NEW i \in 1..n PROVE l + i \in 1..l + n /\ both[l + i] = other[i]
    <2>1. l + i \in 1..l + n /\ ~(l + i <= l) /\ (l + i) - l = i
      BY <1>2
    <2> QED BY <1>1, <2>1
  <1>5. ASSUME NEW i \in 1..l + n PROVE both[i] \in AllOf(one) \cup AllOf(other)
    <2>1. CASE i <= l
      <3>1. i \in 1..l /\ both[i] = one[i]
        BY <1>1, <1>2, <2>1
      <3> QED BY <1>2, <3>1 DEF AllOf
    <2>2. CASE ~(i <= l)
      <3>1. i - l \in 1..n /\ both[i] = other[i - l]
        BY <1>1, <1>2, <2>2
      <3> QED BY <1>2, <3>1 DEF AllOf
    <2> QED BY <2>1, <2>2
  <1>6. AllOf(both) \subseteq AllOf(one) \cup AllOf(other)
    BY <1>2, <1>5 DEF AllOf
  <1>7. AllOf(one) \subseteq AllOf(both)
    BY <1>2, <1>3 DEF AllOf
  <1>8. AllOf(other) \subseteq AllOf(both)
    BY <1>2, <1>4 DEF AllOf
  <1> QED BY <1>1, <1>6, <1>7, <1>8 DEF both

(* The lines of one more file *)
LEMMA LinesAdded ==
  ASSUME NEW found \in Seq(Files), NEW file \in Files, NEW size \in Nat, NEW f
  PROVE  LET more == found \o [k \in 1..size |-> file]
         IN  /\ more \in Seq(Files) /\ Len(more) = Len(found) + size
             /\ Cardinality(LinesOf(more, f)) >= Cardinality(LinesOf(found, f))
             /\ f = file => Cardinality(LinesOf(more, f)) >= size
             /\ Cardinality(LinesOf(more, f)) \in Nat /\ Cardinality(LinesOf(found, f)) \in Nat
  <1> DEFINE tail == [k \in 1..size |-> file]
             more == found \o tail
             l == Len(found)
  <1>1. tail \in Seq(Files) /\ Len(tail) = size
    <2>1. tail \in [1..size -> Files]
      OBVIOUS
    <2>2. tail \in Seq(Files)
      BY <2>1, SeqDef
    <2> QED BY <2>2, LenProperties
  <1> HIDE DEF tail
  <1>2. /\ more \in Seq(Files) /\ Len(more) = l + size
        /\ \A i \in 1..l + size : more[i] = IF i <= l THEN found[i] ELSE tail[i - l]
    BY <1>1, ConcatProperties
  <1>3. l \in Nat /\ DOMAIN found = 1..l /\ DOMAIN more = 1..l + size
    BY <1>2, LenProperties
  <1> HIDE DEF more, l
  <1>4. IsFiniteSet(1..l + size) /\ LinesOf(more, f) \subseteq 1..l + size
    BY <1>3, FS_Interval DEF LinesOf
  <1>5. IsFiniteSet(LinesOf(more, f)) /\ Cardinality(LinesOf(more, f)) \in Nat
    BY <1>4, FS_Subset, FS_CardinalityType
  <1>6. LinesOf(found, f) \subseteq LinesOf(more, f)
    <2>1. ASSUME NEW i \in 1..l PROVE i \in 1..l + size /\ more[i] = found[i]
      BY <1>2, <1>3
    <2> QED BY <1>3, <2>1 DEF LinesOf
  <1>7. /\ Cardinality(LinesOf(found, f)) <= Cardinality(LinesOf(more, f))
        /\ IsFiniteSet(LinesOf(found, f)) /\ Cardinality(LinesOf(found, f)) \in Nat
    BY <1>5, <1>6, FS_Subset, FS_CardinalityType
  <1>8. ASSUME f = file PROVE Cardinality(LinesOf(more, f)) >= size
    <2> DEFINE end == l + 1..l + size
    <2>1. ASSUME NEW i \in end PROVE i \in 1..l + size /\ more[i] = file
      <3>1. i \in 1..l + size /\ ~(i <= l) /\ i - l \in 1..size
        BY <1>3
      <3> QED BY <1>2, <3>1 DEF tail
    <2>2. end \subseteq LinesOf(more, f)
      BY <1>3, <1>8, <2>1 DEF LinesOf
    <2>3. Cardinality(end) = size
      <3>1. l + 1 \in Int /\ l + size \in Int /\ (l + size) - (l + 1) + 1 = size
        BY <1>3
      <3>2. Cardinality(end) = IF l + 1 > l + size THEN 0 ELSE (l + size) - (l + 1) + 1
        BY <3>1, FS_Interval
      <3> QED BY <1>3, <3>1, <3>2
    <2>4. Cardinality(end) <= Cardinality(LinesOf(more, f))
      BY <1>5, <2>2, FS_Subset
    <2> QED BY <1>5, <2>3, <2>4
  <1> QED BY <1>2, <1>5, <1>7, <1>8 DEF more, tail, l

(* Passing over a candidate of which nothing is to be reported *)
LEMMA CandidatePassed ==
  ASSUME SearchInv, walk = "walk", pending # <<>>, Candidate \notin Listable,
         Candidate \notin Fitting \cap Readable \cap Files,
         UNCHANGED <<entries, searchRoot, walk, scanned, matches, truncated>>,
         pending' = Tail(pending)
  PROVE  SearchInv'
  <1>1. PICK visited \in SUBSET Places : Covers(visited, pending, matches)
    BY DEF SearchInv
  <1>2. /\ Candidate \in Places /\ Tail(pending) \in Seq(Places)
        /\ AllOf(pending) = {Candidate} \cup AllOf(Tail(pending))
    BY CandidateFirst DEF SearchInv
  <1> DEFINE more == visited \cup {Candidate}
  <1>3. more \in SUBSET Places
    BY <1>1, <1>2
  <1>4. Covers(more, Tail(pending), matches)
    BY <1>1, <1>2 DEF Covers
  <1>5. \E all \in SUBSET Places :
          /\ searchRoot \in all \cup AllOf(Tail(pending))
          /\ \A d \in all \cap Listable : AllOf(entries[d]) \subseteq all \cup AllOf(Tail(pending))
          /\ \A f \in all \cap Fitting \cap Readable \cap Files :
               Cardinality(LinesOf(matches, f)) >= Lines[f]
    BY <1>3, <1>4 DEF Covers
  <1> QED BY <1>2, <1>5 DEF SearchInv, Covers

LEMMA SearchStep == SearchInv /\ [SearchNext]_searchVars => SearchInv'
  <1> SUFFICES ASSUME SearchInv, [SearchNext]_searchVars PROVE SearchInv'
    OBVIOUS
  <1>0. pending \in Seq(Places)
    BY DEF SearchInv
  <1>1. CASE SkipPath
    <2>1. Candidate \notin Listable /\ Candidate \notin Files
      BY <1>1, SearchConstants DEF SkipPath
    <2> QED BY <1>1, <2>1, CandidatePassed DEF SkipPath, Walking
  <1>9. CASE SkipDirectory
    <2>1. Candidate \notin Listable /\ Candidate \notin Files
      BY <1>9, SearchConstants DEF SkipDirectory
    <2> QED BY <1>9, <2>1, CandidatePassed DEF SkipDirectory, Walking
  <1>2. CASE EnterDirectory
    <2>1. PICK visited \in SUBSET Places : Covers(visited, pending, matches)
      BY <1>2 DEF SearchInv, EnterDirectory, Walking
    <2>2. /\ Candidate \in Places /\ Tail(pending) \in Seq(Places)
          /\ AllOf(pending) = {Candidate} \cup AllOf(Tail(pending))
      BY <1>2, CandidateFirst DEF SearchInv, EnterDirectory, Walking
    <2>3. entries[Candidate] \in Seq(Places)
      BY <1>2, EntriesAre, SearchConstants DEF EnterDirectory
    <2>4. /\ pending' \in Seq(Places)
          /\ AllOf(pending') = AllOf(entries[Candidate]) \cup AllOf(Tail(pending))
      <3>1. pending' = entries[Candidate] \o Tail(pending)
        BY <1>2 DEF EnterDirectory
      <3>2. pending' \in Seq(Places)
        BY <2>2, <2>3, <3>1, ConcatProperties
      <3>3. AllOf(entries[Candidate] \o Tail(pending))
              = AllOf(entries[Candidate]) \cup AllOf(Tail(pending))
        BY <2>2, <2>3, AllOfBoth, ZenonT(100)
      <3> QED BY <3>1, <3>2, <3>3, Zenon
    <2> DEFINE more == visited \cup {Candidate}
    <2>5. more \in SUBSET Places
      BY <2>1, <2>2
    <2>6. Candidate \notin Files
      BY <1>2, SearchConstants DEF EnterDirectory
    <2>7. Covers(more, pending', matches)
      BY <2>1, <2>2, <2>4, <2>6 DEF Covers
    <2>8. \E all \in SUBSET Places :
            /\ searchRoot \in all \cup AllOf(pending')
            /\ \A d \in all \cap Listable : AllOf(entries[d]) \subseteq all \cup AllOf(pending')
            /\ \A f \in all \cap Fitting \cap Readable \cap Files :
                 Cardinality(LinesOf(matches, f)) >= Lines[f]
      BY <2>5, <2>7 DEF Covers
    <2> QED BY <1>2, <2>4, <2>8 DEF SearchInv, Covers, EnterDirectory, Walking
  <1>3. CASE LeaveRoot
    BY <1>3 DEF SearchInv, LeaveRoot
  <1>4. CASE SkipFile
    <2>1. Candidate \notin Listable
      BY <1>4, SearchConstants DEF SkipFile, Searchable
    <2> QED BY <1>4, <2>1, CandidatePassed DEF SkipFile, Searchable, Walking
  <1>5. CASE StopAtFileLimit
    <2>1. scanned = MaxFiles
      BY <1>5, SearchConstants DEF SearchInv, StopAtFileLimit
    <2> QED BY <1>5, <2>1 DEF SearchInv, StopAtFileLimit, Searchable, Walking
  <1>6. CASE ScanFile
    <2> DEFINE lines == IF Candidate \in Readable THEN Lines[Candidate] ELSE 0
               room == MaxResults - Len(matches)
    <2>1. /\ walk = "walk" /\ pending # <<>> /\ Candidate \in Files /\ Candidate \in Fitting
          /\ scanned < MaxFiles /\ scanned' = scanned + 1
          /\ UNCHANGED <<entries, searchRoot>> /\ truncated = FALSE
          /\ IF lines > room
             THEN /\ matches' = matches \o [k \in 1..room |-> Candidate]
                  /\ walk' = "done" /\ truncated' = TRUE /\ UNCHANGED pending
             ELSE /\ matches' = matches \o [k \in 1..lines |-> Candidate]
                  /\ pending' = Tail(pending) /\ UNCHANGED <<walk, truncated>>
      BY <1>6 DEF ScanFile, Searchable, Walking, SearchInv
    <2>2. /\ matches \in Seq(Files) /\ Len(matches) \in Nat /\ Len(matches) <= MaxResults
          /\ scanned \in Nat /\ entries \in Trees /\ searchRoot \in Places
      BY LenProperties DEF SearchInv
    <2>3. lines \in Nat /\ room \in Nat /\ MaxResults \in Nat /\ MaxFiles \in Nat
      BY <2>1, <2>2, SearchConstants
    <2> HIDE DEF lines, room
    <2>4. scanned' \in Nat /\ scanned' <= MaxFiles
      BY <2>1, <2>2, <2>3
    <2>5. CASE lines > room
      <3>1. matches' \in Seq(Files) /\ Len(matches') = Len(matches) + room
        BY <2>1, <2>2, <2>3, <2>5, LinesAdded
      <3>2. Len(matches') = MaxResults
        BY <2>2, <2>3, <3>1 DEF room
      <3>3. walk' = "done" /\ truncated' = TRUE /\ pending' = pending /\ pending # <<>>
            /\ UNCHANGED <<entries, searchRoot>>
        BY <2>1, <2>5
      <3>4. Len(matches') <= MaxResults
        BY <2>3, <3>2
      <3> QED BY <1>0, <2>2, <2>4, <3>1, <3>2, <3>3, <3>4 DEF SearchInv
    <2>6. CASE ~(lines > room)
      <3>1. /\ matches' \in Seq(Files) /\ Len(matches') = Len(matches) + lines
            /\ \A f : /\ Cardinality(LinesOf(matches', f)) >= Cardinality(LinesOf(matches, f))
                      /\ f = Candidate => Cardinality(LinesOf(matches', f)) >= lines
                      /\ Cardinality(LinesOf(matches', f)) \in Nat
                      /\ Cardinality(LinesOf(matches, f)) \in Nat
        BY <2>1, <2>2, <2>3, <2>6, LinesAdded
      <3>2. Len(matches') <= MaxResults
        BY <2>2, <2>3, <2>6, <3>1 DEF room
      <3>3. PICK visited \in SUBSET Places : Covers(visited, pending, matches)
        BY <2>1 DEF SearchInv
      <3>4. /\ Candidate \in Places /\ Tail(pending) \in Seq(Places)
            /\ AllOf(pending) = {Candidate} \cup AllOf(Tail(pending))
        BY <1>0, <2>1, CandidateFirst
      <3> DEFINE more == visited \cup {Candidate}
      <3>5. more \in SUBSET Places /\ Candidate \notin Listable
        BY <2>1, <3>3, <3>4, SearchConstants
      <3>6. ASSUME NEW f \in more \cap Fitting \cap Readable \cap Files
            PROVE  Cardinality(LinesOf(matches', f)) >= Lines[f]
        <4>1. CASE f = Candidate
          BY <3>1, <4>1 DEF lines
        <4>2. CASE f # Candidate
          <5>1. Cardinality(LinesOf(matches, f)) >= Lines[f]
            BY <3>3, <4>2 DEF Covers
          <5>2. Lines[f] \in Nat
            BY SearchConstants
          <5> QED BY <3>1, <5>1, <5>2
        <4> QED BY <4>1, <4>2
      <3>7. /\ searchRoot \in more \cup AllOf(Tail(pending))
            /\ \A d \in more \cap Listable : AllOf(entries[d]) \subseteq more \cup AllOf(Tail(pending))
        BY <3>3, <3>4, <3>5 DEF Covers
      <3>8. \E all \in SUBSET Places :
              /\ searchRoot' \in all \cup AllOf(pending')
              /\ \A d \in all \cap Listable : AllOf(entries'[d]) \subseteq all \cup AllOf(pending')
              /\ \A f \in all \cap Fitting \cap Readable \cap Files :
                   Cardinality(LinesOf(matches', f)) >= Lines[f]
        BY <2>1, <2>6, <3>5, <3>6, <3>7
      <3> QED BY <2>1, <2>2, <2>4, <2>6, <3>1, <3>2, <3>4, <3>8 DEF SearchInv, Covers
    <2> QED BY <2>5, <2>6
  <1>7. CASE NothingLeft
    BY <1>7 DEF SearchInv, NothingLeft, Covers
  <1>8. CASE UNCHANGED searchVars
    BY <1>8 DEF SearchInv, searchVars, Covers
  <1> QED BY <1>1, <1>2, <1>3, <1>4, <1>5, <1>6, <1>7, <1>8, <1>9 DEF SearchNext

LEMMA SearchStart == SearchInit => SearchInv
  <1> SUFFICES ASSUME NEW tree \in Trees, NEW root \in Places,
                      SearchIs(IF root \in Denied THEN "refused" ELSE "walk", tree, root)
               PROVE  SearchInv
    BY DEF SearchInit, Places
  <1>1. /\ entries \in Trees /\ searchRoot = root /\ pending = <<root>> /\ matches = <<>>
        /\ scanned = 0 /\ truncated = FALSE /\ walk \in {"refused", "walk"}
    BY DEF SearchIs
  <1>2. pending \in Seq(Places) /\ AllOf(pending) = {root}
    BY <1>1 DEF AllOf
  <1>3. matches \in Seq(Files) /\ Len(matches) = 0
    BY <1>1, EmptySeq
  <1>4. Covers({}, pending, matches)
    BY <1>1, <1>2 DEF Covers
  <1>5. 0 \in Nat /\ 0 <= MaxFiles /\ 0 <= MaxResults /\ {} \in SUBSET Places
    BY SearchConstants
  <1> QED BY <1>1, <1>2, <1>3, <1>4, <1>5 DEF SearchInv

-----------------------------------------------------------------------------
(* What the search root leads to is behind a walk that has nothing left *)

LEMMA ReachableSeen ==
  ASSUME SearchInv, pending = <<>>, NEW visited \in SUBSET Places, Covers(visited, pending, matches)
  PROVE  Reachable \subseteq visited
  <1> DEFINE next(v) == v \cup UNION {{entries[d][k] : k \in DOMAIN entries[d]} : d \in v \cap Listable}
             step == [n \in Nat |-> [v \in SUBSET Places |-> next(v)]]
  <1>1. ASSUME NEW v \in SUBSET Places PROVE next(v) \in SUBSET Places
    BY EntriesAre, SearchConstants DEF AllOf
  <1>2. step \in Steps(SUBSET Places)
    BY <1>1 DEF Steps
  <1>3. \A n \in Nat, v \in SUBSET Places : step[n][v] = next(v)
    OBVIOUS
  <1>4. AllOf(pending) = {}
    BY EmptySeq DEF AllOf
  <1>5. ASSUME NEW v \in SUBSET visited PROVE next(v) \in SUBSET visited
    BY <1>4 DEF Covers, AllOf
  <1> HIDE DEF next, step
  <1>6. {searchRoot} \in SUBSET Places /\ searchRoot \in visited
    BY <1>4 DEF SearchInv, Covers
  <1>7. PICK f : Makes(f, SUBSET Places, {searchRoot}, step)
    BY <1>2, <1>6, RecursionExists
  <1>8. /\ f = [n \in Nat |-> f[n]] /\ f[0] = {searchRoot}
        /\ \A n \in Nat : f[n] \in SUBSET Places /\ f[n + 1] = next(f[n])
    BY <1>3, <1>7 DEF Makes
  <1>9. ASSUME NEW n \in Nat, n # 0 PROVE f[n] = next(f[n - 1])
    <2>1. n - 1 \in Nat /\ (n - 1) + 1 = n
      BY <1>9
    <2> QED BY <1>8, <2>1
  <1>10. f = [n \in Nat |-> IF n = 0 THEN {searchRoot} ELSE next(f[n - 1])]
    BY <1>8, <1>9
  <1> DEFINE within[n \in Nat] ==
               IF n = 0 THEN {searchRoot}
               ELSE LET nearer == within[n - 1]
                    IN  nearer \cup UNION {{entries[d][k] : k \in DOMAIN entries[d]} : d \in nearer \cap Listable}
  <1>11. Reachable = within[Cardinality(Dirs) + 1]
    BY DEF Reachable
  <1>12. within = [n \in Nat |-> IF n = 0 THEN {searchRoot} ELSE next(within[n - 1])]
    BY <1>10 DEF next
  <1> HIDE DEF within
  <1> DEFINE S == {n \in Nat : within[n] \in SUBSET visited}
  <1>13. 0 \in S
    BY <1>6, <1>12
  <1>14. ASSUME NEW n \in Nat, n \in S PROVE n + 1 \in S
    <2>1. n + 1 \in Nat /\ n + 1 # 0 /\ (n + 1) - 1 = n
      OBVIOUS
    <2>2. within[n + 1] = next(within[n])
      BY <1>12, <2>1
    <2> QED BY <1>5, <1>14, <2>1, <2>2
  <1> HIDE DEF S
  <1>15. Nat \subseteq S
    BY <1>13, <1>14, Induction
  <1>16. Cardinality(Dirs) + 1 \in Nat
    BY SearchConstants, FS_CardinalityType
  <1> QED BY <1>11, <1>15, <1>16 DEF S

(* A search that does not say it was truncated has reported every line there *)
(* is to find, also behind links, but for directories that cannot be listed  *)
(* and files that cannot be read; one that says so did meet a limit with     *)
(* something left, for every tree, links in a circle among them.             *)
THEOREM SearchesAreComplete == SearchSpec => []SearchIsComplete
  <1>1. SearchInv => SearchIsComplete
    <2> SUFFICES ASSUME SearchInv, walk = "done", ~truncated
                 PROVE  \A f \in Reachable \cap Fitting \cap Readable \cap Files :
                          Cardinality({k \in DOMAIN matches : matches[k] = f}) >= Lines[f]
      BY DEF SearchInv, SearchIsComplete
    <2>1. truncated = FALSE /\ pending = <<>>
      BY DEF SearchInv
    <2>2. PICK visited \in SUBSET Places : Covers(visited, pending, matches)
      BY <2>1 DEF SearchInv
    <2>3. Reachable \subseteq visited
      BY <2>1, <2>2, ReachableSeen
    <2> QED BY <2>2, <2>3 DEF Covers, LinesOf
  <1> QED BY <1>1, SearchStart, SearchStep, PTL DEF SearchSpec

-----------------------------------------------------------------------------
(* GoldenEval *)

GoldenRows == [success : BOOLEAN, earned : BOOLEAN]

GoldenInv ==
  /\ runs \in Seq(GoldenRows)
  /\ \A k \in DOMAIN runs : runs[k].success = runs[k].earned
  /\ goldenAt \in {"start", "preflight"} => runs = <<>>
  /\ goldenAt \in {"copy", "agent", "test", "inspect"} => Len(runs) < OfficialRuns
  /\ goldenAt = "write" => runs = <<>> \/ Len(runs) = OfficialRuns
  /\ goldenAt = "inspect" => final \in {"timeout", "failed", "passed"}
  /\ exitCode # -1 => goldenAt = "exit"
  /\ place = "report" => goldenAt = "exit"
  /\ CandidateIsEarned

(* What speaks against a run is all that could keep it from counting *)
LEMMA NoReasonIsEarned ==
  ASSUME final \in {"timeout", "failed", "passed"}
  PROVE  (Reasons = {}) <=> Earned
  <1>1. CASE Earned
    BY <1>1, GoldenConstants DEF Earned, Reasons
  <1>2. CASE ~Earned
    <2>1. CASE status # "COMPLETED"
      <3>1. "agent_status" \in Reasons BY <2>1 DEF Reasons
      <3> QED BY <1>2, <3>1
    <2>2. CASE final = "timeout"
      <3>1. "final_test_timeout" \in Reasons BY <2>2 DEF Reasons
      <3> QED BY <1>2, <3>1
    <2>3. CASE final = "failed"
      <3>1. "final_tests_failed" \in Reasons BY <2>3 DEF Reasons
      <3> QED BY <1>2, <3>1
    <2>4. CASE touched \cap TestFiles # {}
      <3>1. "tests_modified" \in Reasons BY <2>4 DEF Reasons
      <3> QED BY <1>2, <3>1
    <2>5. CASE ~(touched \subseteq AllowedPaths)
      <3>1. "unexpected_paths" \in Reasons BY <2>5 DEF Reasons
      <3> QED BY <1>2, <3>1
    <2>6. CASE touched = {}
      <3>1. "empty_diff" \in Reasons BY <2>6 DEF Reasons
      <3> QED BY <1>2, <3>1
    <2> QED BY <1>2, <2>1, <2>2, <2>3, <2>4, <2>5, <2>6 DEF Earned
  <1> QED BY <1>1, <1>2

LEMMA GoldenInitial == GoldenInit => GoldenInv
  <1> SUFFICES ASSUME GoldenInit PROVE GoldenInv
    OBVIOUS
  <1>1. <<>> \in Seq(GoldenRows)
    OBVIOUS
  <1>2. runs \in Seq(GoldenRows) /\ \A k \in DOMAIN runs : runs[k].success = runs[k].earned
    <2>1. runs = <<>> BY DEF GoldenInit, GoldenIs
    <2> QED BY <1>1, <2>1
  <1>3. CandidateIsEarned
    <2>1. exitCode = -1 BY DEF GoldenInit, GoldenIs
    <2>2. exitCode # 0 /\ exitCode # 1 BY <2>1
    <2> QED BY <2>2 DEF CandidateIsEarned
  <1> QED BY <1>2, <1>3 DEF GoldenInit, GoldenIs, GoldenInv

(* A step that leaves the runs and the report's place alone and ends, if it *)
(* does, with anything but the two exit statuses that say something         *)
LEMMA GoldenElsewhere ==
  ASSUME GoldenInv, goldenAt # "exit", UNCHANGED runs,
         place' = place \/ (place' = "foreign" /\ goldenAt' = goldenAt),
         exitCode' = -1 \/ (goldenAt' = "exit" /\ exitCode' \in {1, 2}),
         goldenAt' \in {"copy", "agent", "test", "inspect"} => Len(runs) < OfficialRuns,
         goldenAt' = "write" => runs = <<>> \/ Len(runs) = OfficialRuns,
         goldenAt' \in {"start", "preflight"} => runs = <<>>,
         goldenAt' = "inspect" => final' \in {"timeout", "failed", "passed"}
  PROVE  GoldenInv'
  BY DEF GoldenInv, CandidateIsEarned

LEMMA InspectKeeps ==
  ASSUME GoldenInv, NEW git \in BOOLEAN, Inspect(git)
  PROVE  GoldenInv'
  <1>1. CASE ~git
    BY <1>1, GoldenElsewhere DEF Inspect, Exit, GoldenInv
  <1>2. CASE git
    <2> DEFINE row == [success |-> Reasons = {}, earned |-> Earned]
    <2>1. /\ goldenAt = "inspect" /\ runs' = Append(runs, row)
          /\ exitCode' = exitCode /\ place' = place
          /\ goldenAt' = IF Len(runs) + 1 = OfficialRuns THEN "write" ELSE "copy"
      BY <1>2 DEF Inspect, Goes
    <2>2. row.success = row.earned /\ row \in GoldenRows
      <3>1. (Reasons = {}) <=> Earned BY <2>1, NoReasonIsEarned DEF GoldenInv
      <3>2. (Reasons = {}) \in BOOLEAN /\ Earned \in BOOLEAN BY DEF Earned
      <3> QED BY <3>1, <3>2 DEF GoldenRows
    <2>3. /\ runs' \in Seq(GoldenRows) /\ Len(runs') = Len(runs) + 1
          /\ \A k \in DOMAIN runs' : runs'[k].success = runs'[k].earned
      <3>1. runs \in Seq(GoldenRows) /\ \A k \in DOMAIN runs : runs[k].success = runs[k].earned
        BY DEF GoldenInv
      <3> HIDE DEF row
      <3> QED BY <2>1, <2>2, <3>1
    <2>4. Len(runs) \in Nat /\ Len(runs) < OfficialRuns /\ OfficialRuns \in Nat
      BY <2>1, GoldenConstants DEF GoldenInv
    <2>5. exitCode' = -1 /\ place' # "report"
      BY <2>1 DEF GoldenInv
    <2> QED BY <2>1, <2>3, <2>4, <2>5 DEF GoldenInv, CandidateIsEarned
  <1> QED BY <1>1, <1>2

LEMMA WriteReportKeeps ==
  ASSUME GoldenInv, NEW parent \in BOOLEAN, WriteReport(parent)
  PROVE  GoldenInv'
  <1>1. CASE place # "absent" \/ ~parent
    BY <1>1, GoldenElsewhere DEF WriteReport, Exit, GoldenInv
  <1>2. CASE ~(place # "absent" \/ ~parent)
    <2> DEFINE success == {k \in DOMAIN runs : runs[k].success}
               earned == {k \in DOMAIN runs : runs[k].earned}
    <2>1. success = earned BY DEF GoldenInv
    <2>2. Cardinality(earned) \in Nat
      <3>1. DOMAIN runs = 1..Len(runs) /\ Len(runs) \in Nat BY DEF GoldenInv
      <3>2. IsFiniteSet(DOMAIN runs) BY <3>1, FS_Interval
      <3>3. IsFiniteSet(earned) BY <3>2, FS_Subset
      <3> QED BY <3>3, FS_CardinalityType
    <2>3. /\ goldenAt = "write" /\ place' = "report" /\ goldenAt' = "exit" /\ runs' = runs
          /\ exitCode' = IF runs = <<>> THEN 2 ELSE IF VideoCandidate THEN 0 ELSE 1
      BY <1>2 DEF WriteReport, Exit
    <2>4. VideoCandidate <=> Cardinality(earned) >= 2
      BY <2>1 DEF VideoCandidate
    <2>5. runs # <<>> => Len(runs) = OfficialRuns
      BY <2>3 DEF GoldenInv
    <2>6. CandidateIsEarned'
      <3> HIDE DEF earned
      <3> SUFFICES LET e == Cardinality(earned)
                   IN  /\ exitCode' = 0 => Len(runs) = OfficialRuns /\ e >= 2
                       /\ exitCode' = 1 => Len(runs) = OfficialRuns /\ e < 2
        BY <2>3 DEF CandidateIsEarned, earned
      <3> QED BY <2>2, <2>3, <2>4, <2>5
    <2> QED BY <2>3, <2>6 DEF GoldenInv
  <1> QED BY <1>1, <1>2

LEMMA GoldenStep ==
  ASSUME GoldenInv, [GoldenNext]_goldenVars
  PROVE  GoldenInv'
  <1> USE DEF Exit, Goes, WorkspaceRest
  <1>1. ASSUME NEW parent \in BOOLEAN, CheckDestination(parent) PROVE GoldenInv'
    BY <1>1, GoldenElsewhere DEF CheckDestination, GoldenInv
  <1>2. ASSUME NEW parent \in BOOLEAN, WriteReport(parent) PROVE GoldenInv'
    BY <1>2, WriteReportKeeps
  <1>3. ASSUME NEW end \in Ends, Preflight(end) \/ PrepareRun(end) \/ FinalTests(end)
        PROVE  GoldenInv'
    <2>1. runs = <<>> => Len(runs) < OfficialRuns
      BY GoldenConstants
    <2> QED BY <1>3, <2>1, GoldenElsewhere DEF Preflight, PrepareRun, FinalTests, Ends, GoldenInv
  <1>4. ASSUME NEW ended, NEW paths, RunAgent(ended, paths) PROVE GoldenInv'
    BY <1>4, GoldenElsewhere DEF RunAgent, GoldenInv
  <1>5. ASSUME NEW git \in BOOLEAN, Inspect(git) PROVE GoldenInv'
    BY <1>5, InspectKeeps
  <1>6. CASE Crash
    BY <1>6, GoldenElsewhere DEF Crash, GoldenInv
  <1>7. CASE OtherReport
    BY <1>7, GoldenElsewhere DEF OtherReport, GoldenInv
  <1>8. CASE UNCHANGED goldenVars
    BY <1>8 DEF goldenVars, GoldenInv, CandidateIsEarned
  <1> QED BY <1>1, <1>2, <1>3, <1>4, <1>5, <1>6, <1>7, <1>8 DEF GoldenNext, NoClient

(* A batch says with its exit status what its runs have earned, however many *)
(* runs are official and wherever it breaks off                              *)
THEOREM CandidatesAreEarned == GoldenSpec => []CandidateIsEarned
  <1>1. GoldenInv => CandidateIsEarned
    BY DEF GoldenInv
  <1> QED BY <1>1, GoldenInitial, GoldenStep, PTL DEF GoldenSpec

-----------------------------------------------------------------------------
(* ComparisonStudy: the category a cell is given *)

Categories ==
  {"SCOPE_VIOLATION", "TOOL_OR_INFRA_FAILURE", "TIMEOUT", "REGRESSION", "DID_NOT_TEST",
   "LOCALIZATION_FAILURE", "INCORRECT_PATCH"}

LEMMA PrecedenceIsOfCategories ==
  /\ DOMAIN Precedence = 1..7
  /\ {Precedence[k] : k \in DOMAIN Precedence} = Categories
  /\ Precedence[1] = "SCOPE_VIOLATION" /\ Precedence[2] = "TOOL_OR_INFRA_FAILURE"
  <1>1. DOMAIN Precedence = 1..7
    BY DEF Precedence
  <1>2. \A k \in 1..7 : k = 1 \/ k = 2 \/ k = 3 \/ k = 4 \/ k = 5 \/ k = 6 \/ k = 7
    OBVIOUS
  <1>3. /\ Precedence[1] = "SCOPE_VIOLATION" /\ Precedence[2] = "TOOL_OR_INFRA_FAILURE"
        /\ Precedence[3] = "TIMEOUT" /\ Precedence[4] = "REGRESSION"
        /\ Precedence[5] = "DID_NOT_TEST" /\ Precedence[6] = "LOCALIZATION_FAILURE"
        /\ Precedence[7] = "INCORRECT_PATCH"
    BY DEF Precedence
  <1>5. \A c \in Categories : \E k \in 1..7 : Precedence[k] = c
    BY <1>3 DEF Categories
  <1>6. \A k \in 1..7 : Precedence[k] \in Categories
    BY <1>2, <1>3 DEF Categories
  <1> QED BY <1>1, <1>3, <1>5, <1>6

LEMMA FirstOfSeven ==
  ASSUME NEW holds \in SUBSET (1..7), holds # {}
  PROVE  \E k \in holds : \A j \in holds : k <= j
  <1>1. \A j \in holds : j = 1 \/ j = 2 \/ j = 3 \/ j = 4 \/ j = 5 \/ j = 6 \/ j = 7
    <2>1. \A j \in 1..7 : j = 1 \/ j = 2 \/ j = 3 \/ j = 4 \/ j = 5 \/ j = 6 \/ j = 7
      OBVIOUS
    <2> QED BY <2>1
  <1> DEFINE After(n) == \A j \in holds : n <= j
  <1>2. CASE 1 \in holds
    <2>1. After(1) BY <1>1
    <2> QED BY <1>2, <2>1
  <1>3. CASE 1 \notin holds /\ 2 \in holds
    <2>1. After(2) BY <1>1, <1>3
    <2> QED BY <1>3, <2>1
  <1>4. CASE 1 \notin holds /\ 2 \notin holds /\ 3 \in holds
    <2>1. After(3) BY <1>1, <1>4
    <2> QED BY <1>4, <2>1
  <1>5. CASE 1 \notin holds /\ 2 \notin holds /\ 3 \notin holds
    <2>1. CASE 4 \in holds
      <3>1. After(4) BY <1>1, <1>5
      <3> QED BY <2>1, <3>1
    <2>2. CASE 4 \notin holds /\ 5 \in holds
      <3>1. After(5) BY <1>1, <1>5, <2>2
      <3> QED BY <2>2, <3>1
    <2>3. CASE 4 \notin holds /\ 5 \notin holds /\ 6 \in holds
      <3>1. After(6) BY <1>1, <1>5, <2>3
      <3> QED BY <2>3, <3>1
    <2>4. CASE 4 \notin holds /\ 5 \notin holds /\ 6 \notin holds
      <3>1. After(7) BY <1>1, <1>5, <2>4
      <3>2. 7 \in holds BY <1>1, <1>5, <2>4
      <3> QED BY <3>1, <3>2
    <2> QED BY <2>1, <2>2, <2>3, <2>4
  <1> QED BY <1>2, <1>3, <1>4, <1>5

(* The category chosen is one of those in evidence, and none only if there is *)
(* none; of two, what broke the measurement goes before what it then showed   *)
LEMMA PrimaryIsFirst ==
  ASSUME NEW evidence \in SUBSET Categories
  PROVE  /\ evidence = {} => Primary(evidence) = "none"
         /\ evidence # {} => Primary(evidence) \in Categories
         /\ "TOOL_OR_INFRA_FAILURE" \in evidence
              => Primary(evidence) \in {"TOOL_OR_INFRA_FAILURE", "SCOPE_VIOLATION"}
  <1> DEFINE holds == {k \in DOMAIN Precedence : Precedence[k] \in evidence}
             first == CHOOSE k \in holds : \A j \in holds : k <= j
  <1>1. Primary(evidence) = IF holds = {} THEN "none" ELSE Precedence[first]
    BY DEF Primary
  <1>2. holds \in SUBSET (1..7)
    BY PrecedenceIsOfCategories
  <1>3. holds = {} <=> evidence = {}
    BY PrecedenceIsOfCategories
  <1>4. holds # {} => first \in holds /\ \A j \in holds : first <= j
    <2> SUFFICES ASSUME holds # {} PROVE first \in holds /\ \A j \in holds : first <= j
      OBVIOUS
    <2>1. \E k \in holds : \A j \in holds : k <= j
      <3> HIDE DEF holds
      <3> QED BY <1>2, FirstOfSeven
    <2> HIDE DEF holds
    <2> QED BY <2>1
  <1>5. holds # {} => Precedence[first] \in Categories
    BY <1>4, PrecedenceIsOfCategories
  <1>6. "TOOL_OR_INFRA_FAILURE" \in evidence => first \in 1..2
    <2> SUFFICES ASSUME "TOOL_OR_INFRA_FAILURE" \in evidence PROVE first \in 1..2
      OBVIOUS
    <2>1. 2 \in holds BY PrecedenceIsOfCategories
    <2>2. first \in 1..7 /\ first <= 2
      <3> HIDE DEF holds, first
      <3> QED BY <1>2, <1>4, <2>1
    <2> HIDE DEF first
    <2> QED BY <2>2
  <1>7. "TOOL_OR_INFRA_FAILURE" \in evidence
          => Precedence[first] \in {"TOOL_OR_INFRA_FAILURE", "SCOPE_VIOLATION"}
    <2> HIDE DEF first
    <2>1. \A k \in 1..2 : k = 1 \/ k = 2 OBVIOUS
    <2> QED BY <1>6, <2>1, PrecedenceIsOfCategories
  <1>8. "TOOL_OR_INFRA_FAILURE" \in evidence => holds # {}
    BY <1>3
  <1> HIDE DEF holds, first
  <1> QED BY <1>1, <1>3, <1>5, <1>7, <1>8

LEMMA EvidenceIsOfCategories ==
  ASSUME NEW task, NEW g, NEW artifact
  PROVE  Evidence(task, g, artifact) \in SUBSET Categories
  BY PrecedenceIsOfCategories DEF Evidence

(* Nothing is in evidence only against a cell that is solved *)
LEMMA NoEvidenceIsSolved ==
  ASSUME NEW task, NEW g \in [Suites -> Results], NEW artifact, ~OutOfScope(task),
         Evidence(task, g, artifact) = {}
  PROVE  Solved(task, g, artifact)
  <1> DEFINE results == {g[s] : s \in Suites} \cup (IF task \in TestTasks THEN {artifact} ELSE {})
             E == Evidence(task, g, artifact)
  <1>e. \A c \in Categories : c \notin E
    OBVIOUS
  <1>c. /\ "INCORRECT_PATCH" \in Categories /\ "REGRESSION" \in Categories
        /\ "DID_NOT_TEST" \in Categories /\ "LOCALIZATION_FAILURE" \in Categories
    BY DEF Categories
  <1>1. "syntax" \notin results /\ changed # {}
    <2>1. ~("syntax" \in results \/ changed = {})
      BY <1>e, <1>c, PrecedenceIsOfCategories DEF Evidence
    <2> QED BY <2>1
  <1>2. g["kept"] = "passed"
    BY <1>e, <1>c, <1>1, PrecedenceIsOfCategories DEF Evidence
  <1>3. g["target"] = "passed" /\ g["hidden"] = "passed"
    <2>1. CASE "production" \in changed
      BY <1>e, <1>c, <2>1, PrecedenceIsOfCategories DEF Evidence
    <2>2. CASE "production" \notin changed
      BY <1>e, <1>c, <1>1, <2>2, PrecedenceIsOfCategories DEF Evidence
    <2> QED BY <2>1, <2>2
  <1>4. task \in TestTasks => artifact = "valid"
    BY <1>e, <1>c, PrecedenceIsOfCategories DEF Evidence
  <1>5. \A s \in Suites \ {"visible"} : g[s] = "passed"
    BY <1>2, <1>3 DEF Suites
  <1> QED BY <1>1, <1>4, <1>5 DEF Solved

(* A measurement that failed is in evidence *)
LEMMA FaultIsEvident ==
  ASSUME NEW task, NEW g \in [Suites -> Results], NEW artifact, Faulty(task, g, artifact)
  PROVE  "TOOL_OR_INFRA_FAILURE" \in Evidence(task, g, artifact)
  <1> DEFINE results == {g[s] : s \in Suites} \cup (IF task \in TestTasks THEN {artifact} ELSE {})
  <1>1. "infra" \in results
    BY DEF Faulty
  <1>2. "TOOL_OR_INFRA_FAILURE" \in Categories
    BY DEF Categories
  <1> QED BY <1>1, <1>2, PrecedenceIsOfCategories DEF Evidence

-----------------------------------------------------------------------------
(* ComparisonStudy: the phase *)

StudyRows ==
  [cell : Nat, stop : Stops, resolved : BOOLEAN, primary : Categories \cup {"none"},
   solved : BOOLEAN, faulty : BOOLEAN, ran : BOOLEAN]

GoodRow(row) ==
  /\ row.resolved => row.solved
  /\ row.faulty => row.primary \in {"TOOL_OR_INFRA_FAILURE", "SCOPE_VIOLATION"}
  /\ row.stop = "INFRA_ERROR" <=> ~row.ran

(* How many rows there are where *)
RowsAsFar ==
  /\ studyAt \in {"make", "adapter", "grade"} => Len(rows) = cell - 1
  /\ studyAt = "clean" => Len(rows) = IF cellRaised THEN cell - 1 ELSE cell
  /\ studyAt \in {"write", "written"} => Len(rows) = cell /\ cell = Len(Cells)

(* The workspaces of the running phase are that of its current cell *)
WorkspacesAsFar ==
  \A w \in workspaces :
    /\ w[1] \in Nat /\ w[1] <= phases
    /\ w[1] = phases => studyAt \in {"adapter", "grade", "clean", "raised"}
    /\ w[1] = phases /\ studyAt # "raised" => w = <<phases, cell>>

StudyInv ==
  /\ studyAt \in {"start", "make", "adapter", "grade", "clean", "write", "written", "raised"}
  /\ phases \in Nat /\ cell \in 1..Len(Cells)
  /\ rows \in Seq(StudyRows)
  /\ \A k \in 1..Len(rows) : rows[k].cell = k /\ GoodRow(rows[k])
  /\ RowsAsFar
  /\ WorkspacesAsFar
  /\ stopReason \in Stops /\ ran \in BOOLEAN /\ (stopReason = "INFRA_ERROR" <=> ~ran)
  /\ cellRaised \in BOOLEAN /\ (studyAt \in {"make", "adapter", "grade"} => ~cellRaised)
  /\ studyFile = "report" => studyAt = "written"

LEMMA StudyInitial == StudyInit => StudyInv
  <1> SUFFICES ASSUME StudyInit PROVE StudyInv
    OBVIOUS
  <1>1. <<>> \in Seq(StudyRows) /\ Len(Cells) \in Nat \ {0}
    BY StudyConstants
  <1>2. rows = <<>> /\ workspaces = {} /\ studyAt = "start" /\ cell = 1 /\ phases = 1
        /\ studyFile = "absent" /\ cellRaised = FALSE
    BY DEF StudyInit, StudyIs
  <1>3. /\ rows \in Seq(StudyRows) /\ cell \in 1..Len(Cells) /\ phases \in Nat
        /\ \A k \in 1..Len(rows) : rows[k].cell = k /\ GoodRow(rows[k])
    BY <1>1, <1>2
  <1>4. RowsAsFar /\ WorkspacesAsFar
    BY <1>2 DEF RowsAsFar, WorkspacesAsFar
  <1>5. stopReason \in Stops /\ ran \in BOOLEAN /\ (stopReason = "INFRA_ERROR" <=> ~ran)
    BY DEF StudyInit, StudyIs, Stops
  <1> QED BY <1>2, <1>3, <1>4, <1>5 DEF StudyInv

(* A row entered for the cell that is graded *)
LEMMA EnterKeeps ==
  ASSUME StudyInv, studyAt = "grade",
         NEW primary \in Categories \cup {"none"},
         NEW solved \in BOOLEAN, NEW faulty \in BOOLEAN,
         primary = "none" => solved,
         faulty => primary \in {"TOOL_OR_INFRA_FAILURE", "SCOPE_VIOLATION"},
         Enter(primary, solved, faulty)
  PROVE  StudyInv'
  <1> DEFINE row == [cell |-> cell, stop |-> stopReason, resolved |-> primary = "none",
                     primary |-> primary, solved |-> solved, faulty |-> faulty, ran |-> ran]
  <1>1. /\ rows' = Append(rows, row) /\ studyAt' = "clean"
        /\ UNCHANGED <<phases, cell, stopReason, ran, workspaces, cellRaised, studyFile>>
    BY DEF Enter
  <1>2. row \in StudyRows /\ row.cell = cell /\ GoodRow(row)
    BY StudyConstants DEF StudyInv, StudyRows, GoodRow
  <1>3. /\ rows' \in Seq(StudyRows) /\ Len(rows') = Len(rows) + 1 /\ Len(rows) = cell - 1
        /\ \A k \in 1..Len(rows') : rows'[k].cell = k /\ GoodRow(rows'[k])
    <2> HIDE DEF row
    <2>1. /\ rows \in Seq(StudyRows) /\ Len(rows) = cell - 1 /\ cell \in Nat
          /\ \A k \in 1..Len(rows) : rows[k].cell = k /\ GoodRow(rows[k])
      BY StudyConstants DEF StudyInv, RowsAsFar
    <2>2. rows' \in Seq(StudyRows) /\ Len(rows') = Len(rows) + 1 /\ rows'[Len(rows) + 1] = row
          /\ \A k \in 1..Len(rows) : rows'[k] = rows[k]
      BY <1>1, <1>2, <2>1
    <2> QED BY <1>2, <2>1, <2>2
  <1> QED BY <1>1, <1>3 DEF StudyInv, RowsAsFar, WorkspacesAsFar

LEMMA StudyStep ==
  ASSUME StudyInv, [StudyNext]_studyVars
  PROVE  StudyInv'
  <1>c. Len(Cells) \in Nat \ {0}
    BY StudyConstants
  <1>1. CASE StartPhase
    <2>1. <<>> \in Seq(StudyRows) OBVIOUS
    <2>2. /\ studyAt = "start" /\ studyAt' \in {"make", "raised"} /\ cell' = 1 /\ rows' = <<>>
          /\ cellRaised' = FALSE /\ UNCHANGED <<phases, stopReason, ran, workspaces, studyFile>>
      BY <1>1 DEF StartPhase
    <2>3. /\ rows' \in Seq(StudyRows) /\ Len(rows') = 0
          /\ \A k \in 1..Len(rows') : rows'[k].cell = k /\ GoodRow(rows'[k])
      BY <2>1, <2>2
    <2>4. RowsAsFar' /\ WorkspacesAsFar'
      BY <2>2, <2>3 DEF StudyInv, RowsAsFar, WorkspacesAsFar
    <2>5. phases' \in Nat /\ cell' \in 1..Len(Cells)
      BY <1>c, <2>2 DEF StudyInv
    <2>6. studyFile' # "report"
      BY <2>2 DEF StudyInv
    <2> QED BY <2>2, <2>3, <2>4, <2>5, <2>6 DEF StudyInv
  <1>2. ASSUME NEW made \in BOOLEAN, NEW filled \in BOOLEAN, MakeWorkspace(made, filled)
        PROVE  StudyInv'
    BY <1>2 DEF MakeWorkspace, StudyInv, RowsAsFar, WorkspacesAsFar
  <1>3. ASSUME NEW left,
               \/ \E timedOut \in BOOLEAN : RunAdapter(left, timedOut)
               \/ FailAdapter(left) \/ KeepRuntime(left)
        PROVE  StudyInv'
    <2>1. /\ studyAt = "adapter" /\ studyAt' = "grade"
          /\ stopReason' \in Stops /\ ran' \in BOOLEAN /\ (stopReason' = "INFRA_ERROR" <=> ~ran')
          /\ UNCHANGED <<phases, cell, rows, workspaces, cellRaised, studyFile>>
      BY <1>3 DEF RunAdapter, FailAdapter, KeepRuntime, AdapterReturns, Stops
    <2> QED BY <2>1 DEF StudyInv, RowsAsFar, WorkspacesAsFar
  <1>4. CASE GradeNothing
    BY <1>4, EnterKeeps DEF GradeNothing, Categories
  <1>5. CASE GradeScope
    BY <1>5, EnterKeeps DEF GradeScope, Categories
  <1>6. ASSUME NEW g \in Gradings, NEW artifact, GradeRuns(g, artifact) PROVE StudyInv'
    <2> DEFINE task == Cells[cell]
               E == Evidence(task, g, artifact)
    <2>1. g \in [Suites -> Results] /\ ~OutOfScope(task) /\ studyAt = "grade"
          /\ Enter(Primary(E), Solved(task, g, artifact), Faulty(task, g, artifact))
      BY <1>6 DEF GradeRuns, Gradings
    <2>2. Primary(E) \in Categories \cup {"none"}
      BY EvidenceIsOfCategories, PrimaryIsFirst
    <2>3. Primary(E) = "none" => Solved(task, g, artifact)
      <3>1. Primary(E) = "none" => E = {}
        BY EvidenceIsOfCategories, PrimaryIsFirst DEF Categories
      <3> QED BY <2>1, <3>1, NoEvidenceIsSolved
    <2>4. Faulty(task, g, artifact) => Primary(E) \in {"TOOL_OR_INFRA_FAILURE", "SCOPE_VIOLATION"}
      BY <2>1, EvidenceIsOfCategories, PrimaryIsFirst, FaultIsEvident
    <2>5. Solved(task, g, artifact) \in BOOLEAN /\ Faulty(task, g, artifact) \in BOOLEAN
      BY DEF Solved, Faulty
    <2> HIDE DEF E, task
    <2> QED BY <2>1, <2>2, <2>3, <2>4, <2>5, EnterKeeps
  <1>7. ASSUME NEW fails \in BOOLEAN, CleanUpCell(fails) PROVE StudyInv'
    BY <1>7, <1>c DEF CleanUpCell, StudyInv, RowsAsFar, WorkspacesAsFar
  <1>8. ASSUME NEW complete \in BOOLEAN, WriteStudy(complete) PROVE StudyInv'
    BY <1>8 DEF WriteStudy, StudyInv, RowsAsFar, WorkspacesAsFar
  <1>9. CASE RunAgain
    BY <1>9 DEF RunAgain, StudyInv, RowsAsFar, WorkspacesAsFar
  <1>10. CASE UNCHANGED studyVars
    BY <1>10 DEF studyVars, StudyInv, RowsAsFar, WorkspacesAsFar
  <1>11. ASSUME NEW ok \in BOOLEAN, CleanUpCell(~ok) \/ WriteStudy(ok) PROVE StudyInv'
    <2>1. (~ok) \in BOOLEAN OBVIOUS
    <2> QED BY <1>7, <1>8, <1>11, <2>1
  <1> QED BY <1>1, <1>2, <1>3, <1>4, <1>5, <1>6, <1>9, <1>10, <1>11 DEF StudyNext

(* The report of a phase is complete and of rows in order, with no workspace *)
(* of the phase left, however its cells end and however often it was started *)
(* before; it resolves only what was solved, takes no breakdown of the       *)
(* grading for the participant's, and gives the stop reason INFRA_ERROR to   *)
(* just the cells whose adapter failed, whatever category they then have.    *)
THEOREM StudyReportsAreTrue == StudySpec => []StudyReportIsTrue
  <1>1. StudyInv => StudyReportIsTrue
    <2> SUFFICES ASSUME StudyInv, studyFile = "report" PROVE StudyReportIsTrue
      BY DEF StudyReportIsTrue
    <2>1. studyAt = "written" /\ Len(rows) = Len(Cells)
      BY DEF StudyInv, RowsAsFar
    <2>2. [k \in DOMAIN rows |-> rows[k].cell] = [k \in 1..Len(Cells) |-> k]
      <3>1. DOMAIN rows = 1..Len(Cells) /\ \A k \in 1..Len(Cells) : rows[k].cell = k
        BY <2>1 DEF StudyInv
      <3> QED BY <3>1
    <2>3. \A w \in workspaces : w[1] # phases
      BY <2>1 DEF StudyInv, WorkspacesAsFar
    <2>4. \A k \in DOMAIN rows : GoodRow(rows[k])
      BY DEF StudyInv
    <2> QED BY <2>2, <2>3, <2>4 DEF StudyReportIsTrue, GoodRow
  <1> QED BY <1>1, StudyInitial, StudyStep, PTL DEF StudySpec

-----------------------------------------------------------------------------
(* ProbeRun *)

(* The outcome that what went wrong deserves *)
Deserved(what) ==
  IF "INVALID_INFRA" \in what THEN "INVALID_INFRA" ELSE IF "FAIL" \in what THEN "FAIL" ELSE "PASS"

AnswerYet == {"null", "yes", "no"}

EvidenceSoFar ==
  [statuses : Seq(Statuses), ideal1 : AnswerYet, ideal2 : AnswerYet, ideal : AnswerYet,
   exact : AnswerYet, changed : SUBSET {"target", "other"}, hash1 : {"null", "changed"},
   tests1 : {"null", "other", "zero"}, tests2 : {"null", "other", "zero"},
   undone : {"yes", "no"}, depth : 0..1, hash2 : {"initial", "other", "null"},
   reset : {"clean", "dirty", "null"}, artifacts : {"yes", "no"}, baseline : {"yes", "no"},
   residual : {"null", "some", "none"}, idempotent : {"yes", "no"}, closes : -1..1]

(* The stages before the last judgement, from each on *)
FromArtifacts == {"artifacts"}
FromReset == {"reset"} \cup FromArtifacts
FromUndo == {"undo"} \cup FromReset
FromAgain2 == {"again2"} \cup FromUndo
FromTests2 == {"files2", "tests2"} \cup FromAgain2
FromTurn2 == {"turn2"} \cup FromTests2
FromAgain1 == {"again1"} \cup FromTurn2
FromTests1 == {"tests1"} \cup FromAgain1
FromFiles1 == {"files1"} \cup FromTests1
FromTurn1 == {"turn1"} \cup FromFiles1
Judging == {"copy"} \cup FromTurn1

(* The run has come so far with nothing wrong *)
Through(stages) == stage \in stages \/ (stage = "report" /\ verdict[1] = "PASS")

(* What it has seen on the way there *)
SeenSoFar ==
  /\ stage \in {"copy", "turn1"} => seen.ideal1 = "null"
  /\ stage \in Judging \ FromTests2 => seen.ideal2 = "null"
  /\ Through(FromTurn1) => opened = "open" /\ seen.baseline = "yes" /\ seen.closes = 0
  /\ Through(FromFiles1) => seen.ideal1 # "null"
  /\ stage \in FromFiles1 \ FromTests2 => seen.statuses = <<"COMPLETED">>
  /\ Through(FromTests1) => seen.changed = {"target"} /\ seen.hash1 # "null"
  /\ Through(FromAgain1) => seen.tests1 = "zero"
  /\ Through(FromTests2) =>
       seen.statuses = <<"COMPLETED", "COMPLETED">> /\ seen.ideal2 # "null" /\ seen.exact = "yes"
  /\ Through(FromAgain2) => seen.tests2 = "zero"
  /\ Through(FromReset) => seen.undone = "yes" /\ seen.depth = 0 /\ seen.hash2 = "initial"
  /\ Through(FromArtifacts) => seen.reset = "clean"
  /\ Through({}) => seen.artifacts = "no"

IdealIsBoth(e) ==
  e.ideal = IF "null" \in {e.ideal1, e.ideal2} THEN "null"
            ELSE YesNo(e.ideal1 = "yes" /\ e.ideal2 = "yes")

ProbeInv ==
  /\ seen \in EvidenceSoFar /\ IdealIsBoth(seen) /\ SeenSoFar
  /\ stage \in Judging \cup {"report", "cleanup", "last", "done"}
  /\ opened \in {"none", "open", "closed"} /\ closes = IF opened = "closed" THEN 1 ELSE 0
  /\ seen.closes \in {-1, closes}
  /\ seen.residual = "some" => opened = "closed"
  /\ opened = "closed" => stage \in {"cleanup", "last", "done"}
  /\ stage \in {"cleanup", "done"} => opened # "open"
  /\ stage \in Judging => wrong = {}
  /\ stage = "report" =>
       verdict[1] = Deserved(wrong) /\ (verdict[1] = "PASS" <=> verdict[2] = "")
  /\ stage = "last" =>
       verdict[1] = "INVALID_INFRA" /\ verdict[2] # "" /\ "INVALID_INFRA" \in wrong
  /\ stage \in {"cleanup", "done"} => report.outcome = Deserved(wrong) /\ Acceptable(report)

-----------------------------------------------------------------------------
(* Checks that look for the failures of the infrastructure first give the    *)
(* verdict that all they find deserves                                       *)

GoodChecks(checks, n) ==
  /\ DOMAIN checks = 1..n
  /\ \A k \in 1..n : checks[k] # Fine =>
       checks[k][1] \in {"INVALID_INFRA", "FAIL"} /\ checks[k][2] # ""
  /\ \A j, k \in 1..n : j < k /\ checks[k][1] = "INVALID_INFRA" =>
       checks[j] = Fine \/ checks[j][1] = "INVALID_INFRA"

AllFine(checks, n) == \A k \in 1..n : checks[k] = Fine

LEMMA Judged ==
  ASSUME NEW n \in Nat, NEW checks, GoodChecks(checks, n), NEW next, wrong = {},
         Judge(checks, next)
  PROVE  \/ AllFine(checks, n) /\ stage' = next /\ wrong' = {} /\ UNCHANGED verdict
         \/ /\ ~AllFine(checks, n) /\ stage' = "report" /\ verdict'[1] = Deserved(wrong')
            /\ verdict'[1] # "PASS" /\ verdict'[2] # ""
  <1> DEFINE failed == {k \in DOMAIN checks : checks[k] # Fine}
             first == CHOOSE k \in failed : \A j \in failed : k <= j
  <1>1. /\ wrong' = {checks[k][1] : k \in failed}
        /\ IF failed = {} THEN stage' = next /\ UNCHANGED verdict
           ELSE stage' = "report" /\ verdict' = checks[first]
    BY DEF Judge
  <1>2. failed \subseteq 1..n /\ \A k \in 1..n : k \in failed <=> checks[k] # Fine
    BY DEF GoodChecks
  <1>3. CASE failed = {}
    BY <1>1, <1>2, <1>3 DEF AllFine
  <1>4. CASE failed # {}
    <2>1. first \in failed /\ \A j \in failed : first <= j
      <3>1. failed \subseteq Nat
        BY <1>2
      <3>2. \E k \in failed : \A j \in failed : k <= j
        <4> HIDE DEF failed
        <4> QED BY <1>4, <3>1, Smallest
      <3> QED BY <3>2
    <2> HIDE DEF failed, first
    <2>2. first \in 1..n /\ checks[first] # Fine
      BY <1>2, <2>1
    <2>3. checks[first][1] \in {"INVALID_INFRA", "FAIL"} /\ checks[first][2] # ""
      BY <2>2 DEF GoodChecks
    <2>4. checks[first][1] \in wrong'
      BY <1>1, <2>1
    <2>5. ASSUME "INVALID_INFRA" \in wrong' PROVE checks[first][1] = "INVALID_INFRA"
      <3>1. PICK k \in failed : checks[k][1] = "INVALID_INFRA"
        BY <1>1, <2>5
      <3>2. k \in 1..n /\ (k = first \/ first < k)
        BY <1>2, <2>1, <2>2, <3>1
      <3> QED BY <2>2, <3>1, <3>2 DEF GoodChecks
    <2> QED BY <1>1, <1>4, <2>2, <2>3, <2>4, <2>5 DEF Deserved, AllFine
  <1> QED BY <1>3, <1>4

(* The judgement of a stage, whatever was seen at it *)
LEMMA StageMoves ==
  ASSUME ProbeInv, stage \in Judging, UNCHANGED <<closes, report>>, opened' \in {opened, "open"},
         seen' \in EvidenceSoFar, IdealIsBoth(seen'), SeenSoFar', seen'.closes \in {-1, 0},
         seen'.residual = seen.residual, NEW next \in Judging,
         \/ stage' = next /\ wrong' = {}
         \/ /\ stage' = "report" /\ verdict'[1] = Deserved(wrong')
            /\ verdict'[1] # "PASS" /\ verdict'[2] # ""
  PROVE  ProbeInv'
  <1>0. Judging \cap {"report", "cleanup", "last", "done"} = {}
    BY DEF Judging, FromTurn1, FromFiles1, FromTests1, FromAgain1, FromTurn2, FromTests2,
       FromAgain2, FromUndo, FromReset, FromArtifacts
  <1>1. opened \in {"none", "open"} /\ closes = 0 /\ closes' = 0 /\ opened' \in {"none", "open"}
    BY <1>0 DEF ProbeInv
  <1>2. seen'.residual # "some"
    BY <1>1 DEF ProbeInv
  <1>3. stage' \in Judging \/ stage' = "report"
    OBVIOUS
  <1> QED BY <1>0, <1>1, <1>2, <1>3 DEF ProbeInv, IdealIsBoth

LEMMA AfterFailure ==
  ASSUME stage' = "report", verdict'[1] # "PASS"
  PROVE  SeenSoFar'
  BY DEF SeenSoFar, Through, Judging, FromTurn1, FromFiles1, FromTests1, FromAgain1,
     FromTurn2, FromTests2, FromAgain2, FromUndo, FromReset, FromArtifacts

LEMMA AfterChecks ==
  ASSUME ProbeInv, stage \in Judging, UNCHANGED <<closes, report>>, opened' \in {opened, "open"},
         seen' \in EvidenceSoFar, IdealIsBoth(seen'), seen'.closes \in {-1, 0},
         seen'.residual = seen.residual,
         NEW n \in Nat, NEW checks, GoodChecks(checks, n), NEW next \in Judging,
         Judge(checks, next), AllFine(checks, n) /\ stage' = next => SeenSoFar'
  PROVE  ProbeInv'
  <1>1. wrong = {}
    BY DEF ProbeInv
  <1>2. \/ AllFine(checks, n) /\ stage' = next /\ wrong' = {} /\ UNCHANGED verdict
        \/ /\ ~AllFine(checks, n) /\ stage' = "report" /\ verdict'[1] = Deserved(wrong')
           /\ verdict'[1] # "PASS" /\ verdict'[2] # ""
    BY <1>1, Judged
  <1>3. SeenSoFar'
    BY <1>2, AfterFailure
  <1> QED BY <1>2, <1>3, StageMoves

(* Checks one by one *)
OfKind(check, kinds) == check # Fine => check[1] \in kinds /\ check[2] # ""

OfAgent == {"FAIL"}
OfAny == {"INVALID_INFRA", "FAIL"}

LEMMA InfrastructureFirst ==
  ASSUME NEW n \in Nat, NEW all, DOMAIN all = 1..n,
         \A k \in 1..n : OfKind(all[k], OfAny) /\ (k # 1 => OfKind(all[k], OfAgent))
  PROVE  GoodChecks(all, n)
  <1>1. \A k \in 1..n : all[k] # Fine => all[k][1] \in {"INVALID_INFRA", "FAIL"} /\ all[k][2] # ""
    BY DEF OfKind, OfAny
  <1>2. Fine[1] # "INVALID_INFRA"
    BY DEF Fine
  <1>3. \A j, k \in 1..n : j < k => k # 1
    OBVIOUS
  <1>4. \A k \in 1..n : k # 1 => all[k][1] # "INVALID_INFRA"
    BY <1>2 DEF OfKind, OfAgent
  <1> QED BY <1>1, <1>3, <1>4 DEF GoodChecks

LEMMA Checks1 ==
  ASSUME NEW a,
         OfKind(a, OfAny)
  PROVE  /\ GoodChecks(<<a>>, 1)
         /\ AllFine(<<a>>, 1) <=> a = Fine
  <1> DEFINE all == <<a>>
  <1>1. DOMAIN all = 1..1 /\ all[1] = a
    OBVIOUS
  <1> HIDE DEF all
  <1>2. \A k \in 1..1 : k = 1
    OBVIOUS
  <1>3. 1 \in 1..1
    OBVIOUS
  <1>4. AllFine(all, 1) <=> a = Fine
    BY <1>1, <1>2, <1>3 DEF AllFine
  <1>5. \A k \in 1..1 : OfKind(all[k], OfAny) /\ (k # 1 => OfKind(all[k], OfAgent))
    BY <1>1, <1>2 DEF OfKind, OfAgent, OfAny
  <1>6. GoodChecks(all, 1)
    BY <1>1, <1>5, InfrastructureFirst
  <1> QED BY <1>4, <1>6 DEF all

LEMMA Checks2 ==
  ASSUME NEW a, NEW b,
         OfKind(a, OfAny), OfKind(b, OfAgent)
  PROVE  /\ GoodChecks(<<a, b>>, 2)
         /\ AllFine(<<a, b>>, 2) <=> a = Fine /\ b = Fine
  <1> DEFINE all == <<a, b>>
  <1>1. DOMAIN all = 1..2 /\ all[1] = a /\ all[2] = b
    OBVIOUS
  <1> HIDE DEF all
  <1>2. \A k \in 1..2 : k = 1 \/ k = 2
    OBVIOUS
  <1>3. 1 \in 1..2 /\ 2 \in 1..2
    OBVIOUS
  <1>4. AllFine(all, 2) <=> a = Fine /\ b = Fine
    BY <1>1, <1>2, <1>3 DEF AllFine
  <1>5. \A k \in 1..2 : OfKind(all[k], OfAny) /\ (k # 1 => OfKind(all[k], OfAgent))
    BY <1>1, <1>2 DEF OfKind, OfAgent, OfAny
  <1>6. GoodChecks(all, 2)
    BY <1>1, <1>5, InfrastructureFirst
  <1> QED BY <1>4, <1>6 DEF all

LEMMA Checks3 ==
  ASSUME NEW a, NEW b, NEW c,
         OfKind(a, OfAny), OfKind(b, OfAgent), OfKind(c, OfAgent)
  PROVE  /\ GoodChecks(<<a, b, c>>, 3)
         /\ AllFine(<<a, b, c>>, 3) <=> a = Fine /\ b = Fine /\ c = Fine
  <1> DEFINE all == <<a, b, c>>
  <1>1. DOMAIN all = 1..3 /\ all[1] = a /\ all[2] = b /\ all[3] = c
    OBVIOUS
  <1> HIDE DEF all
  <1>2. \A k \in 1..3 : k = 1 \/ k = 2 \/ k = 3
    OBVIOUS
  <1>3. 1 \in 1..3 /\ 2 \in 1..3 /\ 3 \in 1..3
    OBVIOUS
  <1>4. AllFine(all, 3) <=> a = Fine /\ b = Fine /\ c = Fine
    BY <1>1, <1>2, <1>3 DEF AllFine
  <1>5. \A k \in 1..3 : OfKind(all[k], OfAny) /\ (k # 1 => OfKind(all[k], OfAgent))
    BY <1>1, <1>2 DEF OfKind, OfAgent, OfAny
  <1>6. GoodChecks(all, 3)
    BY <1>1, <1>5, InfrastructureFirst
  <1> QED BY <1>4, <1>6 DEF all

LEMMA Checks4 ==
  ASSUME NEW a, NEW b, NEW c, NEW d,
         OfKind(a, OfAny), OfKind(b, OfAgent), OfKind(c, OfAgent), OfKind(d, OfAgent)
  PROVE  /\ GoodChecks(<<a, b, c, d>>, 4)
         /\ AllFine(<<a, b, c, d>>, 4) <=> a = Fine /\ b = Fine /\ c = Fine /\ d = Fine
  <1> DEFINE all == <<a, b, c, d>>
  <1>1. DOMAIN all = 1..4 /\ all[1] = a /\ all[2] = b /\ all[3] = c /\ all[4] = d
    OBVIOUS
  <1> HIDE DEF all
  <1>2. \A k \in 1..4 : k = 1 \/ k = 2 \/ k = 3 \/ k = 4
    OBVIOUS
  <1>3. 1 \in 1..4 /\ 2 \in 1..4 /\ 3 \in 1..4 /\ 4 \in 1..4
    OBVIOUS
  <1>4. AllFine(all, 4) <=> a = Fine /\ b = Fine /\ c = Fine /\ d = Fine
    BY <1>1, <1>2, <1>3 DEF AllFine
  <1>5. \A k \in 1..4 : OfKind(all[k], OfAny) /\ (k # 1 => OfKind(all[k], OfAgent))
    BY <1>1, <1>2 DEF OfKind, OfAgent, OfAny
  <1>6. GoodChecks(all, 4)
    BY <1>1, <1>5, InfrastructureFirst
  <1> QED BY <1>4, <1>6 DEF all

LEMMA Checks5 ==
  ASSUME NEW a, NEW b, NEW c, NEW d, NEW e,
         OfKind(a, OfAny), OfKind(b, OfAgent), OfKind(c, OfAgent), OfKind(d, OfAgent),
         OfKind(e, OfAgent)
  PROVE  /\ GoodChecks(<<a, b, c, d, e>>, 5)
         /\ AllFine(<<a, b, c, d, e>>, 5) <=> a = Fine /\ b = Fine /\ c = Fine /\ d = Fine /\ e = Fine
  <1> DEFINE all == <<a, b, c, d, e>>
  <1>1. DOMAIN all = 1..5 /\ all[1] = a /\ all[2] = b /\ all[3] = c /\ all[4] = d /\ all[5] = e
    OBVIOUS
  <1> HIDE DEF all
  <1>2. \A k \in 1..5 : k = 1 \/ k = 2 \/ k = 3 \/ k = 4 \/ k = 5
    OBVIOUS
  <1>3. 1 \in 1..5 /\ 2 \in 1..5 /\ 3 \in 1..5 /\ 4 \in 1..5 /\ 5 \in 1..5
    OBVIOUS
  <1>4. AllFine(all, 5) <=> a = Fine /\ b = Fine /\ c = Fine /\ d = Fine /\ e = Fine
    BY <1>1, <1>2, <1>3 DEF AllFine
  <1>5. \A k \in 1..5 : OfKind(all[k], OfAny) /\ (k # 1 => OfKind(all[k], OfAgent))
    BY <1>1, <1>2 DEF OfKind, OfAgent, OfAny
  <1>6. GoodChecks(all, 5)
    BY <1>1, <1>5, InfrastructureFirst
  <1> QED BY <1>4, <1>6 DEF all

LEMMA Turn1Keeps ==
  ASSUME ProbeInv, NEW end \in Statuses, NEW events \in Events1, Turn1(end, events)
  PROVE  ProbeInv'
  <1> DEFINE checks ==
        <<Infra(end \in ProviderErrors, end),
          Fail(end # "COMPLETED", "TURN1_NOT_COMPLETED"),
          Fail(Refused(events), "UNEXPECTED_COMMAND"),
          Fail(~Primary1(events), "PRIMARY_TOOL_POLICY_FAILED")>>
  <1>1. /\ stage = "turn1" /\ UNCHANGED <<opened, closes, report>>
        /\ seen' = [seen EXCEPT !.statuses = <<end>>, !.ideal1 = YesNo(Ideal1(events))]
        /\ Judge(checks, "files1")
    BY DEF Turn1, SessionRest
  <1>2. YesNo(Ideal1(events)) \in {"yes", "no"}
    BY DEF YesNo
  <1>3. GoodChecks(checks, 4) /\ (AllFine(checks, 4) => end = "COMPLETED")
    <2>1. OfKind(Infra(end \in ProviderErrors, end), OfAny)
      BY DEF OfKind, Infra, OfAny, Fine, ProviderErrors
    <2>2. /\ OfKind(Fail(end # "COMPLETED", "TURN1_NOT_COMPLETED"), OfAgent)
          /\ Fail(end # "COMPLETED", "TURN1_NOT_COMPLETED") = Fine => end = "COMPLETED"
      BY DEF OfKind, Fail, OfAgent, Fine
    <2>3. OfKind(Fail(Refused(events), "UNEXPECTED_COMMAND"), OfAgent)
      BY DEF OfKind, Fail, OfAgent, Fine
    <2>4. OfKind(Fail(~Primary1(events), "PRIMARY_TOOL_POLICY_FAILED"), OfAgent)
      BY DEF OfKind, Fail, OfAgent, Fine
    <2> QED BY <2>1, <2>2, <2>3, <2>4, Checks4
  <1> HIDE DEF checks
  <1>4. <<end>> \in Seq(Statuses)
    OBVIOUS
  <1>5. seen \in EvidenceSoFar /\ SeenSoFar
    BY DEF ProbeInv
  <1>6. seen' \in EvidenceSoFar
    BY <1>1, <1>2, <1>4, <1>5 DEF EvidenceSoFar, AnswerYet
  <1>8. seen'.statuses = <<end>> /\ seen'.ideal1 \in {"yes", "no"}
    BY <1>1, <1>2, <1>5 DEF EvidenceSoFar
  <1>9. /\ seen'.ideal2 = seen.ideal2 /\ seen'.ideal = seen.ideal /\ seen'.baseline = seen.baseline
        /\ seen'.closes = seen.closes /\ seen'.residual = seen.residual
    BY <1>1, <1>5 DEF EvidenceSoFar
  <1>10. seen.ideal2 = "null" /\ opened = "open" /\ seen.baseline = "yes" /\ seen.closes = 0
    BY <1>1, <1>5 DEF SeenSoFar, Through, Judging, FromTurn1, FromFiles1, FromTests1,
       FromAgain1, FromTurn2, FromTests2, FromAgain2, FromUndo, FromReset, FromArtifacts
  <1>11. stage \in Judging /\ "files1" \in Judging
    BY <1>1 DEF SeenSoFar, Through, Judging, FromTurn1, FromFiles1, FromTests1, FromAgain1,
       FromTurn2, FromTests2, FromAgain2, FromUndo, FromReset, FromArtifacts
  <1>12. IdealIsBoth(seen')
    BY <1>8, <1>9, <1>10 DEF ProbeInv, IdealIsBoth
  <1>13. AllFine(checks, 4) /\ stage' = "files1" => SeenSoFar'
    BY <1>1, <1>3, <1>8, <1>9, <1>10 DEF SeenSoFar, Through, Judging, FromTurn1, FromFiles1,
       FromTests1, FromAgain1, FromTurn2, FromTests2, FromAgain2, FromUndo, FromReset,
       FromArtifacts
  <1> QED BY <1>1, <1>3, <1>6, <1>9, <1>10, <1>11, <1>12, <1>13, AfterChecks

LEMMA Files1Keeps ==
  ASSUME ProbeInv, NEW paths \in SUBSET {"target", "other"},
         NEW there \in BOOLEAN, NEW links \in BOOLEAN, NEW extra \in BOOLEAN,
         Files1(paths, there, links, extra)
  PROVE  ProbeInv'
  <1> DEFINE checks ==
        <<Fail(links, "WORKSPACE_MANIFEST_CHANGED"),
          Fail(paths # {"target"}, "TURN1_CHANGE_SCOPE"),
          Fail(~there \/ extra, "WORKSPACE_MANIFEST_CHANGED")>>
  <1>1. /\ stage = "files1" /\ UNCHANGED <<opened, closes, report>>
        /\ seen' = [seen EXCEPT !.changed = paths, !.hash1 = IF there THEN "changed" ELSE "null"]
        /\ Judge(checks, "tests1")
    BY DEF Files1, SessionRest
  <1>2. GoodChecks(checks, 3) /\ (AllFine(checks, 3) => paths = {"target"} /\ there)
    <2>1. OfKind(Fail(links, "WORKSPACE_MANIFEST_CHANGED"), OfAny)
      BY DEF OfKind, Fail, OfAny, Fine
    <2>2. /\ OfKind(Fail(paths # {"target"}, "TURN1_CHANGE_SCOPE"), OfAgent)
          /\ Fail(paths # {"target"}, "TURN1_CHANGE_SCOPE") = Fine => paths = {"target"}
      BY DEF OfKind, Fail, OfAgent, Fine
    <2>3. /\ OfKind(Fail(~there \/ extra, "WORKSPACE_MANIFEST_CHANGED"), OfAgent)
          /\ Fail(~there \/ extra, "WORKSPACE_MANIFEST_CHANGED") = Fine => there
      BY DEF OfKind, Fail, OfAgent, Fine
    <2> QED BY <2>1, <2>2, <2>3, Checks3
  <1> HIDE DEF checks
  <1>3. seen \in EvidenceSoFar /\ SeenSoFar
    BY DEF ProbeInv
  <1>5. seen' \in EvidenceSoFar
    BY <1>1, <1>3 DEF EvidenceSoFar
  <1>6. seen'.changed = paths /\ (there => seen'.hash1 # "null")
    BY <1>1, <1>3 DEF EvidenceSoFar
  <1>7. /\ seen'.statuses = seen.statuses /\ seen'.ideal1 = seen.ideal1
        /\ seen'.ideal2 = seen.ideal2 /\ seen'.ideal = seen.ideal /\ seen'.exact = seen.exact
        /\ seen'.tests1 = seen.tests1 /\ seen'.tests2 = seen.tests2
        /\ seen'.undone = seen.undone /\ seen'.depth = seen.depth /\ seen'.hash2 = seen.hash2
        /\ seen'.reset = seen.reset /\ seen'.artifacts = seen.artifacts
        /\ seen'.baseline = seen.baseline /\ seen'.residual = seen.residual
        /\ seen'.idempotent = seen.idempotent /\ seen'.closes = seen.closes
    BY <1>1, <1>3 DEF EvidenceSoFar
  <1>8. opened = "open" /\ seen.baseline = "yes" /\ seen.closes = 0
    BY <1>1, <1>3 DEF SeenSoFar, Through, Judging, FromTurn1, FromFiles1, FromTests1,
       FromAgain1, FromTurn2, FromTests2, FromAgain2, FromUndo, FromReset, FromArtifacts
  <1>9. stage \in Judging /\ "tests1" \in Judging
    BY <1>1 DEF SeenSoFar, Through, Judging, FromTurn1, FromFiles1, FromTests1, FromAgain1,
       FromTurn2, FromTests2, FromAgain2, FromUndo, FromReset, FromArtifacts
  <1>10. IdealIsBoth(seen')
    BY <1>7 DEF ProbeInv, IdealIsBoth
  <1>11. AllFine(checks, 3) /\ stage' = "tests1" => SeenSoFar'
    BY <1>1, <1>2, <1>3, <1>6, <1>7, <1>8 DEF SeenSoFar, Through, Judging, FromTurn1,
       FromFiles1, FromTests1, FromAgain1, FromTurn2, FromTests2, FromAgain2, FromUndo,
       FromReset, FromArtifacts
  <1> QED BY <1>1, <1>2, <1>5, <1>7, <1>8, <1>9, <1>10, <1>11, AfterChecks

LEMMA Tests1Keeps ==
  ASSUME ProbeInv, NEW tests \in TestOutcomes, Tests1(tests)
  PROVE  ProbeInv'
  <1> DEFINE checks ==
        <<Infra(tests \in {"broken", "timeout"}, "PROCESS_FAILURE"),
          Fail(tests = "other", "TURN1_TESTS_FAILED")>>
  <1>1. /\ stage = "tests1" /\ UNCHANGED <<opened, closes, report>>
        /\ seen' = [seen EXCEPT !.tests1 = TestCode(tests)]
        /\ Judge(checks, "again1")
    BY DEF Tests1, TestChecks, SessionRest
  <1>2. GoodChecks(checks, 2) /\ (AllFine(checks, 2) => tests = "zero")
    <2>1. OfKind(Infra(tests \in {"broken", "timeout"}, "PROCESS_FAILURE"), OfAny)
      BY DEF OfKind, Infra, OfAny, Fine
    <2>2. OfKind(Fail(tests = "other", "TURN1_TESTS_FAILED"), OfAgent)
      BY DEF OfKind, Fail, OfAgent, Fine
    <2>3. /\ Infra(tests \in {"broken", "timeout"}, "PROCESS_FAILURE") = Fine =>
               tests \notin {"broken", "timeout"}
          /\ Fail(tests = "other", "TURN1_TESTS_FAILED") = Fine => tests # "other"
      BY DEF Infra, Fail, Fine
    <2> QED BY <2>1, <2>2, <2>3, Checks2 DEF TestOutcomes
  <1> HIDE DEF checks
  <1>3. seen \in EvidenceSoFar /\ SeenSoFar
    BY DEF ProbeInv
  <1>4. TestCode(tests) \in {"null", "other", "zero"}
        /\ (tests = "zero" => TestCode(tests) = "zero")
    BY DEF TestCode, TestOutcomes
  <1>5. seen' \in EvidenceSoFar
    BY <1>1, <1>3, <1>4 DEF EvidenceSoFar
  <1>6. seen'.tests1 = TestCode(tests)
    BY <1>1, <1>3, <1>4 DEF EvidenceSoFar
  <1>7. /\ seen'.statuses = seen.statuses /\ seen'.ideal1 = seen.ideal1
        /\ seen'.ideal2 = seen.ideal2 /\ seen'.ideal = seen.ideal /\ seen'.exact = seen.exact
        /\ seen'.changed = seen.changed /\ seen'.hash1 = seen.hash1
        /\ seen'.tests2 = seen.tests2 /\ seen'.undone = seen.undone /\ seen'.depth = seen.depth
        /\ seen'.hash2 = seen.hash2 /\ seen'.reset = seen.reset
        /\ seen'.artifacts = seen.artifacts /\ seen'.baseline = seen.baseline
        /\ seen'.residual = seen.residual /\ seen'.idempotent = seen.idempotent
        /\ seen'.closes = seen.closes
    BY <1>1, <1>3 DEF EvidenceSoFar
  <1>8. opened = "open" /\ seen.baseline = "yes" /\ seen.closes = 0
    BY <1>1, <1>3 DEF SeenSoFar, Through, Judging, FromTurn1, FromFiles1, FromTests1,
       FromAgain1, FromTurn2, FromTests2, FromAgain2, FromUndo, FromReset, FromArtifacts
  <1>9. stage \in Judging /\ "again1" \in Judging
    BY <1>1 DEF SeenSoFar, Through, Judging, FromTurn1, FromFiles1, FromTests1, FromAgain1,
       FromTurn2, FromTests2, FromAgain2, FromUndo, FromReset, FromArtifacts
  <1>10. IdealIsBoth(seen')
    BY <1>7 DEF ProbeInv, IdealIsBoth
  <1>11. AllFine(checks, 2) /\ stage' = "again1" => SeenSoFar'
    BY <1>1, <1>2, <1>3, <1>4, <1>6, <1>7, <1>8 DEF SeenSoFar, Through, Judging, FromTurn1,
       FromFiles1, FromTests1, FromAgain1, FromTurn2, FromTests2, FromAgain2, FromUndo,
       FromReset, FromArtifacts
  <1> QED BY <1>1, <1>2, <1>5, <1>7, <1>8, <1>9, <1>10, <1>11, AfterChecks

LEMMA Tests2Keeps ==
  ASSUME ProbeInv, NEW tests \in TestOutcomes, Tests2(tests)
  PROVE  ProbeInv'
  <1> DEFINE checks ==
        <<Infra(tests \in {"broken", "timeout"}, "PROCESS_FAILURE"),
          Fail(tests = "other", "TURN2_TESTS_FAILED")>>
  <1>1. /\ stage = "tests2" /\ UNCHANGED <<opened, closes, report>>
        /\ seen' = [seen EXCEPT !.tests2 = TestCode(tests)]
        /\ Judge(checks, "again2")
    BY DEF Tests2, TestChecks, SessionRest
  <1>2. GoodChecks(checks, 2) /\ (AllFine(checks, 2) => tests = "zero")
    <2>1. OfKind(Infra(tests \in {"broken", "timeout"}, "PROCESS_FAILURE"), OfAny)
      BY DEF OfKind, Infra, OfAny, Fine
    <2>2. OfKind(Fail(tests = "other", "TURN2_TESTS_FAILED"), OfAgent)
      BY DEF OfKind, Fail, OfAgent, Fine
    <2>3. /\ Infra(tests \in {"broken", "timeout"}, "PROCESS_FAILURE") = Fine =>
               tests \notin {"broken", "timeout"}
          /\ Fail(tests = "other", "TURN2_TESTS_FAILED") = Fine => tests # "other"
      BY DEF Infra, Fail, Fine
    <2> QED BY <2>1, <2>2, <2>3, Checks2 DEF TestOutcomes
  <1> HIDE DEF checks
  <1>3. seen \in EvidenceSoFar /\ SeenSoFar
    BY DEF ProbeInv
  <1>4. TestCode(tests) \in {"null", "other", "zero"}
        /\ (tests = "zero" => TestCode(tests) = "zero")
    BY DEF TestCode, TestOutcomes
  <1>5. seen' \in EvidenceSoFar
    BY <1>1, <1>3, <1>4 DEF EvidenceSoFar
  <1>6. seen'.tests2 = TestCode(tests)
    BY <1>1, <1>3, <1>4 DEF EvidenceSoFar
  <1>7. /\ seen'.statuses = seen.statuses /\ seen'.ideal1 = seen.ideal1
        /\ seen'.ideal2 = seen.ideal2 /\ seen'.ideal = seen.ideal /\ seen'.exact = seen.exact
        /\ seen'.changed = seen.changed /\ seen'.hash1 = seen.hash1
        /\ seen'.tests1 = seen.tests1 /\ seen'.undone = seen.undone /\ seen'.depth = seen.depth
        /\ seen'.hash2 = seen.hash2 /\ seen'.reset = seen.reset
        /\ seen'.artifacts = seen.artifacts /\ seen'.baseline = seen.baseline
        /\ seen'.residual = seen.residual /\ seen'.idempotent = seen.idempotent
        /\ seen'.closes = seen.closes
    BY <1>1, <1>3 DEF EvidenceSoFar
  <1>8. opened = "open" /\ seen.baseline = "yes" /\ seen.closes = 0
    BY <1>1, <1>3 DEF SeenSoFar, Through, Judging, FromTurn1, FromFiles1, FromTests1,
       FromAgain1, FromTurn2, FromTests2, FromAgain2, FromUndo, FromReset, FromArtifacts
  <1>9. stage \in Judging /\ "again2" \in Judging
    BY <1>1 DEF SeenSoFar, Through, Judging, FromTurn1, FromFiles1, FromTests1, FromAgain1,
       FromTurn2, FromTests2, FromAgain2, FromUndo, FromReset, FromArtifacts
  <1>10. IdealIsBoth(seen')
    BY <1>7 DEF ProbeInv, IdealIsBoth
  <1>11. AllFine(checks, 2) /\ stage' = "again2" => SeenSoFar'
    BY <1>1, <1>2, <1>3, <1>4, <1>6, <1>7, <1>8 DEF SeenSoFar, Through, Judging, FromTurn1,
       FromFiles1, FromTests1, FromAgain1, FromTurn2, FromTests2, FromAgain2, FromUndo,
       FromReset, FromArtifacts
  <1> QED BY <1>1, <1>2, <1>5, <1>7, <1>8, <1>9, <1>10, <1>11, AfterChecks

LEMMA AgainKeeps ==
  ASSUME ProbeInv, NEW tampered \in BOOLEAN, NEW before, NEW next,
         \/ before = "again1" /\ next = "turn2"
         \/ before = "files2" /\ next = "tests2"
         \/ before = "again2" /\ next = "undo",
         Again(before, tampered, next)
  PROVE  ProbeInv'
  <1> DEFINE checks == <<Fail(tampered, "WORKSPACE_MANIFEST_CHANGED")>>
  <1>1. /\ stage = before /\ UNCHANGED <<opened, closes, report, seen>>
        /\ Judge(checks, next)
    BY DEF Again, SessionRest
  <1>2. GoodChecks(checks, 1)
    <2>1. OfKind(Fail(tampered, "WORKSPACE_MANIFEST_CHANGED"), OfAny)
      BY DEF OfKind, Fail, OfAny, Fine
    <2> QED BY <2>1, Checks1
  <1> HIDE DEF checks
  <1>3. seen \in EvidenceSoFar /\ SeenSoFar /\ IdealIsBoth(seen)
    BY DEF ProbeInv
  <1>4. IdealIsBoth(seen')
    BY <1>1, <1>3
  <1>5. seen.closes = 0 /\ stage \in Judging /\ next \in Judging
    BY <1>1, <1>3 DEF SeenSoFar, Through, Judging, FromTurn1, FromFiles1, FromTests1,
       FromAgain1, FromTurn2, FromTests2, FromAgain2, FromUndo, FromReset, FromArtifacts
  <1>6. stage' = next => SeenSoFar'
    BY <1>1, <1>3 DEF SeenSoFar, Through, Judging, FromTurn1, FromFiles1, FromTests1,
       FromAgain1, FromTurn2, FromTests2, FromAgain2, FromUndo, FromReset, FromArtifacts
  <1> QED BY <1>1, <1>2, <1>3, <1>4, <1>5, <1>6, AfterChecks

LEMMA AppendToOne ==
  ASSUME NEW S, NEW c \in S
  PROVE  Append(<<c>>, c) = <<c, c>>
  <1> DEFINE one == <<c>>
             two == <<c, c>>
             all == Append(one, c)
  <1>1. one \in Seq(S)
    OBVIOUS
  <1>2. Len(one) = 1
    OBVIOUS
  <1>3. two \in Seq(S)
    OBVIOUS
  <1>4. Len(two) = 2
    OBVIOUS
  <1>5. two[1] = c /\ two[2] = c /\ one[1] = c
    OBVIOUS
  <1> HIDE DEF one, two
  <1>6. all \in Seq(S) /\ Len(all) = 2
    BY <1>1, <1>2
  <1>7. all[1] = c /\ all[2] = c
    <2>1. 1 \in 1..Len(one) /\ Len(one) + 1 = 2
      BY <1>2
    <2>2. Append(one, c)[1] = one[1]
      BY <1>1, <2>1, AppendProperties
    <2>3. Append(one, c)[Len(one) + 1] = c
      BY <1>1, AppendProperties
    <2> QED BY <1>5, <2>1, <2>2, <2>3
  <1>8. \A i \in 1..2 : i = 1 \/ i = 2
    OBVIOUS
  <1>9. \A i \in 1..2 : all[i] = two[i]
    BY <1>5, <1>7, <1>8
  <1> HIDE DEF all
  <1>10. all = two
    BY <1>3, <1>4, <1>6, <1>9, SeqEqual
  <1> QED BY <1>10 DEF all, one, two
LEMMA EvidenceOfTurn2 ==
  ASSUME NEW e \in EvidenceSoFar, NEW statuses \in Seq(Statuses), NEW ideal2 \in AnswerYet,
         NEW ideal \in AnswerYet, NEW answer \in AnswerYet
  PROVE  [e EXCEPT !.statuses = statuses, !.ideal2 = ideal2, !.ideal = ideal, !.exact = answer]
           \in EvidenceSoFar
  BY DEF EvidenceSoFar

LEMMA AnswerIsKnown ==
  ASSUME NEW end, NEW exact \in BOOLEAN, NEW answer,
         answer = IF end \in ProviderErrors \cup {"COMPLETED"} THEN YesNo(exact) ELSE "null"
  PROVE  answer \in {"yes", "no", "null"} /\ (end = "COMPLETED" /\ exact => answer = "yes")
  <1>1. CASE exact = TRUE
    <2>1. YesNo(exact) = "yes"
      BY <1>1, Zenon DEF YesNo
    <2> HIDE DEF YesNo
    <2> QED BY <2>1, Zenon
  <1>2. CASE exact = FALSE
    <2>1. YesNo(exact) = "no"
      BY <1>2, Zenon DEF YesNo
    <2> QED BY <2>1, <1>2, Zenon
  <1> QED BY <1>1, <1>2, Zenon

LEMMA Turn2Keeps ==
  ASSUME ProbeInv, NEW end \in Statuses, NEW events \in Events2, NEW exact \in BOOLEAN,
         Turn2(end, events, exact)
  PROVE  ProbeInv'
  <1> DEFINE checks ==
        <<Infra(end \in ProviderErrors, end),
          Fail(end # "COMPLETED", "TURN2_NOT_COMPLETED"),
          Fail(Refused(events), "UNEXPECTED_COMMAND"),
          Fail(~exact, "TURN2_EXACT_VALUE_MISSING"),
          Fail(~Primary2(events), "PRIMARY_TOOL_POLICY_FAILED")>>
             statuses == Append(seen.statuses, end)
             ideal2 == YesNo(Ideal2(events))
             ideal == YesNo(seen.ideal1 = "yes" /\ ideal2 = "yes")
             answer == IF end \in ProviderErrors \cup {"COMPLETED"} THEN YesNo(exact) ELSE "null"
  <1>1. /\ stage = "turn2" /\ UNCHANGED <<opened, closes, report>>
        /\ seen' = [seen EXCEPT !.statuses = statuses, !.ideal2 = ideal2, !.ideal = ideal,
                                !.exact = answer]
        /\ Judge(checks, "files2")
    BY DEF Turn2, SessionRest
  <1>2. GoodChecks(checks, 5) /\ (AllFine(checks, 5) => end = "COMPLETED" /\ exact)
    <2>1. OfKind(Infra(end \in ProviderErrors, end), OfAny)
      BY DEF OfKind, Infra, OfAny, Fine, ProviderErrors
    <2>2. /\ OfKind(Fail(end # "COMPLETED", "TURN2_NOT_COMPLETED"), OfAgent)
          /\ Fail(end # "COMPLETED", "TURN2_NOT_COMPLETED") = Fine => end = "COMPLETED"
      BY DEF OfKind, Fail, OfAgent, Fine
    <2>3. OfKind(Fail(Refused(events), "UNEXPECTED_COMMAND"), OfAgent)
      BY DEF OfKind, Fail, OfAgent, Fine
    <2>4. /\ OfKind(Fail(~exact, "TURN2_EXACT_VALUE_MISSING"), OfAgent)
          /\ Fail(~exact, "TURN2_EXACT_VALUE_MISSING") = Fine => exact
      BY DEF OfKind, Fail, OfAgent, Fine
    <2>5. OfKind(Fail(~Primary2(events), "PRIMARY_TOOL_POLICY_FAILED"), OfAgent)
      BY DEF OfKind, Fail, OfAgent, Fine
    <2> QED BY <2>1, <2>2, <2>3, <2>4, <2>5, Checks5
  <1>3. seen \in EvidenceSoFar /\ SeenSoFar
    BY DEF ProbeInv
  <1>4. /\ statuses \in Seq(Statuses)
        /\ seen.statuses = <<"COMPLETED">> /\ end = "COMPLETED" =>
             statuses = <<"COMPLETED", "COMPLETED">>
    <2>1. statuses \in Seq(Statuses)
      BY <1>3 DEF EvidenceSoFar
    <2>2. Append(<<"COMPLETED">>, "COMPLETED") = <<"COMPLETED", "COMPLETED">>
      BY AppendToOne
    <2> QED BY <2>1, <2>2
  <1>5. /\ ideal2 \in {"yes", "no"} /\ ideal \in {"yes", "no"}
        /\ ideal = YesNo(seen.ideal1 = "yes" /\ ideal2 = "yes")
    BY DEF YesNo
  <1>6. answer \in AnswerYet /\ (end = "COMPLETED" /\ exact => answer = "yes")
    BY AnswerIsKnown DEF AnswerYet
  <1> HIDE DEF checks, statuses, ideal2, ideal, answer
  <1>7. seen' \in EvidenceSoFar
    <2>1. ideal2 \in AnswerYet /\ ideal \in AnswerYet
      BY <1>5 DEF AnswerYet
    <2> QED BY <1>1, <1>3, <1>4, <1>6, <2>1, EvidenceOfTurn2
  <1>8. /\ seen'.statuses = statuses /\ seen'.ideal2 = ideal2 /\ seen'.ideal = ideal
        /\ seen'.exact = answer
    BY <1>1, <1>3 DEF EvidenceSoFar
  <1>9. /\ seen'.ideal1 = seen.ideal1 /\ seen'.changed = seen.changed
        /\ seen'.hash1 = seen.hash1 /\ seen'.tests1 = seen.tests1 /\ seen'.tests2 = seen.tests2
        /\ seen'.undone = seen.undone /\ seen'.depth = seen.depth /\ seen'.hash2 = seen.hash2
        /\ seen'.reset = seen.reset /\ seen'.artifacts = seen.artifacts
        /\ seen'.baseline = seen.baseline /\ seen'.residual = seen.residual
        /\ seen'.idempotent = seen.idempotent /\ seen'.closes = seen.closes
    BY <1>1, <1>3 DEF EvidenceSoFar
  <1>10. /\ opened = "open" /\ seen.baseline = "yes" /\ seen.closes = 0
        /\ seen.ideal1 # "null" /\ seen.statuses = <<"COMPLETED">>
    BY <1>1, <1>3 DEF SeenSoFar, Through, Judging, FromTurn1, FromFiles1, FromTests1,
       FromAgain1, FromTurn2, FromTests2, FromAgain2, FromUndo, FromReset, FromArtifacts
  <1>11. stage \in Judging /\ "files2" \in Judging
    BY <1>1 DEF SeenSoFar, Through, Judging, FromTurn1, FromFiles1, FromTests1, FromAgain1,
       FromTurn2, FromTests2, FromAgain2, FromUndo, FromReset, FromArtifacts
  <1>12. IdealIsBoth(seen')
    BY <1>8, <1>9, <1>10, <1>5 DEF ProbeInv, IdealIsBoth
  <1>13. AllFine(checks, 5) /\ stage' = "files2" => SeenSoFar'
    BY <1>1, <1>2, <1>3, <1>4, <1>8, <1>9, <1>10, <1>5, <1>6 DEF SeenSoFar, Through, Judging,
       FromTurn1, FromFiles1, FromTests1, FromAgain1, FromTurn2, FromTests2, FromAgain2,
       FromUndo, FromReset, FromArtifacts
  <1> QED BY <1>1, <1>2, <1>7, <1>9, <1>10, <1>11, <1>12, <1>13, AfterChecks

LEMMA UndoKeeps ==
  ASSUME ProbeInv, NEW ok \in BOOLEAN, NEW depth \in 0..1,
         NEW hash \in {"initial", "other", "null"},
         Undo(ok, depth, hash)
  PROVE  ProbeInv'
  <1> DEFINE checks ==
        <<Fail(~Restored(ok, depth, hash), "UNDO_NOT_RESTORED")>>
  <1>1. /\ stage = "undo" /\ UNCHANGED <<opened, closes, report>>
        /\ seen' = [seen EXCEPT !.undone = YesNo(ok), !.depth = depth, !.hash2 = hash]
        /\ Judge(checks, "reset")
    BY DEF Undo, SessionRest
  <1>2. GoodChecks(checks, 1) /\ (AllFine(checks, 1) => ok /\ depth = 0 /\ hash = "initial")
    <2>1. /\ OfKind(Fail(~Restored(ok, depth, hash), "UNDO_NOT_RESTORED"), OfAny)
          /\ Fail(~Restored(ok, depth, hash), "UNDO_NOT_RESTORED") = Fine =>
               ok /\ depth = 0 /\ hash = "initial"
      BY DEF OfKind, Fail, OfAny, Fine, Restored
    <2> QED BY <2>1, Checks1
  <1> HIDE DEF checks
  <1>3. seen \in EvidenceSoFar /\ SeenSoFar
    BY DEF ProbeInv
  <1>5. seen' \in EvidenceSoFar
    BY <1>1, <1>3, ZenonT(60) DEF EvidenceSoFar, YesNo
  <1>6. /\ ok => seen'.undone = "yes"
        /\ seen'.depth = depth /\ seen'.hash2 = hash
    BY <1>1, <1>3 DEF EvidenceSoFar, YesNo
  <1>7. /\ seen'.statuses = seen.statuses /\ seen'.ideal1 = seen.ideal1
        /\ seen'.ideal2 = seen.ideal2 /\ seen'.ideal = seen.ideal /\ seen'.exact = seen.exact
        /\ seen'.changed = seen.changed /\ seen'.hash1 = seen.hash1
        /\ seen'.tests1 = seen.tests1 /\ seen'.tests2 = seen.tests2 /\ seen'.reset = seen.reset
        /\ seen'.artifacts = seen.artifacts /\ seen'.baseline = seen.baseline
        /\ seen'.residual = seen.residual /\ seen'.idempotent = seen.idempotent
        /\ seen'.closes = seen.closes
    BY <1>1, <1>3 DEF EvidenceSoFar
  <1>8. opened = "open" /\ seen.baseline = "yes" /\ seen.closes = 0
    BY <1>1, <1>3 DEF SeenSoFar, Through, Judging, FromTurn1, FromFiles1, FromTests1,
       FromAgain1, FromTurn2, FromTests2, FromAgain2, FromUndo, FromReset, FromArtifacts
  <1>9. stage \in Judging /\ "reset" \in Judging
    BY <1>1 DEF SeenSoFar, Through, Judging, FromTurn1, FromFiles1, FromTests1, FromAgain1,
       FromTurn2, FromTests2, FromAgain2, FromUndo, FromReset, FromArtifacts
  <1>10. IdealIsBoth(seen')
    BY <1>7 DEF ProbeInv, IdealIsBoth
  <1>11. AllFine(checks, 1) /\ stage' = "reset" => SeenSoFar'
    BY <1>1, <1>2, <1>3, <1>6, <1>7, <1>8 DEF SeenSoFar, Through, Judging, FromTurn1,
       FromFiles1, FromTests1, FromAgain1, FromTurn2, FromTests2, FromAgain2, FromUndo,
       FromReset, FromArtifacts
  <1> QED BY <1>1, <1>2, <1>5, <1>7, <1>8, <1>9, <1>10, <1>11, AfterChecks

LEMMA ResetKeeps ==
  ASSUME ProbeInv, NEW state \in {"clean", "dirty", "null"}, ResetSession(state)
  PROVE  ProbeInv'
  <1> DEFINE checks ==
        <<Infra(state = "null", "RESET_OBSERVABILITY_UNAVAILABLE"),
          Fail(state = "dirty", "RESET_NOT_CLEAN")>>
  <1>1. /\ stage = "reset" /\ UNCHANGED <<opened, closes, report>>
        /\ seen' = [seen EXCEPT !.reset = state]
        /\ Judge(checks, "artifacts")
    BY DEF ResetSession, SessionRest
  <1>2. GoodChecks(checks, 2) /\ (AllFine(checks, 2) => state = "clean")
    <2>1. OfKind(Infra(state = "null", "RESET_OBSERVABILITY_UNAVAILABLE"), OfAny)
      BY DEF OfKind, Infra, OfAny, Fine
    <2>2. OfKind(Fail(state = "dirty", "RESET_NOT_CLEAN"), OfAgent)
      BY DEF OfKind, Fail, OfAgent, Fine
    <2>3. /\ Infra(state = "null", "RESET_OBSERVABILITY_UNAVAILABLE") = Fine => state # "null"
          /\ Fail(state = "dirty", "RESET_NOT_CLEAN") = Fine => state # "dirty"
      BY DEF Infra, Fail, Fine
    <2> QED BY <2>1, <2>2, <2>3, Checks2
  <1> HIDE DEF checks
  <1>3. seen \in EvidenceSoFar /\ SeenSoFar
    BY DEF ProbeInv
  <1>5. seen' \in EvidenceSoFar
    BY <1>1, <1>3 DEF EvidenceSoFar
  <1>6. seen'.reset = state
    BY <1>1, <1>3 DEF EvidenceSoFar
  <1>7. /\ seen'.statuses = seen.statuses /\ seen'.ideal1 = seen.ideal1
        /\ seen'.ideal2 = seen.ideal2 /\ seen'.ideal = seen.ideal /\ seen'.exact = seen.exact
        /\ seen'.changed = seen.changed /\ seen'.hash1 = seen.hash1
        /\ seen'.tests1 = seen.tests1 /\ seen'.tests2 = seen.tests2
        /\ seen'.undone = seen.undone /\ seen'.depth = seen.depth /\ seen'.hash2 = seen.hash2
        /\ seen'.artifacts = seen.artifacts /\ seen'.baseline = seen.baseline
        /\ seen'.residual = seen.residual /\ seen'.idempotent = seen.idempotent
        /\ seen'.closes = seen.closes
    BY <1>1, <1>3 DEF EvidenceSoFar
  <1>8. opened = "open" /\ seen.baseline = "yes" /\ seen.closes = 0
    BY <1>1, <1>3 DEF SeenSoFar, Through, Judging, FromTurn1, FromFiles1, FromTests1,
       FromAgain1, FromTurn2, FromTests2, FromAgain2, FromUndo, FromReset, FromArtifacts
  <1>9. stage \in Judging /\ "artifacts" \in Judging
    BY <1>1 DEF SeenSoFar, Through, Judging, FromTurn1, FromFiles1, FromTests1, FromAgain1,
       FromTurn2, FromTests2, FromAgain2, FromUndo, FromReset, FromArtifacts
  <1>10. IdealIsBoth(seen')
    BY <1>7 DEF ProbeInv, IdealIsBoth
  <1>11. AllFine(checks, 2) /\ stage' = "artifacts" => SeenSoFar'
    BY <1>1, <1>2, <1>3, <1>6, <1>7, <1>8 DEF SeenSoFar, Through, Judging, FromTurn1,
       FromFiles1, FromTests1, FromAgain1, FromTurn2, FromTests2, FromAgain2, FromUndo,
       FromReset, FromArtifacts
  <1> QED BY <1>1, <1>2, <1>5, <1>7, <1>8, <1>9, <1>10, <1>11, AfterChecks

LEMMA OpenKeeps ==
  ASSUME ProbeInv, NEW listed \in BOOLEAN, NEW observable \in BOOLEAN, Open(listed, observable)
  PROVE  ProbeInv'
  <1> DEFINE checks ==
        <<Infra(~listed, "SUBPROCESS_SCAN_FAILED"),
          Infra(~observable, "OWNED_CLIENT_OBSERVABILITY_UNAVAILABLE")>>
  <1>1. /\ stage = "copy" /\ UNCHANGED <<closes, report>>
        /\ seen' = [seen EXCEPT !.baseline = YesNo(listed),
                                !.closes = IF listed /\ observable THEN 0 ELSE -1]
        /\ opened' = IF listed THEN "open" ELSE opened
        /\ Judge(checks, "turn1")
    BY DEF Open
  <1>2. GoodChecks(checks, 2) /\ (AllFine(checks, 2) => listed /\ observable)
    <2>1. /\ DOMAIN checks = 1..2
          /\ checks[1] = Infra(~listed, "SUBPROCESS_SCAN_FAILED")
          /\ checks[2] = Infra(~observable, "OWNED_CLIENT_OBSERVABILITY_UNAVAILABLE")
      OBVIOUS
    <2>2. /\ checks[1] # Fine => checks[1][1] = "INVALID_INFRA" /\ checks[1][2] # ""
          /\ checks[2] # Fine => checks[2][1] = "INVALID_INFRA" /\ checks[2][2] # ""
          /\ checks[1] = Fine => listed
          /\ checks[2] = Fine => observable
      BY <2>1 DEF Infra, Fine
    <2> HIDE DEF checks
    <2>3. 1 \in 1..2 /\ 2 \in 1..2 /\ \A k \in 1..2 : k = 1 \/ k = 2
      OBVIOUS
    <2>4. AllFine(checks, 2) => listed /\ observable
      BY <2>2, <2>3 DEF AllFine
    <2>5. \A k \in 1..2 : checks[k] # Fine => checks[k][1] = "INVALID_INFRA" /\ checks[k][2] # ""
      BY <2>2, <2>3
    <2> QED BY <2>1, <2>4, <2>5 DEF GoodChecks
  <1> HIDE DEF checks
  <1>3. seen \in EvidenceSoFar /\ SeenSoFar
    BY DEF ProbeInv
  <1>4. YesNo(listed) \in {"yes", "no"} /\ (listed => YesNo(listed) = "yes")
    BY DEF YesNo
  <1>5. /\ seen' \in EvidenceSoFar /\ seen'.baseline = YesNo(listed)
        /\ seen'.closes \in {-1, 0} /\ (listed /\ observable => seen'.closes = 0)
    <2> DEFINE count == IF listed /\ observable THEN 0 ELSE -1
    <2>1. count \in -1..1 /\ count \in {-1, 0} /\ (listed /\ observable => count = 0)
      OBVIOUS
    <2>2. seen' = [seen EXCEPT !.baseline = YesNo(listed), !.closes = count]
      BY <1>1
    <2> HIDE DEF count
    <2> QED BY <1>3, <1>4, <2>1, <2>2 DEF EvidenceSoFar
  <1>6. /\ seen'.ideal1 = seen.ideal1 /\ seen'.ideal2 = seen.ideal2 /\ seen'.ideal = seen.ideal
        /\ seen'.residual = seen.residual
    BY <1>1, <1>3 DEF EvidenceSoFar
  <1>7. stage \in Judging /\ "turn1" \in Judging /\ opened' \in {opened, "open"}
    BY <1>1 DEF SeenSoFar, Through, Judging, FromTurn1, FromFiles1, FromTests1, FromAgain1,
       FromTurn2, FromTests2, FromAgain2, FromUndo, FromReset, FromArtifacts
  <1>8. IdealIsBoth(seen')
    BY <1>6 DEF ProbeInv, IdealIsBoth
  <1>9. AllFine(checks, 2) /\ stage' = "turn1" => SeenSoFar'
    BY <1>1, <1>2, <1>3, <1>4, <1>5, <1>6 DEF SeenSoFar, Through, Judging, FromTurn1,
       FromFiles1, FromTests1, FromAgain1, FromTurn2, FromTests2, FromAgain2, FromUndo,
       FromReset, FromArtifacts
  <1> QED BY <1>1, <1>2, <1>5, <1>6, <1>7, <1>8, <1>9, AfterChecks

LEMMA CountArtifactsKeeps ==
  ASSUME ProbeInv, NEW some \in BOOLEAN, CountArtifacts(some)
  PROVE  ProbeInv'
  <1>1. /\ stage = "artifacts" /\ stage' = "report" /\ UNCHANGED <<opened, closes, report>>
        /\ seen' = [seen EXCEPT !.artifacts = YesNo(some)]
        /\ verdict' = IF some THEN <<"FAIL", "SESSION_ARTIFACT_FORBIDDEN">> ELSE <<"PASS", "">>
        /\ wrong' = IF some THEN wrong \cup {"FAIL"} ELSE wrong
    BY DEF CountArtifacts, SessionRest
  <1>2. seen \in EvidenceSoFar /\ SeenSoFar /\ IdealIsBoth(seen) /\ wrong = {}
    BY <1>1 DEF ProbeInv, Judging, FromTurn1, FromFiles1, FromTests1, FromAgain1, FromTurn2,
       FromTests2, FromAgain2, FromUndo, FromReset, FromArtifacts
  <1>3. YesNo(some) \in {"yes", "no"} /\ (~some => YesNo(some) = "no")
    BY DEF YesNo
  <1>4. seen' \in EvidenceSoFar /\ seen'.artifacts = YesNo(some)
    BY <1>1, <1>2, <1>3 DEF EvidenceSoFar
  <1>5. /\ seen'.statuses = seen.statuses /\ seen'.ideal1 = seen.ideal1
        /\ seen'.ideal2 = seen.ideal2 /\ seen'.ideal = seen.ideal /\ seen'.exact = seen.exact
        /\ seen'.changed = seen.changed /\ seen'.hash1 = seen.hash1
        /\ seen'.tests1 = seen.tests1 /\ seen'.tests2 = seen.tests2
        /\ seen'.undone = seen.undone /\ seen'.depth = seen.depth /\ seen'.hash2 = seen.hash2
        /\ seen'.reset = seen.reset /\ seen'.baseline = seen.baseline
        /\ seen'.residual = seen.residual /\ seen'.idempotent = seen.idempotent
        /\ seen'.closes = seen.closes
    BY <1>1, <1>2 DEF EvidenceSoFar
  <1>6. opened = "open" /\ closes = 0 /\ seen.closes = 0
    BY <1>1, <1>2 DEF ProbeInv, SeenSoFar, Through, Judging, FromTurn1, FromFiles1,
       FromTests1, FromAgain1, FromTurn2, FromTests2, FromAgain2, FromUndo, FromReset,
       FromArtifacts
  <1>7. verdict'[1] = Deserved(wrong') /\ (verdict'[1] = "PASS" <=> ~some)
        /\ (verdict'[1] = "PASS" <=> verdict'[2] = "")
    BY <1>1, <1>2 DEF Deserved
  <1>8. SeenSoFar'
    BY <1>1, <1>2, <1>3, <1>4, <1>5, <1>6, <1>7, ZenonT(60) DEF SeenSoFar, Through,
       Judging, FromTurn1, FromFiles1, FromTests1, FromAgain1, FromTurn2, FromTests2, FromAgain2, FromUndo,
       FromReset, FromArtifacts
  <1>9. IdealIsBoth(seen')
    BY <1>2, <1>5 DEF IdealIsBoth
  <1>10. "report" \notin Judging
    BY DEF SeenSoFar, Through, Judging, FromTurn1, FromFiles1, FromTests1, FromAgain1,
       FromTurn2, FromTests2, FromAgain2, FromUndo, FromReset, FromArtifacts
  <1> QED BY <1>1, <1>4, <1>5, <1>6, <1>7, <1>8, <1>9, <1>10 DEF ProbeInv

LEMMA Elsewhere ==
  ASSUME stage' \in {"cleanup", "last", "done"}
  PROVE  SeenSoFar' /\ stage' \notin Judging
  BY DEF SeenSoFar, Through, Judging, FromTurn1, FromFiles1, FromTests1, FromAgain1,
     FromTurn2, FromTests2, FromAgain2, FromUndo, FromReset, FromArtifacts

LEMMA RaiseKeeps ==
  ASSUME ProbeInv, Raise
  PROVE  ProbeInv'
  <1>1. /\ stage \notin {"report", "cleanup", "last", "done"} /\ stage' = "last"
        /\ verdict' = <<"INVALID_INFRA", "PROBE_RUNTIME_ERROR">> /\ "INVALID_INFRA" \in wrong'
        /\ UNCHANGED <<opened, closes, seen, report>>
    BY DEF Raise
  <1> QED BY <1>1, Elsewhere DEF ProbeInv

LEMMA CleanUpKeeps ==
  ASSUME ProbeInv, NEW fails \in BOOLEAN, CleanUp(fails)
  PROVE  ProbeInv'
  <1>1. /\ stage = "cleanup" /\ UNCHANGED <<opened, closes, seen, report>>
        /\ \/ /\ stage' = "last" /\ "INVALID_INFRA" \in wrong'
              /\ verdict'[1] = "INVALID_INFRA" /\ verdict'[2] # ""
           \/ stage' = "done" /\ UNCHANGED wrong
    <2>1. CASE fails
      <3>1. /\ stage = "cleanup" /\ UNCHANGED <<opened, closes, seen, report>>
            /\ stage' = "last" /\ verdict' = <<"INVALID_INFRA", "PROBE_RUNTIME_ERROR">>
            /\ wrong' = wrong \cup {"INVALID_INFRA"}
        BY <2>1, Zenon DEF CleanUp
      <3> QED BY <3>1
    <2>2. CASE ~fails
      BY <2>2 DEF CleanUp
    <2> QED BY <2>1, <2>2
  <1>2. SeenSoFar' /\ stage' \notin Judging
    BY <1>1, Elsewhere
  <1>3. IdealIsBoth(seen) /\ IdealIsBoth(seen')
    BY <1>1 DEF ProbeInv
  <1>4. stage' = "last" => verdict'[1] = "INVALID_INFRA" /\ verdict'[2] # ""
    BY <1>1
  <1>5. stage' = "done" => report'.outcome = Deserved(wrong') /\ Acceptable(report')
    BY <1>1 DEF ProbeInv
  <1> QED BY <1>1, <1>2, <1>3, <1>4, <1>5 DEF ProbeInv

LEMMA EvidenceOfReport ==
  ASSUME NEW e \in EvidenceSoFar, NEW residual \in {"null", "some", "none"},
         NEW idempotent \in {"yes", "no"}, NEW count \in -1..1
  PROVE  [e EXCEPT !.residual = residual, !.idempotent = idempotent, !.closes = count]
           \in EvidenceSoFar
  <1>1. \A f \in EvidenceSoFar : [f EXCEPT !.residual = residual] \in EvidenceSoFar
    BY DEF EvidenceSoFar
  <1>2. \A f \in EvidenceSoFar : [f EXCEPT !.idempotent = idempotent] \in EvidenceSoFar
    BY DEF EvidenceSoFar
  <1>3. \A f \in EvidenceSoFar : [f EXCEPT !.closes = count] \in EvidenceSoFar
    BY DEF EvidenceSoFar
  <1> QED BY <1>1, <1>2, <1>3

(* Closing counts in the verdict, and a pass is left only to the run that was *)
(* through, was closed once and left no process behind                       *)
LEMMA ReportKeeps ==
  ASSUME ProbeInv, NEW raises \in BOOLEAN, NEW listed \in BOOLEAN, NEW some \in BOOLEAN,
         Report(raises, listed, some)
  PROVE  ProbeInv'
  <1> DEFINE session == opened # "none"
             fails == opened = "open" /\ raises
             count == IF seen.closes = -1 THEN -1 ELSE closes'
             residual == IF session /\ listed /\ seen.baseline = "yes"
                         THEN IF some THEN "some" ELSE "none"
                         ELSE seen.residual
             counted == IF session /\ count \notin {-1, 1} /\ ~fails
                        THEN <<"FAIL", "OWNED_CLIENT_CLOSE_INVALID">> ELSE verdict
             lifecycle == CASE ~session -> ""
                            [] session /\ fails -> "PROBE_RUNTIME_ERROR"
                            [] session /\ ~fails /\ ~listed -> "SUBPROCESS_SCAN_FAILED"
                            [] OTHER -> ""
             ending == IF lifecycle # "" THEN <<"INVALID_INFRA", lifecycle>>
                      ELSE IF session /\ LeftBehind(residual, counted)
                      THEN <<"FAIL", "NEW_RESIDUAL_DIRECT_SUBPROCESS">> ELSE counted
             idempotent == YesNo(session /\ ~fails)
  <1>1. /\ stage \in {"report", "last"}
        /\ closes' = IF opened = "open" THEN closes + 1 ELSE closes
        /\ opened' = IF session THEN "closed" ELSE opened
        /\ seen' = [seen EXCEPT !.residual = residual, !.idempotent = idempotent, !.closes = count]
        /\ report' = [outcome |-> ending[1], code |-> ending[2], evidence |-> seen']
        /\ wrong' = wrong \cup (IF lifecycle # "" THEN {"INVALID_INFRA"} ELSE {})
                          \cup (IF residual = "some" THEN {"FAIL"} ELSE {})
        /\ stage' = IF stage = "report" THEN "cleanup" ELSE "done"
    BY DEF Report
  <1>2. /\ seen \in EvidenceSoFar /\ SeenSoFar /\ IdealIsBoth(seen)
        /\ opened \in {"none", "open", "closed"} /\ closes = IF opened = "closed" THEN 1 ELSE 0
        /\ seen.closes \in {-1, closes} /\ (seen.residual = "some" => opened = "closed")
        /\ (opened = "closed" => stage = "last")
    BY <1>1 DEF ProbeInv
  <1>3. /\ stage = "report" =>
             verdict[1] = Deserved(wrong) /\ (verdict[1] = "PASS" <=> verdict[2] = "")
        /\ stage = "last" =>
             verdict[1] = "INVALID_INFRA" /\ verdict[2] # "" /\ "INVALID_INFRA" \in wrong
    BY DEF ProbeInv
  <1>4. /\ opened' \in {"none", "closed"} /\ closes' = IF opened' = "closed" THEN 1 ELSE 0
        /\ session => closes' = 1 /\ opened' = "closed"
        /\ count \in {-1, closes'} /\ count \in -1..1
    <2>1. /\ closes' = IF opened = "open" THEN closes + 1 ELSE closes
          /\ opened' = IF session THEN "closed" ELSE opened
      BY <1>1
    <2>2. /\ opened' \in {"none", "closed"} /\ closes' = IF opened' = "closed" THEN 1 ELSE 0
          /\ session => closes' = 1 /\ opened' = "closed"
      BY <1>2, <2>1
    <2>3. closes' \in 0..1 /\ count \in {-1, closes'}
      BY <2>2
    <2> QED BY <2>2, <2>3
  <1>5. residual \in {"null", "some", "none"} /\ (residual = "some" => session)
    BY <1>2 DEF EvidenceSoFar
  <1>6. counted = verdict
    BY <1>4
  <1>7. /\ lifecycle # "" <=> session /\ (fails \/ ~listed)
        /\ idempotent \in {"yes", "no"} /\ (session /\ ~fails => idempotent = "yes")
    BY DEF YesNo
  <1>8. /\ lifecycle # "" => ending[1] = "INVALID_INFRA" /\ ending[2] # ""
        /\ lifecycle = "" /\ residual = "some" /\ verdict[1] # "INVALID_INFRA" =>
             ending[1] = "FAIL" /\ ending[2] # ""
        /\ lifecycle = "" /\ (residual # "some" \/ verdict[1] = "INVALID_INFRA") => ending = verdict
    <2> HIDE DEF lifecycle, residual, counted
    <2>1. CASE lifecycle # ""
      <3>1. ending = <<"INVALID_INFRA", lifecycle>>
        BY <2>1
      <3> HIDE DEF ending
      <3> QED BY <2>1, <3>1
    <2>2. CASE lifecycle = "" /\ residual = "some" /\ verdict[1] # "INVALID_INFRA"
      <3>1. ending = <<"FAIL", "NEW_RESIDUAL_DIRECT_SUBPROCESS">>
        BY <1>5, <1>6, <2>2 DEF LeftBehind
      <3> HIDE DEF ending
      <3> QED BY <2>2, <3>1
    <2>3. CASE lifecycle = "" /\ (residual # "some" \/ verdict[1] = "INVALID_INFRA")
      <3>1. ending = verdict
        BY <1>6, <2>3 DEF LeftBehind
      <3> HIDE DEF ending
      <3> QED BY <2>3, <3>1
    <2> HIDE DEF ending
    <2> QED BY <2>1, <2>2, <2>3
  <1>9. seen.baseline = "yes" /\ session /\ listed /\ residual # "some" => residual = "none"
    OBVIOUS
  <1>10. session /\ count # -1 => count = 1
    BY <1>4
  <1>11. seen.closes = 0 => count = closes'
    OBVIOUS
  <1>12. fails => session
    OBVIOUS
  <1> HIDE DEF session, fails, count, residual, counted, lifecycle, ending, idempotent
  <1>13. seen' \in EvidenceSoFar
    BY <1>1, <1>2, <1>4, <1>5, <1>7, EvidenceOfReport
  <1>14. seen'.residual = residual /\ seen'.idempotent = idempotent /\ seen'.closes = count
    BY <1>1, <1>2 DEF EvidenceSoFar
  <1>15. /\ seen'.statuses = seen.statuses /\ seen'.ideal1 = seen.ideal1
        /\ seen'.ideal2 = seen.ideal2 /\ seen'.ideal = seen.ideal /\ seen'.exact = seen.exact
        /\ seen'.changed = seen.changed /\ seen'.hash1 = seen.hash1
        /\ seen'.tests1 = seen.tests1 /\ seen'.tests2 = seen.tests2
        /\ seen'.undone = seen.undone /\ seen'.depth = seen.depth /\ seen'.hash2 = seen.hash2
        /\ seen'.reset = seen.reset /\ seen'.artifacts = seen.artifacts
        /\ seen'.baseline = seen.baseline
    BY <1>1, <1>2, ZenonT(60) DEF EvidenceSoFar
  <1>16. IdealIsBoth(seen')
    BY <1>2, <1>15 DEF IdealIsBoth
  <1>17. report'.outcome = ending[1] /\ report'.code = ending[2] /\ report'.evidence = seen'
    BY <1>1
  <1>18. ending[1] = Deserved(wrong')
    <2>1. CASE lifecycle # "" \/ verdict[1] = "INVALID_INFRA"
      <3>1. ending[1] = "INVALID_INFRA"
        BY <1>8, <2>1
      <3>2. "INVALID_INFRA" \in wrong'
        BY <1>1, <1>3, <2>1 DEF Deserved
      <3> QED BY <3>1, <3>2 DEF Deserved
    <2>2. CASE lifecycle = "" /\ verdict[1] # "INVALID_INFRA"
      <3>1. stage = "report" /\ verdict[1] = Deserved(wrong)
        BY <1>1, <1>3, <2>2
      <3>2. "INVALID_INFRA" \notin wrong
        BY <2>2, <3>1 DEF Deserved
      <3>3. wrong' = wrong \cup (IF residual = "some" THEN {"FAIL"} ELSE {})
        BY <1>1, <2>2
      <3>4. CASE residual = "some"
        BY <1>8, <2>2, <3>2, <3>3, <3>4 DEF Deserved
      <3>5. CASE residual # "some"
        BY <1>8, <2>2, <3>1, <3>3, <3>5
      <3> QED BY <3>4, <3>5
    <2> QED BY <2>1, <2>2
  <1>19. ending[1] = "PASS" <=> ending[2] = ""
    <2>1. CASE lifecycle # "" \/ (residual = "some" /\ verdict[1] # "INVALID_INFRA")
      BY <1>8, <2>1
    <2>2. CASE lifecycle = "" /\ (residual # "some" \/ verdict[1] = "INVALID_INFRA")
      BY <1>1, <1>3, <1>8, <2>2
    <2> QED BY <2>1, <2>2
  <1>20. ASSUME ending[1] = "PASS"
         PROVE  /\ "null" \notin {seen'.ideal1, seen'.ideal2, seen'.hash1}
                /\ \A field \in DOMAIN Evident : seen'[field] = Evident[field]
    <2>1. lifecycle = "" /\ residual # "some" /\ verdict[1] = "PASS" /\ stage = "report"
      BY <1>1, <1>3, <1>8, <1>20
    <2>2. /\ opened = "open" /\ seen.baseline = "yes" /\ seen.closes = 0 /\ seen.ideal1 # "null"
          /\ seen.changed = {"target"} /\ seen.hash1 # "null" /\ seen.tests1 = "zero"
          /\ seen.statuses = <<"COMPLETED", "COMPLETED">> /\ seen.ideal2 # "null"
          /\ seen.exact = "yes" /\ seen.tests2 = "zero" /\ seen.undone = "yes" /\ seen.depth = 0
          /\ seen.hash2 = "initial" /\ seen.reset = "clean" /\ seen.artifacts = "no"
      BY <1>2, <2>1 DEF SeenSoFar, Through
    <2>3. session /\ ~fails /\ listed
      BY <1>7, <2>1, <2>2 DEF session
    <2>4. residual = "none" /\ idempotent = "yes" /\ count = 1
      BY <1>4, <1>7, <1>9, <1>11, <2>1, <2>2, <2>3
    <2>5. "null" \notin {seen'.ideal1, seen'.ideal2, seen'.hash1}
      BY <1>15, <2>2
    <2>6. \A field \in DOMAIN Evident : seen'[field] = Evident[field]
      <3>1. /\ seen'.statuses = <<"COMPLETED", "COMPLETED">> /\ seen'.tests1 = "zero"
            /\ seen'.tests2 = "zero" /\ seen'.undone = "yes" /\ seen'.depth = 0
            /\ seen'.reset = "clean" /\ seen'.idempotent = "yes" /\ seen'.residual = "none"
            /\ seen'.artifacts = "no" /\ seen'.changed = {"target"} /\ seen'.exact = "yes"
            /\ seen'.baseline = "yes" /\ seen'.hash2 = "initial" /\ seen'.closes = 1
        BY <1>14, <1>15, <2>2, <2>4
      <3> QED BY <3>1 DEF Evident
    <2> QED BY <2>5, <2>6
  <1>21. Acceptable(report')
    BY <1>16, <1>17, <1>19, <1>20 DEF Acceptable, IdealIsBoth
  <1>22. stage' \in {"cleanup", "done"}
    BY <1>1
  <1>23. SeenSoFar' /\ stage' \notin Judging
    BY <1>22, Elsewhere
  <1>24. seen'.closes \in {-1, closes'} /\ (seen'.residual = "some" => opened' = "closed")
    BY <1>4, <1>5, <1>14
  <1> QED BY <1>4, <1>13, <1>16, <1>17, <1>18, <1>21, <1>22, <1>23, <1>24 DEF ProbeInv

LEMMA ProbeStarts == ProbeInit => ProbeInv
  <1> SUFFICES ASSUME ProbeInit PROVE ProbeInv
    OBVIOUS
  <1>1. /\ stage = "copy" /\ opened = "none" /\ closes = 0 /\ seen = Unseen
        /\ verdict = <<"", "">> /\ report = NoReport /\ wrong = {}
    BY DEF ProbeInit, ProbeIs
  <1>2. seen \in EvidenceSoFar
    <2>1. <<>> \in Seq(Statuses)
      OBVIOUS
    <2>2. Unseen \in EvidenceSoFar
      BY <2>1 DEF Unseen, EvidenceSoFar, AnswerYet
    <2> QED BY <1>1, <2>2
  <1>3. IdealIsBoth(seen) /\ seen.closes = -1 /\ seen.residual = "null" /\ SeenSoFar
    BY <1>1 DEF Unseen, IdealIsBoth, SeenSoFar, Through, Judging, FromTurn1, FromFiles1,
       FromTests1, FromAgain1, FromTurn2, FromTests2, FromAgain2, FromUndo, FromReset,
       FromArtifacts
  <1> QED BY <1>1, <1>2, <1>3 DEF ProbeInv, SeenSoFar, Through, Judging, FromTurn1,
     FromFiles1, FromTests1, FromAgain1, FromTurn2, FromTests2, FromAgain2, FromUndo,
     FromReset, FromArtifacts

LEMMA ProbeMoves ==
  ASSUME ProbeInv, [ProbeNext]_probeVars
  PROVE  ProbeInv'
  <1>1. CASE \E listed, observable \in BOOLEAN : Open(listed, observable)
    BY <1>1, OpenKeeps
  <1>2. CASE \E end \in Statuses, events \in Events1 : Turn1(end, events)
    BY <1>2, Turn1Keeps
  <1>3. CASE \E paths \in SUBSET {"target", "other"}, there, links, extra \in BOOLEAN :
               Files1(paths, there, links, extra)
    BY <1>3, Files1Keeps
  <1>4. CASE \E tests \in TestOutcomes : Tests1(tests) \/ Tests2(tests)
    BY <1>4, Tests1Keeps, Tests2Keeps
  <1>5. CASE \E tampered \in BOOLEAN :
               \/ Again("again1", tampered, "turn2") \/ Again("files2", tampered, "tests2")
               \/ Again("again2", tampered, "undo")
    <2>1. PICK tampered \in BOOLEAN :
                 \/ Again("again1", tampered, "turn2") \/ Again("files2", tampered, "tests2")
                 \/ Again("again2", tampered, "undo")
      BY <1>5
    <2>2. CASE Again("again1", tampered, "turn2")
      BY <2>2, AgainKeeps
    <2>3. CASE Again("files2", tampered, "tests2")
      BY <2>3, AgainKeeps
    <2>4. CASE Again("again2", tampered, "undo")
      BY <2>4, AgainKeeps
    <2> QED BY <2>1, <2>2, <2>3, <2>4
  <1>6. CASE \E end \in Statuses, events \in Events2, exact \in BOOLEAN :
               Turn2(end, events, exact)
    BY <1>6, Turn2Keeps
  <1>7. CASE \E ok \in BOOLEAN, depth \in 0..1, hash \in {"initial", "other", "null"} :
               Undo(ok, depth, hash)
    BY <1>7, UndoKeeps
  <1>8. CASE \E state \in {"clean", "dirty", "null"} : ResetSession(state)
    BY <1>8, ResetKeeps
  <1>9. CASE \E some \in BOOLEAN : CountArtifacts(some)
    BY <1>9, CountArtifactsKeeps
  <1>10. CASE Raise
    BY <1>10, RaiseKeeps
  <1>11. CASE \E raises, listed, some \in BOOLEAN : Report(raises, listed, some)
    BY <1>11, ReportKeeps
  <1>12. CASE \E fails \in BOOLEAN : CleanUp(fails)
    BY <1>12, CleanUpKeeps
  <1>13. CASE UNCHANGED probeVars
    BY <1>13, ZenonT(60) DEF probeVars, ProbeInv, IdealIsBoth, SeenSoFar, Through, Judging, FromTurn1,
       FromFiles1, FromTests1, FromAgain1, FromTurn2, FromTests2, FromAgain2, FromUndo,
       FromReset, FromArtifacts
  <1> QED BY <1>1, <1>2, <1>3, <1>4, <1>5, <1>6, <1>7, <1>8, <1>9, <1>10, <1>11, <1>12, <1>13
     DEF ProbeNext

LEMMA ProbeInvariant == ProbeSpec => []ProbeInv
  BY ProbeStarts, ProbeMoves, PTL DEF ProbeSpec

(* The verdict of run_probe is fair, for any events of the turns and any     *)
(* statuses they may end with: a failure of the infrastructure anywhere, to  *)
(* the removal of the directory, makes it INVALID_INFRA, and of the other    *)
(* runs exactly those in which nothing was wrong pass.                       *)
THEOREM VerdictsAreFair == ProbeSpec => []VerdictIsFair
  <1>1. ProbeInv => VerdictIsFair
    BY DEF ProbeInv, VerdictIsFair, Deserved
  <1> QED BY <1>1, ProbeInvariant, PTL

(* Every report run_probe can return is one that build_o1b_summary accepts.  *)
THEOREM ReportsAreAlwaysAccepted == ProbeSpec => []ReportsAreAccepted
  <1>1. ProbeInv => ReportsAreAccepted
    BY DEF ProbeInv, ReportsAreAccepted
  <1> QED BY <1>1, ProbeInvariant, PTL
=============================================================================
