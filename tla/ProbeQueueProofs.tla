--------------------------- MODULE ProbeQueueProofs ---------------------------
(***************************************************************************)
(* Theorems about ProbeQueue for any number of processes and attempts,     *)
(* with crashes and edits of the tree anywhere, on either platform.        *)
(***************************************************************************)
EXTENDS ProbeQueue, FiniteSetTheorems, TLAPS

(* Where a process has the metadata of the attempt it is at *)
Frozen == {"previous", "reserve"} \cup Holding

(* What a process needs to be at a place: an attempt, and as much of the *)
(* metadata as it has hashed by then                                     *)
Entitled(place, n, m) ==
  /\ place \in Freezing \cup Frozen => n \in Attempts
  /\ place \in {"off"} \cup Freezing => m \in Hashes
  /\ place \in {"freezePrompts", "freezeCode"} => m.fixture \in Fixtures
  /\ place = "freezeCode" => m.prompts \in Prompts
  /\ place \in Frozen => m \in Meta

(* What the attempts rest on: whoever goes on after reserving holds the     *)
(* attempt alone, and before it runs the attempt nobody has.                *)
HoldersAlone ==
  /\ \A p \in Processes :
       /\ Entitled(at[p], attempt[p], meta[p])
       /\ at[p] \in Holding => Reserved(attempt[p])
       /\ at[p] \in Holding \ {"report", "file"} => ran[attempt[p]] = 0
  /\ \A p, q \in Processes :
       p # q /\ at[p] \in Holding /\ at[q] \in Holding => attempt[p] # attempt[q]
  /\ \A n \in Attempts : ran[n] \in 0..1 /\ (ran[n] = 1 => Reserved(n))

(* What is frozen when a process reserves is what the earlier ones were *)
ContinuesWhenReserving ==
  \A p \in Processes : at[p] = "reserve" => Continues(p)

QueueInv ==
  /\ tree \in Meta
  /\ reservations \in [Attempts -> Meta \cup {NoMeta}]
  /\ at = [p \in Processes |-> at[p]]
  /\ attempt = [p \in Processes |-> attempt[p]]
  /\ meta = [p \in Processes |-> meta[p]]
  /\ ran = [n \in Attempts |-> ran[n]]
  /\ HoldersAlone
  /\ ContinuesWhenReserving
  /\ OneProtocol

LEMMA NoMetaIsNone == NoMeta \notin Meta
  BY QueueConstants DEF NoMeta, Meta

LEMMA NoHashes == NoMeta \in Hashes
  BY DEF NoMeta, Hashes

LEMMA HashesOfMeta == Meta \subseteq Hashes
  BY DEF Meta, Hashes

LEMMA QueueInitial == QueueInit => QueueInv
  BY QueueConstants, NoHashes
  DEF QueueInit, QueueInv, HoldersAlone, ContinuesWhenReserving, OneProtocol, Frozen, Holding,
      Reserved, Attempts, Entitled, Freezing

(* A step of one process that leaves the reservations and the count of runs *)
(* alone, and goes nowhere that has to be earned with a reservation         *)
LEMMA Elsewhere ==
  ASSUME QueueInv, NEW p \in Processes,
         UNCHANGED <<tree, reservations, ran>>,
         NEW place, NEW n, NEW m,
         at' = [at EXCEPT ![p] = place],
         attempt' = [attempt EXCEPT ![p] = n],
         meta' = [meta EXCEPT ![p] = m],
         place \notin {"reserve"} \cup Holding,
         Entitled(place, n, m)
  PROVE  QueueInv'
  <1>1. /\ at' = [q \in Processes |-> at'[q]] /\ attempt' = [q \in Processes |-> attempt'[q]]
        /\ meta' = [q \in Processes |-> meta'[q]]
        /\ at'[p] = place /\ attempt'[p] = n /\ meta'[p] = m
        /\ \A q \in Processes \ {p} :
             at'[q] = at[q] /\ attempt'[q] = attempt[q] /\ meta'[q] = meta[q]
    BY DEF QueueInv
  <1>2. \A k : Reserved(k)' <=> Reserved(k)
    BY DEF Reserved
  <1>3. ASSUME NEW q \in Processes PROVE Entitled(at'[q], attempt'[q], meta'[q])
    BY <1>1 DEF QueueInv, HoldersAlone
  <1>4. HoldersAlone'
    BY <1>1, <1>2, <1>3 DEF QueueInv, HoldersAlone
  <1>5. ContinuesWhenReserving'
    BY <1>1, <1>2 DEF QueueInv, ContinuesWhenReserving, Continues
  <1>6. OneProtocol'
    BY <1>2 DEF QueueInv, OneProtocol
  <1> QED BY <1>1, <1>4, <1>5, <1>6 DEF QueueInv

(* A step of a process that keeps the attempt it holds, without a run *)
LEMMA SameHold ==
  ASSUME QueueInv, NEW p \in Processes,
         UNCHANGED <<tree, reservations, ran, attempt>>,
         NEW place \in Holding, NEW m \in Meta,
         at' = [at EXCEPT ![p] = place],
         meta' = [meta EXCEPT ![p] = m],
         at[p] \in Holding,
         at[p] \in {"report", "file"} => place \in {"report", "file"}
  PROVE  QueueInv'
  <1>1. /\ at' = [q \in Processes |-> at'[q]] /\ meta' = [q \in Processes |-> meta'[q]]
        /\ at'[p] = place /\ meta'[p] = m
        /\ \A q \in Processes \ {p} : at'[q] = at[q] /\ meta'[q] = meta[q]
    BY DEF QueueInv
  <1>2. \A k : Reserved(k)' <=> Reserved(k)
    BY DEF Reserved
  <1>3. Entitled(place, attempt[p], m)
    BY DEF QueueInv, HoldersAlone, Entitled, Frozen, Freezing, Holding
  <1>4. ASSUME NEW q \in Processes PROVE Entitled(at'[q], attempt'[q], meta'[q])
    BY <1>1, <1>3 DEF QueueInv, HoldersAlone
  <1>5. HoldersAlone'
    BY <1>1, <1>2, <1>4 DEF QueueInv, HoldersAlone
  <1>6. ContinuesWhenReserving'
    BY <1>1, <1>2 DEF QueueInv, ContinuesWhenReserving, Continues, Holding
  <1>7. OneProtocol'
    BY <1>2 DEF QueueInv, OneProtocol
  <1> QED BY <1>1, <1>5, <1>6, <1>7 DEF QueueInv

(* The attempt is kept, and so is what the process knows of it *)
LEMMA GoOn ==
  ASSUME QueueInv, NEW p \in Processes, UNCHANGED <<tree, reservations, ran>>,
         NEW place \in Holding, Go(p, place), Stay, at[p] \in Holding,
         at[p] \in {"report", "file"} => place \in {"report", "file"}
  PROVE  QueueInv'
  <1>1. meta[p] \in Meta
    BY DEF QueueInv, HoldersAlone, Entitled, Frozen
  <1>2. meta' = [meta EXCEPT ![p] = meta[p]]
    BY DEF QueueInv, Stay
  <1> QED BY <1>1, <1>2, SameHold DEF Go, Stay

LEMMA QuitKeeps ==
  ASSUME QueueInv, NEW p \in Processes, Quit(p), UNCHANGED <<tree, reservations, ran>>
  PROVE  QueueInv'
  BY Elsewhere, NoHashes DEF Quit, Go, Frozen, Holding, Freezing, Entitled

LEMMA ReserveKeeps ==
  ASSUME QueueInv, NEW p \in Processes, Reserve(p)
  PROVE  QueueInv'
  <1> DEFINE n == attempt[p]
  <1>1. /\ n \in Attempts /\ meta[p] \in Meta /\ ~Reserved(n)
        /\ Continues(p) /\ UNCHANGED <<tree, ran, attempt, meta>>
        /\ at' = [at EXCEPT ![p] = "verify"]
        /\ reservations' = [reservations EXCEPT ![n] = meta[p]]
    BY DEF QueueInv, HoldersAlone, ContinuesWhenReserving, Reserve, CanWrite, Frozen, Entitled, Go,
           Stay, repository, runs
  <1>2. reservations' \in [Attempts -> Meta \cup {NoMeta}] /\ reservations'[n] = meta[p]
        /\ \A k \in Attempts \ {n} : reservations'[k] = reservations[k]
    BY <1>1 DEF QueueInv
  <1>3. \A k \in Attempts : Reserved(k)' <=> Reserved(k) \/ k = n
    BY <1>1, <1>2, NoMetaIsNone DEF Reserved
  <1>4. ran[n] = 0
    BY <1>1 DEF QueueInv, HoldersAlone
  <1>5. \A q \in Processes : at[q] \in Holding => attempt[q] # n
    BY <1>1 DEF QueueInv, HoldersAlone
  <1>6. HoldersAlone'
    <2>1. \A q \in Processes \ {p} : at'[q] = at[q] BY <1>1 DEF QueueInv
    <2>2. at'[p] = "verify" BY <1>1 DEF QueueInv
    <2>3. Entitled("verify", n, meta[p])
      BY <1>1 DEF Entitled, Freezing, Frozen, Holding
    <2>4. ASSUME NEW q \in Processes PROVE Entitled(at'[q], attempt'[q], meta'[q])
      BY <1>1, <2>1, <2>2, <2>3 DEF QueueInv, HoldersAlone
    <2>5. \A q \in Processes : at[q] \in Holding => attempt[q] \in Attempts
      BY DEF QueueInv, HoldersAlone, Entitled, Frozen
    <2> QED BY <1>1, <1>3, <1>4, <1>5, <2>1, <2>2, <2>4, <2>5 DEF QueueInv, HoldersAlone
  <1>7. OneProtocol'
    <2> SUFFICES ASSUME NEW j \in Attempts, NEW k \in Attempts, j < k, Reserved(k)'
                 PROVE  reservations'[j] = reservations'[k]
      BY DEF OneProtocol
    <2>1. CASE k = n
      BY <1>1, <1>2, <2>1 DEF Continues, Attempts
    <2>2. CASE k # n
      <3>1. Reserved(k) /\ reservations[j] = reservations[k]
        BY <1>3, <2>2 DEF QueueInv, OneProtocol
      <3>2. Reserved(j) BY <3>1 DEF Reserved
      <3> QED BY <1>1, <1>2, <2>2, <3>1, <3>2
    <2> QED BY <2>1, <2>2
  <1>8. ContinuesWhenReserving'
    <2> SUFFICES ASSUME NEW q \in Processes, at'[q] = "reserve",
                        NEW k \in 1..attempt[q] - 1
                 PROVE  Reserved(k)' /\ reservations'[k] = meta[q]
      BY <1>1 DEF ContinuesWhenReserving, Continues
    <2>1. q # p /\ at[q] = "reserve" BY <1>1 DEF QueueInv
    <2>2. attempt[q] \in Attempts BY <2>1 DEF QueueInv, HoldersAlone, Entitled, Frozen
    <2>3. k \in Attempts BY <2>2, QueueConstants DEF Attempts
    <2>4. Reserved(k) /\ reservations[k] = meta[q]
      BY <2>1 DEF QueueInv, ContinuesWhenReserving, Continues
    <2> QED BY <1>1, <1>2, <1>3, <2>3, <2>4
  <1> QED BY <1>1, <1>2, <1>6, <1>7, <1>8 DEF QueueInv

LEMMA RunKeeps ==
  ASSUME QueueInv, NEW p \in Processes, NEW outcome \in Outcomes, Run(p, outcome)
  PROVE  QueueInv'
  <1> DEFINE n == attempt[p]
  <1>1. /\ at[p] \in Holding /\ n \in Attempts /\ Reserved(n) /\ ran[n] = 0 /\ meta[p] \in Meta
        /\ UNCHANGED <<tree, reservations, attempt, meta>>
        /\ at' = [at EXCEPT ![p] = "report"]
        /\ ran' = [ran EXCEPT ![n] = @ + 1]
    BY DEF QueueInv, HoldersAlone, Entitled, Run, Frozen, Holding, Go, files, repository
  <1>2. ran'[n] = 1 /\ ran' = [k \in Attempts |-> ran'[k]]
        /\ \A k \in Attempts \ {n} : ran'[k] = ran[k]
    BY <1>1 DEF QueueInv
  <1>3. at'[p] = "report" /\ at' = [q \in Processes |-> at'[q]]
        /\ \A q \in Processes \ {p} : at'[q] = at[q]
    BY <1>1 DEF QueueInv
  <1>4. Entitled("report", n, meta[p])
    BY <1>1 DEF Entitled, Frozen, Freezing, Holding
  <1>5. \A k : Reserved(k)' <=> Reserved(k)
    BY <1>1 DEF Reserved
  <1>6. HoldersAlone'
    <2>1. ASSUME NEW q \in Processes PROVE Entitled(at'[q], attempt'[q], meta'[q])
      BY <1>1, <1>3, <1>4 DEF QueueInv, HoldersAlone
    <2>2. ASSUME NEW q \in Processes, at'[q] \in Holding PROVE Reserved(attempt[q])'
      BY <1>1, <1>3, <1>5, <2>2 DEF QueueInv, HoldersAlone
    <2>3. ASSUME NEW q \in Processes, at'[q] \in Holding \ {"report", "file"}
          PROVE  ran'[attempt'[q]] = 0
      <3>1. q # p /\ at[q] \in Holding \ {"report", "file"} /\ attempt'[q] = attempt[q]
        BY <1>1, <1>3, <2>3
      <3>2. attempt[q] \in Attempts /\ attempt[q] # n /\ ran[attempt[q]] = 0
        BY <1>1, <3>1 DEF QueueInv, HoldersAlone, Entitled, Frozen
      <3> QED BY <1>2, <3>1, <3>2
    <2>4. ASSUME NEW q \in Processes, NEW r \in Processes, q # r, at'[q] \in Holding,
                 at'[r] \in Holding
          PROVE  attempt'[q] # attempt'[r]
      BY <1>1, <1>3, <2>4 DEF QueueInv, HoldersAlone
    <2>5. \A k \in Attempts : ran'[k] \in 0..1 /\ (ran'[k] = 1 => Reserved(k)')
      BY <1>1, <1>2, <1>5 DEF QueueInv, HoldersAlone
    <2> QED BY <2>1, <2>2, <2>3, <2>4, <2>5 DEF HoldersAlone
  <1>7. ContinuesWhenReserving'
    BY <1>1, <1>3, <1>5 DEF QueueInv, ContinuesWhenReserving, Continues
  <1>8. OneProtocol'
    BY <1>1, <1>5 DEF QueueInv, OneProtocol
  <1> QED BY <1>1, <1>2, <1>3, <1>6, <1>7, <1>8 DEF QueueInv

LEMMA CheckPreviousKeeps ==
  ASSUME QueueInv, NEW p \in Processes, CheckPrevious(p)
  PROVE  QueueInv'
  <1> DEFINE goes == Continues(p) /\ CanWrite(Reserved(attempt[p]))
  <1>1. CASE goes
    <2>1. /\ at[p] = "previous" /\ at' = [at EXCEPT ![p] = "reserve"]
          /\ UNCHANGED <<tree, reservations, ran, attempt, meta>>
      BY <1>1 DEF CheckPrevious, Go, Stay, repository, files, runs
    <2>2. at' = [q \in Processes |-> at'[q]] /\ at'[p] = "reserve"
          /\ \A q \in Processes \ {p} : at'[q] = at[q]
      BY <2>1 DEF QueueInv
    <2>3. Entitled("reserve", attempt[p], meta[p])
      BY <2>1 DEF QueueInv, HoldersAlone, Entitled, Frozen, Freezing, Holding
    <2>4. \A k : Reserved(k)' <=> Reserved(k)
      BY <2>1 DEF Reserved
    <2>5. ASSUME NEW q \in Processes PROVE Entitled(at'[q], attempt'[q], meta'[q])
      BY <2>1, <2>2, <2>3 DEF QueueInv, HoldersAlone
    <2>6. HoldersAlone'
      BY <2>1, <2>2, <2>4, <2>5 DEF QueueInv, HoldersAlone, Holding
    <2>7. ContinuesWhenReserving'
      BY <1>1, <2>1, <2>2, <2>4 DEF QueueInv, ContinuesWhenReserving, Continues
    <2>8. OneProtocol'
      BY <2>1, <2>4 DEF QueueInv, OneProtocol
    <2> QED BY <2>1, <2>2, <2>6, <2>7, <2>8 DEF QueueInv
  <1>2. CASE ~goes
    BY <1>2, QuitKeeps DEF CheckPrevious, repository, files, runs
  <1> QED BY <1>1, <1>2

(* The hashing steps, of a process that freezes and of one that runs *)
LEMMA HashKeeps ==
  ASSUME QueueInv, NEW p \in Processes, HashFixture(p) \/ HashPrompts(p) \/ HashCode(p)
  PROVE  QueueInv'
  <1> USE DEF repository, files, runs
  <1>1. tree.fixture \in Fixtures /\ tree.prompts \in Prompts /\ tree.code \in Codes
    BY DEF QueueInv, Meta
  <1>2. attempt' = [attempt EXCEPT ![p] = attempt[p]] /\ UNCHANGED <<tree, reservations, ran, attempt>>
    BY DEF HashFixture, HashPrompts, HashCode, QueueInv
  <1>3. Entitled(at[p], attempt[p], meta[p])
    BY DEF QueueInv, HoldersAlone
  <1>4. CASE at[p] \in Freezing
    <2> DEFINE m == CASE at[p] = "freezeFixture" -> [meta[p] EXCEPT !.fixture = tree.fixture]
                      [] at[p] = "freezePrompts" -> [meta[p] EXCEPT !.prompts = tree.prompts]
                      [] OTHER -> [meta[p] EXCEPT !.code = tree.code]
               place == CASE at[p] = "freezeFixture" -> "freezePrompts"
                          [] at[p] = "freezePrompts" -> "freezeCode"
                          [] OTHER -> "previous"
    <2>1. at[p] \in {"freezeFixture", "freezePrompts", "freezeCode"}
      BY <1>4 DEF HashFixture, HashPrompts, HashCode, Freezing
    <2>2. meta[p] \in Hashes /\ attempt[p] \in Attempts
      BY <1>3, <1>4 DEF Entitled
    <2>3. at' = [at EXCEPT ![p] = place] /\ meta' = [meta EXCEPT ![p] = m]
      BY <2>1 DEF HashFixture, HashPrompts, HashCode, Go, QueueInv
    <2>4. m \in Hashes
      BY <1>1, <2>1, <2>2 DEF Hashes
    <2>5. CASE at[p] = "freezeFixture"
      <3>1. m.fixture \in Fixtures /\ place = "freezePrompts"
        BY <1>1, <2>2, <2>5 DEF Hashes
      <3>2. Entitled(place, attempt[p], m)
        BY <2>2, <2>4, <3>1 DEF Entitled, Freezing, Frozen, Holding
      <3> HIDE DEF m
      <3> QED BY <1>2, <2>3, <3>1, <3>2, Elsewhere DEF Holding
    <2>6. CASE at[p] = "freezePrompts"
      <3>1. m.fixture \in Fixtures /\ m.prompts \in Prompts /\ place = "freezeCode"
        BY <1>1, <1>3, <2>2, <2>6 DEF Hashes, Entitled
      <3>2. Entitled(place, attempt[p], m)
        BY <2>2, <2>4, <3>1 DEF Entitled, Freezing, Frozen, Holding
      <3> HIDE DEF m
      <3> QED BY <1>2, <2>3, <3>1, <3>2, Elsewhere DEF Holding
    <2>7. CASE at[p] = "freezeCode"
      <3>1. m \in Meta /\ place = "previous"
        BY <1>1, <1>3, <2>2, <2>7 DEF Hashes, Meta, Entitled
      <3>2. Entitled(place, attempt[p], m)
        BY <2>2, <3>1 DEF Entitled, Freezing, Frozen, Holding
      <3> HIDE DEF m
      <3> QED BY <1>2, <2>3, <3>1, <3>2, Elsewhere DEF Holding
    <2> QED BY <2>1, <2>5, <2>6, <2>7
  <1>5. CASE at[p] \notin Freezing
    <2> DEFINE m == IF at[p] = "hashFixture" THEN [meta[p] EXCEPT !.fixture = tree.fixture]
                    ELSE [meta[p] EXCEPT !.prompts = tree.prompts]
               place == IF at[p] = "hashFixture" THEN "hashPrompts" ELSE "copy"
    <2>1. at[p] \in {"hashFixture", "hashPrompts"}
      BY <1>5 DEF HashFixture, HashPrompts, HashCode, Freezing
    <2>2. at[p] \in Holding /\ meta[p] \in Meta
      BY <1>3, <2>1 DEF Entitled, Frozen, Holding
    <2>3. at' = [at EXCEPT ![p] = place] /\ meta' = [meta EXCEPT ![p] = m]
      BY <2>1 DEF HashFixture, HashPrompts, HashCode, Go, QueueInv
    <2>4. m \in Meta /\ place \in Holding \ {"report", "file"}
      BY <1>1, <2>1, <2>2 DEF Meta, Holding
    <2> HIDE DEF m, place
    <2> QED BY <1>2, <2>1, <2>2, <2>3, <2>4, SameHold
  <1> QED BY <1>4, <1>5

LEMMA ValidateKeeps ==
  ASSUME QueueInv, NEW p \in Processes, Validate(p)
  PROVE  QueueInv'
  <1> USE DEF repository, files, runs
  <1>1. CASE tree.fixture \notin Sound
    BY <1>1, QuitKeeps DEF Validate, Refuse
  <1>2. CASE tree.fixture \in Sound /\ at[p] = "freeze"
    <2>1. /\ Go(p, "freezeFixture") /\ UNCHANGED <<tree, reservations, ran>>
          /\ attempt' = [attempt EXCEPT ![p] = attempt[p]] /\ meta' = [meta EXCEPT ![p] = meta[p]]
      BY <1>2 DEF Validate, Stay, QueueInv
    <2>2. Entitled("freezeFixture", attempt[p], meta[p])
      BY <1>2 DEF QueueInv, HoldersAlone, Entitled, Freezing, Frozen, Holding
    <2> QED BY <2>1, <2>2, Elsewhere DEF Go, Holding
  <1>3. CASE tree.fixture \in Sound /\ at[p] = "validate"
    BY <1>3, GoOn DEF Validate, Holding
  <1> QED BY <1>1, <1>2, <1>3 DEF Validate

LEMMA QueueStep ==
  ASSUME QueueInv, [QueueNext]_queueVars
  PROVE  QueueInv'
  <1>1. CASE UNCHANGED queueVars
    BY <1>1 DEF queueVars, repository, files, locals, runs, QueueInv, HoldersAlone,
                ContinuesWhenReserving, OneProtocol, Continues, Reserved, Entitled
  <1>2. CASE EditTree
    BY <1>2 DEF EditTree, files, runs, QueueInv, HoldersAlone, ContinuesWhenReserving,
                OneProtocol, Continues, Reserved, Entitled
  <1>3. ASSUME NEW p \in Processes, ProcessStep(p)
        PROVE  QueueInv'
    <2> USE DEF repository, files, runs
    <2>a. /\ at = [q \in Processes |-> at[q]]
          /\ attempt = [q \in Processes |-> attempt[q]]
          /\ meta = [q \in Processes |-> meta[q]]
      BY DEF QueueInv
    <2>b. attempt = [attempt EXCEPT ![p] = attempt[p]] /\ meta = [meta EXCEPT ![p] = meta[p]]
          /\ at = [at EXCEPT ![p] = at[p]]
      BY <2>a
    <2>1. ASSUME NEW n \in Attempts, Start(p, n) PROVE QueueInv'
      <3>1. Entitled("freeze", n, meta[p])
        BY <2>1 DEF Start, QueueInv, HoldersAlone, Entitled, Freezing, Frozen, Holding
      <3> QED BY <2>1, <2>b, <3>1, Elsewhere DEF Start, Go, Holding
    <2>2. CASE Validate(p)
      BY <2>2, ValidateKeeps
    <2>17. CASE HashFixture(p) \/ HashPrompts(p) \/ HashCode(p)
      BY <2>17, HashKeeps
    <2>18. CASE PromptsMissing(p)
      BY <2>18, QuitKeeps DEF PromptsMissing, Refuse
    <2>19. CASE ReadPrompts(p)
      BY <2>19, QuitKeeps, GoOn DEF ReadPrompts, Refuse, Holding
    <2>20. CASE CheckPrompts(p)
      BY <2>20, QuitKeeps, GoOn DEF CheckPrompts, Refuse, Holding
    <2>3. CASE CheckPrevious(p)
      BY <2>3, CheckPreviousKeeps
    <2>4. CASE Reserve(p)
      BY <2>4, ReserveKeeps
    <2>5. CASE ReserveTooLate(p)
      BY <2>5, QuitKeeps DEF ReserveTooLate
    <2>6. CASE Verify(p)
      BY <2>6, QuitKeeps, GoOn DEF Verify, Holding
    <2>7. ASSUME NEW outcome \in Outcomes, Run(p, outcome) PROVE QueueInv'
      BY <2>7, RunKeeps
    <2>8. CASE WithholdReport(p)
      BY <2>8, QuitKeeps DEF WithholdReport
    <2>9. CASE LookAtResult(p)
      BY <2>9, QuitKeeps, GoOn DEF LookAtResult, Holding
    <2>10. CASE FileResult(p)
      BY <2>10, QuitKeeps DEF FileResult
    <2>11. CASE StartSummary(p)
      BY <2>11, <2>b, Elsewhere DEF StartSummary, Go, Frozen, Holding, Freezing, Entitled
    <2>12. CASE ReadReservation(p)
      <3> DEFINE n == attempt[p]
      <3>1. CASE (Reserved(n) /\ ~ContinuesCount(p, n)) \/ (~Reserved(n) /\ Filed(n))
        BY <2>12, <3>1, QuitKeeps DEF ReadReservation
      <3>2. CASE ~((Reserved(n) /\ ~ContinuesCount(p, n)) \/ (~Reserved(n) /\ Filed(n)))
        <4>1. at[p] = "reservations" /\ UNCHANGED <<tree, reservations, ran>>
          BY <2>12 DEF ReadReservation
        <4>2. \E place \in {"reservations", "results"} : at' = [at EXCEPT ![p] = place]
          BY <2>12, <2>b, <3>2, <4>1 DEF ReadReservation, Go
        <4>3. \E k : attempt' = [attempt EXCEPT ![p] = k]
          BY <2>12, <3>2 DEF ReadReservation
        <4>4. \E m : meta' = [meta EXCEPT ![p] = m]
          BY <2>12, <2>b, <3>2 DEF ReadReservation
        <4> QED BY <4>1, <4>2, <4>3, <4>4, Elsewhere DEF Frozen, Holding, Freezing, Entitled
      <3> QED BY <3>1, <3>2
    <2>13. CASE ReadResult(p)
      <3>1. CASE Quit(p)
        BY <2>13, <3>1, QuitKeeps DEF ReadResult
      <3>2. CASE ~Quit(p)
        <4>1. UNCHANGED <<tree, reservations, ran, at, meta>> /\ at[p] = "results"
          BY <2>13, <3>2 DEF ReadResult
        <4>2. attempt' = [attempt EXCEPT ![p] = attempt[p] + 1]
          BY <2>13, <3>2, Zenon DEF ReadResult
        <4>3. at' = [at EXCEPT ![p] = "results"] /\ meta' = [meta EXCEPT ![p] = meta[p]]
          BY <2>b, <4>1
        <4> QED BY <4>1, <4>2, <4>3, Elsewhere DEF Frozen, Holding, Freezing, Entitled
      <3> QED BY <3>1, <3>2
    <2>14. CASE LookAtSummary(p)
      <3>1. CASE Quit(p)
        BY <2>14, <3>1, QuitKeeps DEF LookAtSummary
      <3>2. CASE ~Quit(p)
        <4>1. UNCHANGED <<tree, reservations, ran, attempt, meta>>
              /\ at' = [at EXCEPT ![p] = "summarize"]
          BY <2>14, <3>2 DEF LookAtSummary, Go, Stay
        <4> QED BY <4>1, <2>b, Elsewhere DEF Frozen, Holding, Freezing, Entitled
      <3> QED BY <3>1, <3>2
    <2>15. CASE WriteSummary(p)
      BY <2>15, QuitKeeps DEF WriteSummary
    <2>16. CASE Crash(p)
      BY <2>16, QuitKeeps DEF Crash
    <2> QED BY <1>3, <2>1, <2>2, <2>3, <2>4, <2>5, <2>6, <2>7, <2>8, <2>9, <2>10, <2>11, <2>12,
               <2>13, <2>14, <2>15, <2>16, <2>17, <2>18, <2>19, <2>20 DEF ProcessStep
  <1> QED BY <1>1, <1>2, <1>3 DEF QueueNext

(* The evidence queue's inductive invariant: holders of an attempt are alone, *)
(* and the metadata of a reservation are those of all earlier ones            *)
THEOREM QueueInvariantHolds == QueueSpec => []QueueInv
  BY QueueInitial, QueueStep, PTL DEF QueueSpec

(* An attempt is run once at most, however many processes race for it, crash *)
(* or are started again                                                      *)
THEOREM AttemptsRunOnce == QueueSpec => []AttemptRunsOnce
  <1>1. QueueInv => AttemptRunsOnce
    BY DEF QueueInv, HoldersAlone, AttemptRunsOnce
  <1> QED BY <1>1, QueueInvariantHolds, PTL

(* The reservations on disk are of one protocol, without a gap *)
THEOREM ReservationsAreOneProtocol == QueueSpec => []OneProtocol
  <1>1. QueueInv => OneProtocol
    BY DEF QueueInv
  <1> QED BY <1>1, QueueInvariantHolds, PTL

-----------------------------------------------------------------------------
(* The summary *)

Filing == [outcome : Outcomes, meta : Meta]

Reading == {"reservations", "results", "summarize"}

(* The outcomes in a tally are those of reserved attempts, and PASS and FAIL *)
(* are filed with what the reservation had frozen                            *)
OfEvidence(tally, filed, reserved) ==
  /\ tally \in Seq(Outcomes)
  /\ \A k \in 1..Len(tally) :
       /\ k \in Attempts /\ reserved[k] # NoMeta
       /\ tally[k] \in {"PASS", "FAIL"} =>
            filed[k] = [outcome |-> tally[k], meta |-> reserved[k]]

(* What a process knows at a place: found is empty, the outcome it is about *)
(* to file, or the evidence that it has read so far                         *)
Knows(place, n, m, tally, filed, reserved) ==
  /\ place \in {"report", "file"} => tally[1] \in Outcomes /\ m \in Meta
  /\ place \in Reading =>
       /\ OfEvidence(tally, filed, reserved)
       /\ \A k \in 1..Len(tally) : reserved[k] = m
  /\ place \notin Reading \cup {"report", "file"} => tally = <<>>
  /\ place = "reservations" => n \in Attempts
  /\ place = "results" => n \in Nat \ {0}

EvidenceInv ==
  /\ results \in [Attempts -> Filing \cup {NoResult}]
  /\ found = [p \in Processes |-> found[p]]
  /\ \A p \in Processes : Knows(at[p], attempt[p], meta[p], found[p], results, reservations)
  /\ summary # NoSummary =>
       OfEvidence(summary.tally, results, reservations) /\ summary.class = Classify(summary.tally)

LEMMA NothingRead == \A filed, reserved : OfEvidence(<<>>, filed, reserved)
  BY DEF OfEvidence

LEMMA EvidenceInitial == QueueInit => EvidenceInv
  BY DEF QueueInit, EvidenceInv, Knows, Reading, Holding

LEMMA NoResultIsNone == NoResult \notin Filing
  BY DEF NoResult, Filing, Outcomes

(* Files are created and never changed *)
FilesStay(filed, reserved, filedNext, reservedNext) ==
  \A n \in Attempts :
    /\ reserved[n] # NoMeta => reservedNext[n] = reserved[n]
    /\ filed[n] # NoResult => filedNext[n] = filed[n]

LEMMA EvidenceStays ==
  ASSUME NEW filed, NEW reserved, NEW filedNext, NEW reservedNext,
         FilesStay(filed, reserved, filedNext, reservedNext),
         NEW tally, OfEvidence(tally, filed, reserved)
  PROVE  OfEvidence(tally, filedNext, reservedNext)
  <1> SUFFICES ASSUME NEW k \in 1..Len(tally)
               PROVE  /\ reservedNext[k] # NoMeta
                      /\ tally[k] \in {"PASS", "FAIL"} =>
                           filedNext[k] = [outcome |-> tally[k], meta |-> reservedNext[k]]
    BY DEF OfEvidence
  <1>1. k \in Attempts /\ reserved[k] # NoMeta
    BY DEF OfEvidence
  <1>2. reservedNext[k] = reserved[k]
    BY <1>1 DEF FilesStay
  <1>3. ASSUME tally[k] \in {"PASS", "FAIL"}
        PROVE  filedNext[k] = [outcome |-> tally[k], meta |-> reservedNext[k]]
    <2>1. filed[k] = [outcome |-> tally[k], meta |-> reserved[k]]
      BY <1>3 DEF OfEvidence
    <2>2. filed[k] # NoResult
      <3>1. filed[k].outcome = tally[k] BY <2>1
      <3>2. NoResult.outcome = "" BY DEF NoResult
      <3> QED BY <1>3, <3>1, <3>2
    <2> QED BY <1>1, <1>2, <2>1, <2>2 DEF FilesStay
  <1> QED BY <1>1, <1>2, <1>3

LEMMA KnowledgeStays ==
  ASSUME NEW filed, NEW reserved, NEW filedNext, NEW reservedNext,
         FilesStay(filed, reserved, filedNext, reservedNext),
         NEW place, NEW n, NEW m, NEW tally, Knows(place, n, m, tally, filed, reserved)
  PROVE  Knows(place, n, m, tally, filedNext, reservedNext)
  <1>1. ASSUME place \in Reading
        PROVE  /\ OfEvidence(tally, filedNext, reservedNext)
               /\ \A k \in 1..Len(tally) : reservedNext[k] = m
    <2>1. OfEvidence(tally, filed, reserved) /\ \A k \in 1..Len(tally) : reserved[k] = m
      BY <1>1 DEF Knows
    <2>2. OfEvidence(tally, filedNext, reservedNext)
      BY <2>1, EvidenceStays
    <2>3. \A k \in 1..Len(tally) : reservedNext[k] = reserved[k]
      BY <2>1 DEF OfEvidence, FilesStay
    <2> QED BY <2>1, <2>2, <2>3
  <1> QED BY <1>1 DEF Knows

(* A step of one process: what it knows after it has to be shown, the rest *)
(* follows from the files' staying as they are                             *)
LEMMA OneLearns ==
  ASSUME EvidenceInv, NEW p \in Processes,
         results' \in [Attempts -> Filing \cup {NoResult}],
         FilesStay(results, reservations, results', reservations'),
         UNCHANGED summary,
         \A q \in Processes \ {p} :
           at'[q] = at[q] /\ attempt'[q] = attempt[q] /\ meta'[q] = meta[q] /\ found'[q] = found[q],
         found' = [q \in Processes |-> found'[q]],
         Knows(at'[p], attempt'[p], meta'[p], found'[p], results', reservations')
  PROVE  EvidenceInv'
  <1>1. ASSUME NEW q \in Processes
        PROVE  Knows(at'[q], attempt'[q], meta'[q], found'[q], results', reservations')
    <2>1. CASE q = p BY <2>1
    <2>2. CASE q # p
      <3>1. Knows(at[q], attempt[q], meta[q], found[q], results, reservations)
        BY DEF EvidenceInv
      <3>2. Knows(at[q], attempt[q], meta[q], found[q], results', reservations')
        BY <3>1, KnowledgeStays
      <3> QED BY <2>2, <3>2
    <2> QED BY <2>1, <2>2
  <1>2. summary # NoSummary => OfEvidence(summary.tally, results', reservations')
    BY EvidenceStays DEF EvidenceInv
  <1> QED BY <1>1, <1>2 DEF EvidenceInv

LEMMA SameFiles == FilesStay(results, reservations, results, reservations)
  BY DEF FilesStay

(* A step that leaves the files alone *)
LEMMA OneGoes ==
  ASSUME QueueInv, EvidenceInv, NEW p \in Processes, UNCHANGED files,
         NEW place, NEW n, NEW m, NEW tally,
         at' = [at EXCEPT ![p] = place],
         attempt' = [attempt EXCEPT ![p] = n],
         meta' = [meta EXCEPT ![p] = m],
         found' = [found EXCEPT ![p] = tally],
         Knows(place, n, m, tally, results, reservations)
  PROVE  EvidenceInv'
  <1>1. /\ at = [q \in Processes |-> at[q]]
        /\ attempt = [q \in Processes |-> attempt[q]]
        /\ meta = [q \in Processes |-> meta[q]]
        /\ found = [q \in Processes |-> found[q]]
    BY DEF QueueInv, EvidenceInv
  <1>2. /\ at'[p] = place /\ attempt'[p] = n /\ meta'[p] = m /\ found'[p] = tally
        /\ found' = [q \in Processes |-> found'[q]]
        /\ \A q \in Processes \ {p} :
             at'[q] = at[q] /\ attempt'[q] = attempt[q] /\ meta'[q] = meta[q] /\ found'[q] = found[q]
    BY <1>1
  <1>3. results' = results /\ reservations' = reservations /\ summary' = summary
    BY DEF files
  <1>4. FilesStay(results, reservations, results', reservations')
    BY <1>3, SameFiles
  <1>5. Knows(at'[p], attempt'[p], meta'[p], found'[p], results', reservations')
    BY <1>2, <1>3
  <1>6. results' \in [Attempts -> Filing \cup {NoResult}]
    BY <1>3 DEF EvidenceInv
  <1> QED BY <1>2, <1>3, <1>4, <1>5, <1>6, OneLearns

LEMMA OffKnows == \A n, m, filed, reserved : Knows("off", n, m, <<>>, filed, reserved)
  BY DEF Knows, Reading

LEMMA QuitForgets ==
  ASSUME QueueInv, EvidenceInv, NEW p \in Processes, Quit(p), UNCHANGED files
  PROVE  EvidenceInv'
  BY OneGoes, OffKnows DEF Quit, Go

(* What a place does not ask for is kept as it is *)
LEMMA GoKeeps ==
  ASSUME QueueInv, EvidenceInv, NEW p \in Processes, NEW place, Go(p, place), UNCHANGED files, Stay,
         Knows(place, attempt[p], meta[p], found[p], results, reservations)
  PROVE  EvidenceInv'
  <1>1. /\ attempt' = [attempt EXCEPT ![p] = attempt[p]]
        /\ meta' = [meta EXCEPT ![p] = meta[p]]
        /\ found' = [found EXCEPT ![p] = found[p]]
    BY DEF QueueInv, EvidenceInv, Stay
  <1> QED BY <1>1, OneGoes DEF Go

LEMMA FileResultIsEvidence ==
  ASSUME QueueInv, EvidenceInv, NEW p \in Processes, FileResult(p)
  PROVE  EvidenceInv'
  <1> DEFINE n == attempt[p]
             result == [outcome |-> found[p][1], meta |-> meta[p]]
  <1>1. CASE UNCHANGED results
    BY <1>1, QuitForgets DEF FileResult, files
  <1>2. CASE results' # results
    <2>1. ~Filed(n) /\ results' = [results EXCEPT ![n] = result] /\ n \in Attempts
      BY <1>2 DEF FileResult, CanWrite, QueueInv, HoldersAlone, Entitled, Holding, Frozen
    <2>2. result \in Filing
      <3>1. Knows(at[p], attempt[p], meta[p], found[p], results, reservations) /\ at[p] = "file"
        BY DEF EvidenceInv, FileResult
      <3>2. found[p][1] \in Outcomes /\ meta[p] \in Meta
        BY <3>1 DEF Knows
      <3> QED BY <3>2 DEF Filing
    <2>3. results' \in [Attempts -> Filing \cup {NoResult}]
      BY <2>1, <2>2 DEF EvidenceInv
    <2>4. reservations' = reservations /\ summary' = summary
      BY DEF FileResult
    <2>5. FilesStay(results, reservations, results', reservations')
      BY <2>1, <2>4 DEF FilesStay, EvidenceInv, Filed
    <2>6. /\ \A q \in Processes \ {p} :
               /\ at'[q] = at[q] /\ attempt'[q] = attempt[q]
               /\ meta'[q] = meta[q] /\ found'[q] = found[q]
          /\ at'[p] = "off" /\ found'[p] = <<>>
          /\ found' = [q \in Processes |-> found'[q]]
      BY DEF FileResult, Quit, Go, QueueInv, EvidenceInv
    <2>7. Knows(at'[p], attempt'[p], meta'[p], found'[p], results', reservations')
      BY <2>6, OffKnows
    <2> QED BY <2>3, <2>4, <2>5, <2>6, <2>7, OneLearns
  <1> QED BY <1>1, <1>2

LEMMA ReserveIsEvidence ==
  ASSUME QueueInv, EvidenceInv, NEW p \in Processes, Reserve(p)
  PROVE  EvidenceInv'
  <1> DEFINE n == attempt[p]
  <1>1. /\ ~Reserved(n) /\ reservations' = [reservations EXCEPT ![n] = meta[p]]
        /\ UNCHANGED <<results, summary, attempt, meta, found>>
        /\ at[p] = "reserve" /\ at' = [at EXCEPT ![p] = "verify"]
    BY DEF Reserve, CanWrite, Go, Stay
  <1>2. FilesStay(results, reservations, results', reservations')
    BY <1>1 DEF FilesStay, QueueInv, Reserved
  <1>3. /\ \A q \in Processes \ {p} : at'[q] = at[q]
        /\ at'[p] = "verify"
    BY <1>1 DEF QueueInv
  <1>4. found[p] = <<>>
    <2>1. Knows(at[p], attempt[p], meta[p], found[p], results, reservations)
      BY DEF EvidenceInv
    <2> QED BY <1>1, <2>1 DEF Knows, Reading
  <1>5. Knows(at'[p], attempt'[p], meta'[p], found'[p], results', reservations')
    BY <1>1, <1>3, <1>4 DEF Knows, Reading
  <1>6. results' \in [Attempts -> Filing \cup {NoResult}] /\ found' = [q \in Processes |-> found'[q]]
    BY <1>1 DEF EvidenceInv
  <1> QED BY <1>1, <1>2, <1>3, <1>5, <1>6, OneLearns

LEMMA ReadReservationIsEvidence ==
  ASSUME QueueInv, EvidenceInv, NEW p \in Processes, ReadReservation(p)
  PROVE  EvidenceInv'
  <1> DEFINE n == attempt[p]
             stops == (Reserved(n) /\ ~ContinuesCount(p, n)) \/ (~Reserved(n) /\ Filed(n))
             tally == IF Reserved(n) THEN Append(found[p], "INVALID_INFRA") ELSE found[p]
             m == IF Reserved(n) THEN reservations[n] ELSE meta[p]
             place == IF n = Planned THEN "results" ELSE "reservations"
             next == IF n = Planned THEN 1 ELSE n + 1
  <1>1. at[p] = "reservations" /\ UNCHANGED files
    BY DEF ReadReservation
  <1>2. CASE stops
    BY <1>1, <1>2, QuitForgets DEF ReadReservation
  <1>3. CASE ~stops
    <2>1. Knows("reservations", n, meta[p], found[p], results, reservations)
      BY <1>1 DEF EvidenceInv
    <2>2. /\ n \in Attempts /\ found[p] \in Seq(Outcomes)
          /\ OfEvidence(found[p], results, reservations)
          /\ \A k \in 1..Len(found[p]) : reservations[k] = meta[p]
      BY <2>1 DEF Knows, Reading, OfEvidence
    <2>3. next \in Attempts
      BY <2>2, QueueConstants DEF Attempts
    <2>4. OfEvidence(tally, results, reservations) /\ \A k \in 1..Len(tally) : reservations[k] = m
      <3>1. CASE Reserved(n)
        <4>1. Len(found[p]) = n - 1 /\ (n > 1 => reservations[n] = meta[p])
          BY <1>3, <3>1 DEF ContinuesCount
        <4>2. /\ tally \in Seq(Outcomes) /\ Len(tally) = n /\ tally[n] = "INVALID_INFRA"
              /\ \A k \in 1..n - 1 : tally[k] = found[p][k]
          BY <2>2, <3>1, <4>1 DEF Outcomes, Attempts
        <4>3. \A k \in 1..n : k = n \/ (k \in 1..n - 1 /\ n > 1)
          BY <2>2, QueueConstants DEF Attempts
        <4> QED BY <2>2, <3>1, <4>1, <4>2, <4>3 DEF OfEvidence, Reserved
      <3>2. CASE ~Reserved(n)
        BY <2>2, <3>2
      <3> QED BY <3>1, <3>2
    <2>5. Knows(place, next, m, tally, results, reservations)
      BY <2>3, <2>4 DEF Knows, Reading, Attempts
    <2>6. at' = [at EXCEPT ![p] = place]
      BY <1>1, <1>3 DEF ReadReservation, Go, QueueInv
    <2>7. attempt' = [attempt EXCEPT ![p] = next]
      BY <1>3 DEF ReadReservation
    <2>8. meta' = [meta EXCEPT ![p] = m] /\ found' = [found EXCEPT ![p] = tally]
      BY <1>3 DEF ReadReservation, QueueInv, EvidenceInv
    <2> HIDE DEF tally, m, place, next
    <2> QED BY <1>1, <2>5, <2>6, <2>7, <2>8, OneGoes
  <1> QED BY <1>2, <1>3

LEMMA ReadResultIsEvidence ==
  ASSUME QueueInv, EvidenceInv, NEW p \in Processes, ReadResult(p)
  PROVE  EvidenceInv'
  <1> DEFINE n == attempt[p]
             tally == IF Filed(n) THEN [found[p] EXCEPT ![n] = results[n].outcome] ELSE found[p]
  <1>1. at[p] = "results" /\ UNCHANGED files /\ n <= Len(found[p])
    BY DEF ReadResult
  <1>2. CASE Filed(n) /\ ~Fits(results[n], meta[p])
    BY <1>1, <1>2, QuitForgets DEF ReadResult
  <1>3. CASE ~(Filed(n) /\ ~Fits(results[n], meta[p]))
    <2>1. Knows("results", n, meta[p], found[p], results, reservations)
      BY <1>1 DEF EvidenceInv
    <2>2. /\ n \in Nat \ {0} /\ found[p] \in Seq(Outcomes)
          /\ OfEvidence(found[p], results, reservations)
          /\ \A k \in 1..Len(found[p]) : reservations[k] = meta[p]
      BY <2>1 DEF Knows, Reading, OfEvidence
    <2>3. OfEvidence(tally, results, reservations)
          /\ \A k \in 1..Len(tally) : reservations[k] = meta[p]
      <3>1. CASE Filed(n)
        <4>1. n \in 1..Len(found[p])
          <5>1. Len(found[p]) \in Nat BY <2>2
          <5> QED BY <1>1, <2>2, <5>1
        <4>a. n \in Attempts
          BY <2>2, <4>1 DEF OfEvidence
        <4>2. results[n] \in Filing
          BY <3>1, <4>a DEF EvidenceInv, Filed
        <4>3. results[n].meta = meta[p] /\ reservations[n] = meta[p]
          BY <1>3, <2>2, <3>1, <4>1 DEF Fits
        <4>4. results[n] = [outcome |-> results[n].outcome, meta |-> reservations[n]]
              /\ results[n].outcome \in Outcomes
          BY <4>2, <4>3 DEF Filing
        <4>5. /\ tally \in Seq(Outcomes) /\ Len(tally) = Len(found[p])
              /\ \A k \in 1..Len(tally) : tally[k] = IF k = n THEN results[n].outcome ELSE found[p][k]
          BY <2>2, <3>1, <4>1, <4>4
        <4> HIDE DEF tally
        <4> QED BY <2>2, <4>4, <4>5 DEF OfEvidence
      <3>2. CASE ~Filed(n)
        BY <2>2, <3>2
      <3> QED BY <3>1, <3>2
    <2>4. Knows("results", n + 1, meta[p], tally, results, reservations)
      BY <2>2, <2>3 DEF Knows, Reading
    <2>5. at' = [at EXCEPT ![p] = "results"] /\ meta' = [meta EXCEPT ![p] = meta[p]]
      BY <1>1, <1>3 DEF ReadResult, QueueInv
    <2>6. attempt' = [attempt EXCEPT ![p] = n + 1]
      BY <1>3, Zenon DEF ReadResult
    <2>7. found' = [found EXCEPT ![p] = tally]
      BY <1>3 DEF ReadResult, EvidenceInv
    <2> HIDE DEF tally
    <2> QED BY <1>1, <2>4, <2>5, <2>6, <2>7, OneGoes
  <1> QED BY <1>2, <1>3

LEMMA WriteSummaryIsEvidence ==
  ASSUME QueueInv, EvidenceInv, NEW p \in Processes, WriteSummary(p)
  PROVE  EvidenceInv'
  <1>1. CASE UNCHANGED summary
    BY <1>1, QuitForgets DEF WriteSummary, files
  <1>2. CASE summary' # summary
    <2>1. /\ summary' = [tally |-> found[p], class |-> Classify(found[p])]
          /\ UNCHANGED <<results, reservations>> /\ at[p] = "summarize"
      BY <1>2 DEF WriteSummary
    <2>2. Knows(at[p], attempt[p], meta[p], found[p], results, reservations)
      BY DEF EvidenceInv
    <2>3. OfEvidence(found[p], results, reservations)
      BY <2>1, <2>2 DEF Knows, Reading
    <2>4. OfEvidence(summary'.tally, results', reservations')
          /\ summary'.class = Classify(summary'.tally)
      BY <2>1, <2>3
    <2>5. ASSUME NEW q \in Processes
          PROVE  Knows(at'[q], attempt'[q], meta'[q], found'[q], results', reservations')
      <3>1. CASE q = p
        <4>1. at'[p] = "off" /\ found'[p] = <<>>
          BY DEF WriteSummary, Quit, Go, QueueInv, EvidenceInv
        <4> QED BY <3>1, <4>1, OffKnows
      <3>2. CASE q # p
        <4>1. at'[q] = at[q] /\ attempt'[q] = attempt[q] /\ meta'[q] = meta[q] /\ found'[q] = found[q]
          BY <3>2 DEF WriteSummary, Quit, Go, QueueInv, EvidenceInv
        <4> QED BY <2>1, <4>1 DEF EvidenceInv
      <3> QED BY <3>1, <3>2
    <2>6. found' = [q \in Processes |-> found'[q]]
      BY DEF WriteSummary, Quit, EvidenceInv
    <2> QED BY <2>1, <2>4, <2>5, <2>6 DEF EvidenceInv
  <1> QED BY <1>1, <1>2

LEMMA EvidenceStep ==
  ASSUME QueueInv, EvidenceInv, [QueueNext]_queueVars
  PROVE  EvidenceInv'
  <1>1. CASE UNCHANGED queueVars
    BY <1>1 DEF queueVars, files, locals, EvidenceInv
  <1>2. CASE EditTree
    BY <1>2 DEF EditTree, files, EvidenceInv
  <1>3. ASSUME NEW p \in Processes, ProcessStep(p)
        PROVE  EvidenceInv'
    <2>a. /\ attempt = [attempt EXCEPT ![p] = attempt[p]]
          /\ meta = [meta EXCEPT ![p] = meta[p]]
          /\ found = [found EXCEPT ![p] = found[p]]
      BY DEF QueueInv, EvidenceInv
    <2>b. Knows(at[p], attempt[p], meta[p], found[p], results, reservations)
      BY DEF EvidenceInv
    <2>c. UNCHANGED <<reservations, results, summary>> <=> UNCHANGED files
      BY DEF files
    <2>1. ASSUME NEW n \in Attempts, Start(p, n) PROVE EvidenceInv'
      <3>1. Knows("freeze", n, meta[p], found[p], results, reservations)
        BY <2>1, <2>b DEF Start, Knows, Reading
      <3> QED BY <2>1, <2>a, <3>1, OneGoes DEF Start, Go
    <2>2. CASE Validate(p)
      <3>1. ASSUME NEW place \in {"freezeFixture", "hashFixture"}
            PROVE  Knows(place, attempt[p], meta[p], found[p], results, reservations)
        BY <2>2, <2>b DEF Validate, Knows, Reading
      <3> QED BY <2>2, <3>1, GoKeeps, QuitForgets DEF Validate, Refuse
    <2>17. CASE HashFixture(p) \/ HashPrompts(p) \/ HashCode(p)
      <3>1. ASSUME NEW place \in {"freezePrompts", "freezeCode", "hashPrompts", "copy", "previous"},
                   NEW m
            PROVE  Knows(place, attempt[p], m, found[p], results, reservations)
        BY <2>17, <2>b DEF HashFixture, HashPrompts, HashCode, Knows, Reading
      <3>2. PICK place \in {"freezePrompts", "freezeCode", "hashPrompts", "copy", "previous"} :
              at' = [at EXCEPT ![p] = place]
        BY <2>17 DEF HashFixture, HashPrompts, HashCode, Go
      <3>3. PICK m : meta' = [meta EXCEPT ![p] = m]
        BY <2>17 DEF HashFixture, HashPrompts, HashCode
      <3>4. /\ UNCHANGED files
            /\ attempt' = [attempt EXCEPT ![p] = attempt[p]] /\ found' = [found EXCEPT ![p] = found[p]]
        BY <2>17, <2>a DEF HashFixture, HashPrompts, HashCode
      <3> QED BY <3>1, <3>2, <3>3, <3>4, OneGoes
    <2>18. CASE PromptsMissing(p)
      BY <2>18, QuitForgets DEF PromptsMissing, Refuse
    <2>19. CASE ReadPrompts(p)
      <3>1. Knows("check", attempt[p], meta[p], found[p], results, reservations)
        BY <2>19, <2>b DEF ReadPrompts, Knows, Reading
      <3> QED BY <2>19, <3>1, GoKeeps, QuitForgets DEF ReadPrompts, Refuse
    <2>20. CASE CheckPrompts(p)
      <3>1. Knows("validate", attempt[p], meta[p], found[p], results, reservations)
        BY <2>20, <2>b DEF CheckPrompts, Knows, Reading
      <3> QED BY <2>20, <3>1, GoKeeps, QuitForgets DEF CheckPrompts, Refuse
    <2>3. CASE CheckPrevious(p)
      <3>1. Knows("reserve", attempt[p], meta[p], found[p], results, reservations)
        BY <2>3, <2>b DEF CheckPrevious, Knows, Reading
      <3> QED BY <2>3, <3>1, GoKeeps, QuitForgets DEF CheckPrevious
    <2>4. CASE Reserve(p)
      BY <2>4, ReserveIsEvidence
    <2>5. CASE ReserveTooLate(p)
      BY <2>5, QuitForgets DEF ReserveTooLate
    <2>6. CASE Verify(p)
      <3>1. Knows("prompts", attempt[p], meta[p], found[p], results, reservations)
        BY <2>6, <2>b DEF Verify, Knows, Reading
      <3> QED BY <2>6, <3>1, GoKeeps, QuitForgets DEF Verify
    <2>7. ASSUME NEW outcome \in Outcomes, Run(p, outcome) PROVE EvidenceInv'
      <3>1. meta[p] \in Meta
        BY <2>7 DEF QueueInv, HoldersAlone, Entitled, Run, Frozen, Holding
      <3>2. Knows("report", attempt[p], meta[p], <<outcome>>, results, reservations)
        BY <3>1 DEF Knows, Reading
      <3>3. found' = [found EXCEPT ![p] = <<outcome>>]
            /\ at' = [at EXCEPT ![p] = "report"] /\ UNCHANGED <<files, attempt, meta>>
        BY <2>7 DEF Run, Go
      <3> QED BY <2>a, <3>2, <3>3, OneGoes
    <2>8. CASE WithholdReport(p)
      BY <2>8, QuitForgets DEF WithholdReport
    <2>9. CASE LookAtResult(p)
      <3>1. Knows("file", attempt[p], meta[p], found[p], results, reservations)
        BY <2>9, <2>b DEF LookAtResult, Knows, Reading
      <3> QED BY <2>9, <3>1, GoKeeps, QuitForgets DEF LookAtResult
    <2>10. CASE FileResult(p)
      BY <2>10, FileResultIsEvidence
    <2>11. CASE StartSummary(p)
      <3>1. found[p] = <<>>
        BY <2>11, <2>b DEF StartSummary, Knows, Reading
      <3>2. Knows("reservations", 1, meta[p], found[p], results, reservations)
        BY <3>1, NothingRead, QueueConstants DEF Knows, Attempts
      <3> QED BY <2>11, <2>a, <3>2, OneGoes DEF StartSummary, Go
    <2>12. CASE ReadReservation(p)
      BY <2>12, ReadReservationIsEvidence
    <2>13. CASE ReadResult(p)
      BY <2>13, ReadResultIsEvidence
    <2>14. CASE LookAtSummary(p)
      <3>1. Knows("summarize", attempt[p], meta[p], found[p], results, reservations)
        BY <2>14, <2>b DEF LookAtSummary, Knows, Reading
      <3> QED BY <2>14, <3>1, GoKeeps, QuitForgets DEF LookAtSummary
    <2>15. CASE WriteSummary(p)
      BY <2>15, WriteSummaryIsEvidence
    <2>16. CASE Crash(p)
      BY <2>16, QuitForgets DEF Crash
    <2> QED BY <1>3, <2>1, <2>2, <2>3, <2>4, <2>5, <2>6, <2>7, <2>8, <2>9, <2>10, <2>11, <2>12,
               <2>13, <2>14, <2>15, <2>16, <2>17, <2>18, <2>19, <2>20 DEF ProcessStep
  <1> QED BY <1>1, <1>2, <1>3 DEF QueueNext

(* A finite set of two or more has two different members *)
LEMMA TwoMembers ==
  ASSUME NEW S, IsFiniteSet(S)
  PROVE  /\ Cardinality(S) \in Nat
         /\ Cardinality(S) = 0 => S = {}
         /\ Cardinality(S) >= 2 => \E m, n \in S : m # n
  <1>1. Cardinality(S) \in Nat /\ (Cardinality(S) = 0 <=> S = {})
    BY FS_CardinalityType, FS_EmptySet
  <1>2. ASSUME Cardinality(S) >= 2, \A m, n \in S : m = n PROVE FALSE
    <2>1. S # {} BY <1>1, <1>2
    <2>2. PICK m \in S : TRUE BY <2>1
    <2>3. S = {m} BY <1>2
    <2>4. Cardinality({m}) = 1 BY FS_Singleton
    <2> QED BY <1>2, <2>3, <2>4
  <1> QED BY <1>1, <1>2

LEMMA CountedFinite ==
  ASSUME NEW tally \in Seq(Outcomes), NEW outcomes
  PROVE  LET S == {k \in DOMAIN tally : tally[k] \in outcomes}
         IN  /\ Cardinality(S) \in Nat
             /\ Cardinality(S) = 0 => S = {}
             /\ Cardinality(S) >= 2 => \E m, n \in S : m # n
  <1> DEFINE S == {k \in DOMAIN tally : tally[k] \in outcomes}
  <1>1. IsFiniteSet(DOMAIN tally)
    <2>1. DOMAIN tally = 1..Len(tally) /\ Len(tally) \in Nat
      OBVIOUS
    <2> QED BY <2>1, FS_Interval
  <1>2. IsFiniteSet(S)
    BY <1>1, FS_Subset
  <1> QED BY <1>2, TwoMembers

LEMMA ClassIsOfTally ==
  ASSUME NEW tally \in Seq(Outcomes)
  PROVE  LET filed == {n \in DOMAIN tally : tally[n] \in {"PASS", "FAIL"}}
             passed == {n \in filed : tally[n] = "PASS"}
         IN  /\ Classify(tally) = "O1B_SUPPORTED" => \E m, n \in passed : m # n
             /\ Classify(tally) = "O1B_NOT_SUPPORTED" => passed = {} /\ \E m, n \in filed : m # n
  <1> DEFINE filed == {n \in DOMAIN tally : tally[n] \in {"PASS", "FAIL"}}
             passed == {n \in filed : tally[n] = "PASS"}
             P == {n \in DOMAIN tally : tally[n] \in {"PASS"}}
  <1>1. passed = P
    OBVIOUS
  <1>2. /\ Cardinality(filed) \in Nat
        /\ Cardinality(filed) >= 2 => \E m, n \in filed : m # n
    BY CountedFinite
  <1>3. /\ Cardinality(P) \in Nat /\ (Cardinality(P) = 0 => P = {})
        /\ Cardinality(P) >= 2 => \E m, n \in P : m # n
    BY CountedFinite
  <1>4. Classify(tally) =
          IF Cardinality(filed) < 2 THEN "O1B_INCONCLUSIVE"
          ELSE IF Cardinality(P) >= 2 THEN "O1B_SUPPORTED"
          ELSE IF Cardinality(P) = 1 THEN "O1B_MIXED"
          ELSE "O1B_NOT_SUPPORTED"
    BY DEF Classify, Counted
  <1> HIDE DEF filed, passed, P
  <1>5. Classify(tally) = "O1B_SUPPORTED" => \E m, n \in P : m # n
    BY <1>2, <1>3, <1>4
  <1>6. Classify(tally) = "O1B_NOT_SUPPORTED" => P = {} /\ \E m, n \in filed : m # n
    BY <1>2, <1>3, <1>4
  <1> QED BY <1>1, <1>5, <1>6 DEF filed, passed, P

-----------------------------------------------------------------------------
(* What an attempt was run with *)

Using == {"validate", "hashFixture", "hashPrompts", "copy", "report", "file"}

(* What a process has looked at is what it uses, if nobody edits it between *)
Seen(place, n, m) ==
  n \notin slipped =>
    /\ place \in {"validate", "hashFixture", "hashPrompts"} => used[n].prompts = tree.prompts
    /\ place \in {"hashPrompts", "copy"} => m.fixture = tree.fixture
    /\ place = "copy" => used[n].prompts = m.prompts
    /\ place \in {"report", "file"} => used[n] = Inputs(m)

InputsInv ==
  /\ used = [n \in Attempts |-> used[n]]
  /\ \A n \in Attempts : used[n] = [fixture |-> used[n].fixture, prompts |-> used[n].prompts]
  /\ \A n \in Attempts :
       Filed(n) => ran[n] = 1 /\ (n \in slipped \/ used[n] = Inputs(results[n].meta))
  /\ \A p \in Processes :
       /\ at[p] \in {"report", "file"} => ran[attempt[p]] = 1
       /\ Seen(at[p], attempt[p], meta[p])

LEMMA InputsInitial == QueueInit => InputsInv
  BY DEF QueueInit, InputsInv, Seen, NoInput, Filed

(* A step of one process that runs and files nothing *)
LEMMA OneSees ==
  ASSUME QueueInv, InputsInv, NEW p \in Processes, UNCHANGED <<tree, slipped, results, used, ran>>,
         \A q \in Processes \ {p} : at'[q] = at[q] /\ attempt'[q] = attempt[q] /\ meta'[q] = meta[q],
         at'[p] \in {"report", "file"} => ran[attempt'[p]] = 1,
         Seen(at'[p], attempt'[p], meta'[p])
  PROVE  InputsInv'
  <1>1. ASSUME NEW q \in Processes
        PROVE  /\ at'[q] \in {"report", "file"} => ran'[attempt'[q]] = 1
               /\ Seen(at[q], attempt[q], meta[q])'
    BY DEF InputsInv, Seen
  <1>2. \A n : Filed(n)' <=> Filed(n)
    BY DEF Filed
  <1> QED BY <1>1, <1>2 DEF InputsInv

LEMMA NothingUsed ==
  ASSUME QueueInv, InputsInv, NEW p \in Processes, UNCHANGED <<tree, slipped, results, used, ran>>,
         \A q \in Processes \ {p} : at'[q] = at[q] /\ attempt'[q] = attempt[q] /\ meta'[q] = meta[q],
         at'[p] \notin Using
  PROVE  InputsInv'
  BY OneSees DEF Seen, Using

(* The writes of one process leave the others where they are *)
LEMMA OthersStay ==
  ASSUME QueueInv, NEW p \in Processes, ProcessStep(p)
  PROVE  \A q \in Processes \ {p} :
           at'[q] = at[q] /\ attempt'[q] = attempt[q] /\ meta'[q] = meta[q]
  <1> SUFFICES ASSUME NEW q \in Processes \ {p}
               PROVE  at'[q] = at[q] /\ attempt'[q] = attempt[q] /\ meta'[q] = meta[q]
    OBVIOUS
  <1> USE DEF QueueInv, Quit, Go, Stay, Refuse
  <1>1. CASE \E n \in Attempts : Start(p, n)
    BY <1>1 DEF Start
  <1>2. CASE Validate(p)
    BY <1>2 DEF Validate
  <1>3. CASE HashFixture(p) \/ HashPrompts(p) \/ HashCode(p)
    BY <1>3 DEF HashFixture, HashPrompts, HashCode
  <1>4. CASE PromptsMissing(p) \/ CheckPrevious(p)
    BY <1>4 DEF PromptsMissing, CheckPrevious
  <1>5. CASE Reserve(p) \/ ReserveTooLate(p) \/ Verify(p)
    BY <1>5 DEF Reserve, ReserveTooLate, Verify
  <1>6. CASE ReadPrompts(p) \/ CheckPrompts(p)
    BY <1>6 DEF ReadPrompts, CheckPrompts
  <1>7. CASE \E outcome \in Outcomes : Run(p, outcome)
    BY <1>7 DEF Run
  <1>8. CASE WithholdReport(p) \/ LookAtResult(p) \/ FileResult(p)
    BY <1>8 DEF WithholdReport, LookAtResult, FileResult
  <1>9. CASE StartSummary(p) \/ LookAtSummary(p) \/ WriteSummary(p) \/ Crash(p)
    BY <1>9 DEF StartSummary, LookAtSummary, WriteSummary, Crash
  <1>10. CASE ReadReservation(p)
    BY <1>10 DEF ReadReservation
  <1>11. CASE ReadResult(p)
    BY <1>11 DEF ReadResult
  <1> QED BY <1>1, <1>2, <1>3, <1>4, <1>5, <1>6, <1>7, <1>8, <1>9, <1>10, <1>11 DEF ProcessStep

LEMMA RunUses ==
  ASSUME QueueInv, InputsInv, NEW p \in Processes, NEW outcome \in Outcomes, Run(p, outcome),
         ProcessStep(p)
  PROVE  InputsInv'
  <1> DEFINE n == attempt[p]
  <1>1. /\ at[p] = "copy" /\ at[p] \in Holding /\ n \in Attempts /\ ran[n] = 0
        /\ at'[p] = "report" /\ UNCHANGED <<tree, slipped, results, attempt, meta>>
        /\ used' = [used EXCEPT ![n].fixture = tree.fixture] /\ ran' = [ran EXCEPT ![n] = @ + 1]
    BY DEF Run, Go, QueueInv, HoldersAlone, Entitled, Frozen, Holding, repository, files
  <1>2. /\ ran'[n] = 1 /\ used'[n] = [fixture |-> tree.fixture, prompts |-> used[n].prompts]
        /\ \A k \in Attempts \ {n} : ran'[k] = ran[k] /\ used'[k] = used[k]
        /\ used' = [k \in Attempts |-> used'[k]]
    BY <1>1 DEF QueueInv, InputsInv
  <1>3. Seen(at[p], n, meta[p])
    BY DEF InputsInv
  <1>4. n \in slipped \/ used'[n] = Inputs(meta[p])
    BY <1>1, <1>2, <1>3 DEF Seen, Inputs
  <1>5. ASSUME NEW q \in Processes
        PROVE  /\ at'[q] \in {"report", "file"} => ran'[attempt'[q]] = 1
               /\ Seen(at[q], attempt[q], meta[q])'
    <2>1. CASE q = p
      BY <1>1, <1>2, <1>4, <2>1 DEF Seen
    <2>2. CASE q # p
      <3>1. at'[q] = at[q] /\ attempt'[q] = attempt[q] /\ meta'[q] = meta[q]
        BY <2>2, OthersStay
      <3>2. CASE at[q] \in Holding
        <4>1. attempt[q] \in Attempts /\ attempt[q] # n
          BY <1>1, <2>2, <3>2 DEF QueueInv, HoldersAlone, Entitled, Frozen
        <4> QED BY <1>1, <1>2, <3>1, <4>1 DEF InputsInv, Seen
      <3>3. CASE at[q] \notin Holding
        BY <3>1, <3>3 DEF Seen, Holding
      <3> QED BY <3>2, <3>3
    <2> QED BY <2>1, <2>2
  <1>6. \A k \in Attempts : used'[k] = [fixture |-> used'[k].fixture, prompts |-> used'[k].prompts]
    BY <1>2 DEF InputsInv
  <1>7. \A k \in Attempts : Filed(k)' =>
          k # n /\ ran'[k] = 1 /\ (k \in slipped' \/ used'[k] = Inputs(results'[k].meta))
    BY <1>1, <1>2 DEF InputsInv, Filed
  <1> QED BY <1>2, <1>5, <1>6, <1>7 DEF InputsInv

LEMMA ReadPromptsUses ==
  ASSUME QueueInv, InputsInv, NEW p \in Processes, ReadPrompts(p), tree.prompts \in Readable,
         ProcessStep(p)
  PROVE  InputsInv'
  <1> DEFINE n == attempt[p]
  <1>1. /\ at[p] \in Holding /\ n \in Attempts /\ ran[n] = 0
        /\ at'[p] = "check" /\ UNCHANGED <<tree, slipped, results, ran, attempt, meta>>
        /\ used' = [used EXCEPT ![n].prompts = tree.prompts]
    BY DEF ReadPrompts, Go, Stay, QueueInv, HoldersAlone, Entitled, Frozen, Holding, repository, files
  <1>2. /\ used'[n] = [fixture |-> used[n].fixture, prompts |-> tree.prompts]
        /\ \A k \in Attempts \ {n} : used'[k] = used[k]
        /\ used' = [k \in Attempts |-> used'[k]]
    BY <1>1 DEF InputsInv
  <1>3. ASSUME NEW q \in Processes
        PROVE  /\ at'[q] \in {"report", "file"} => ran'[attempt'[q]] = 1
               /\ Seen(at[q], attempt[q], meta[q])'
    <2>1. CASE q = p
      BY <1>1, <2>1 DEF Seen
    <2>2. CASE q # p
      <3>1. at'[q] = at[q] /\ attempt'[q] = attempt[q] /\ meta'[q] = meta[q]
        BY <2>2, OthersStay
      <3>2. CASE at[q] \in Holding
        <4>1. attempt[q] \in Attempts /\ attempt[q] # n
          BY <1>1, <2>2, <3>2 DEF QueueInv, HoldersAlone, Entitled, Frozen
        <4> QED BY <1>1, <1>2, <3>1, <4>1 DEF InputsInv, Seen
      <3>3. CASE at[q] \notin Holding
        BY <3>1, <3>3 DEF Seen, Holding
      <3> QED BY <3>2, <3>3
    <2> QED BY <2>1, <2>2
  <1>4. \A k \in Attempts : used'[k] = [fixture |-> used'[k].fixture, prompts |-> used'[k].prompts]
    BY <1>2 DEF InputsInv
  <1>5. \A k \in Attempts : Filed(k)' =>
          k # n /\ ran'[k] = 1 /\ (k \in slipped' \/ used'[k] = Inputs(results'[k].meta))
    BY <1>1, <1>2 DEF InputsInv, Filed
  <1> QED BY <1>2, <1>3, <1>4, <1>5 DEF InputsInv

LEMMA FileResultUses ==
  ASSUME QueueInv, EvidenceInv, InputsInv, NEW p \in Processes, FileResult(p), ProcessStep(p)
  PROVE  InputsInv'
  <1> DEFINE n == attempt[p]
  <1>1. /\ at[p] = "file" /\ n \in Attempts /\ at'[p] = "off"
        /\ UNCHANGED <<tree, slipped, used, ran>>
    BY DEF FileResult, Quit, Go, QueueInv, HoldersAlone, Entitled, Frozen, Holding, repository, runs
  <1>2. CASE UNCHANGED results
    BY <1>1, <1>2, OthersStay, NothingUsed DEF Using
  <1>3. CASE results' = [results EXCEPT ![n] = [outcome |-> found[p][1], meta |-> meta[p]]]
    <2>1. ran[n] = 1 /\ (n \in slipped \/ used[n] = Inputs(meta[p]))
      BY <1>1 DEF InputsInv, Seen
    <2>2. ASSUME NEW k \in Attempts, Filed(k)'
          PROVE  ran'[k] = 1 /\ (k \in slipped' \/ used'[k] = Inputs(results'[k].meta))
      <3>1. CASE k = n
        <4>1. results'[n].meta = meta[p]
          BY <1>1, <1>3 DEF EvidenceInv
        <4> QED BY <1>1, <2>1, <3>1, <4>1
      <3>2. CASE k # n
        <4>1. results'[k] = results[k]
          BY <1>3, <3>2
        <4> QED BY <1>1, <2>2, <4>1 DEF InputsInv, Filed
      <3> QED BY <3>1, <3>2
    <2>3. ASSUME NEW q \in Processes
          PROVE  /\ at'[q] \in {"report", "file"} => ran'[attempt'[q]] = 1
                 /\ Seen(at[q], attempt[q], meta[q])'
      BY <1>1, OthersStay DEF InputsInv, Seen
    <2> QED BY <1>1, <2>2, <2>3 DEF InputsInv
  <1> QED BY <1>2, <1>3 DEF FileResult

LEMMA EditUses ==
  ASSUME QueueInv, InputsInv, EditTree
  PROVE  InputsInv'
  <1>1. UNCHANGED <<results, at, attempt, meta, used, ran>> /\ slipped \subseteq slipped'
    BY DEF EditTree, files, runs
  <1>2. ASSUME NEW q \in Processes PROVE Seen(at[q], attempt[q], meta[q])'
    <2>1. CASE SlipsBy(q)
      <3>1. attempt[q] \in slipped'
        BY <2>1 DEF EditTree
      <3> QED BY <1>1, <3>1 DEF Seen
    <2>2. CASE ~SlipsBy(q)
      <3>1. Seen(at[q], attempt[q], meta[q])
        BY DEF InputsInv
      <3> QED BY <1>1, <2>2, <3>1 DEF Seen, SlipsBy
    <2> QED BY <2>1, <2>2
  <1>3. \A n : Filed(n)' <=> Filed(n)
    BY <1>1 DEF Filed
  <1> QED BY <1>1, <1>2, <1>3 DEF InputsInv

LEMMA InputsStep ==
  ASSUME QueueInv, EvidenceInv, InputsInv, [QueueNext]_queueVars
  PROVE  InputsInv'
  <1>1. CASE UNCHANGED queueVars
    BY <1>1 DEF queueVars, repository, files, locals, runs, InputsInv, Seen, Filed
  <1>2. CASE EditTree
    BY <1>2, EditUses
  <1>3. ASSUME NEW p \in Processes, ProcessStep(p)
        PROVE  InputsInv'
    <2> USE DEF repository, files, runs
    <2>a. \A q \in Processes \ {p} : at'[q] = at[q] /\ attempt'[q] = attempt[q] /\ meta'[q] = meta[q]
      BY <1>3, OthersStay
    <2>b. at = [q \in Processes |-> at[q]] /\ meta = [q \in Processes |-> meta[q]]
      BY DEF QueueInv
    <2>c. Seen(at[p], attempt[p], meta[p]) /\ (at[p] \in {"report", "file"} => ran[attempt[p]] = 1)
      BY DEF InputsInv
    <2>d. ASSUME Quit(p) PROVE at'[p] = "off" /\ "off" \notin Using
      BY <2>b, <2>d DEF Quit, Go, Using
    <2>e. ASSUME NEW place, Go(p, place) PROVE at'[p] = place
      BY <2>b, <2>e DEF Go
    <2>f. ASSUME Stay PROVE attempt'[p] = attempt[p] /\ meta'[p] = meta[p]
      BY <2>f DEF Stay
    <2>1. ASSUME NEW n \in Attempts, Start(p, n) PROVE InputsInv'
      BY <2>1, <2>a, <2>e, NothingUsed DEF Start, Using
    <2>2. CASE Validate(p)
      <3>1. CASE Quit(p)
        BY <2>2, <2>a, <2>d, <3>1, NothingUsed DEF Validate
      <3>2. CASE ~Quit(p)
        <4>1. Stay /\ (at[p] = "freeze" => at'[p] = "freezeFixture")
              /\ (at[p] = "validate" => at'[p] = "hashFixture")
          BY <2>2, <2>e, <3>2 DEF Validate, Refuse
        <4>2. Seen(at'[p], attempt'[p], meta'[p])
          BY <2>2, <2>c, <2>f, <4>1 DEF Validate, Seen
        <4> QED BY <2>2, <2>a, <4>1, <4>2, OneSees DEF Validate
      <3> QED BY <3>1, <3>2
    <2>3. CASE HashFixture(p)
      <3>1. /\ attempt'[p] = attempt[p] /\ meta'[p] = [meta[p] EXCEPT !.fixture = tree.fixture]
            /\ at[p] = "freezeFixture" => at'[p] = "freezePrompts"
            /\ at[p] = "hashFixture" => at'[p] = "hashPrompts"
        BY <2>3, <2>b, <2>e DEF HashFixture
      <3>2. at[p] = "hashFixture" => meta'[p].fixture = tree.fixture
        <4>1. at[p] = "hashFixture" => meta[p] \in Meta
          BY DEF QueueInv, HoldersAlone, Entitled, Frozen, Holding
        <4> QED BY <3>1, <4>1 DEF Meta
      <3>3. Seen(at'[p], attempt'[p], meta'[p])
        BY <2>3, <2>c, <3>1, <3>2 DEF HashFixture, Seen
      <3> QED BY <2>3, <2>a, <3>1, <3>3, OneSees DEF HashFixture
    <2>4. CASE HashPrompts(p)
      <3>1. /\ attempt'[p] = attempt[p] /\ meta'[p] = [meta[p] EXCEPT !.prompts = tree.prompts]
            /\ at[p] = "freezePrompts" => at'[p] = "freezeCode"
            /\ at[p] = "hashPrompts" => at'[p] = "copy"
        BY <2>4, <2>b, <2>e DEF HashPrompts
      <3>2. at[p] = "hashPrompts" =>
              meta'[p].prompts = tree.prompts /\ meta'[p].fixture = meta[p].fixture
        <4>1. at[p] = "hashPrompts" => meta[p] \in Meta
          BY DEF QueueInv, HoldersAlone, Entitled, Frozen, Holding
        <4> QED BY <3>1, <4>1 DEF Meta
      <3>3. Seen(at'[p], attempt'[p], meta'[p])
        BY <2>4, <2>c, <3>1, <3>2 DEF HashPrompts, Seen
      <3> QED BY <2>4, <2>a, <3>1, <3>3, OneSees DEF HashPrompts
    <2>5. CASE HashCode(p)
      BY <2>5, <2>a, <2>e, NothingUsed DEF HashCode, Using
    <2>6. CASE PromptsMissing(p)
      BY <2>6, <2>a, <2>d, NothingUsed DEF PromptsMissing, Refuse
    <2>7. CASE CheckPrevious(p)
      BY <2>7, <2>a, <2>d, <2>e, NothingUsed DEF CheckPrevious, Using
    <2>8. CASE Reserve(p) \/ ReserveTooLate(p) \/ Verify(p)
      BY <2>8, <2>a, <2>d, <2>e, NothingUsed DEF Reserve, ReserveTooLate, Verify, Using
    <2>9. CASE ReadPrompts(p)
      <3>1. CASE tree.prompts \in Readable
        BY <1>3, <2>9, <3>1, ReadPromptsUses
      <3>2. CASE tree.prompts \notin Readable
        BY <2>9, <2>a, <2>d, <3>2, NothingUsed DEF ReadPrompts, Refuse
      <3> QED BY <3>1, <3>2
    <2>10. CASE CheckPrompts(p)
      <3>1. CASE Quit(p)
        BY <2>10, <2>a, <2>d, <3>1, NothingUsed DEF CheckPrompts
      <3>2. CASE ~Quit(p)
        <4>1. Stay /\ at'[p] = "validate" /\ tree.prompts = used[attempt[p]].prompts
          BY <2>10, <2>e, <3>2 DEF CheckPrompts, Refuse
        <4>2. Seen(at'[p], attempt'[p], meta'[p])
          BY <2>f, <4>1 DEF Seen
        <4> QED BY <2>10, <2>a, <4>1, <4>2, OneSees DEF CheckPrompts
      <3> QED BY <3>1, <3>2
    <2>11. ASSUME NEW outcome \in Outcomes, Run(p, outcome) PROVE InputsInv'
      BY <1>3, <2>11, RunUses
    <2>12. CASE WithholdReport(p)
      BY <2>12, <2>a, <2>d, NothingUsed DEF WithholdReport
    <2>13. CASE LookAtResult(p)
      <3>1. CASE Quit(p)
        BY <2>13, <2>a, <2>d, <3>1, NothingUsed DEF LookAtResult
      <3>2. CASE ~Quit(p)
        <4>1. Stay /\ at'[p] = "file" /\ at[p] = "report"
          BY <2>13, <2>e, <3>2 DEF LookAtResult
        <4>2. Seen(at'[p], attempt'[p], meta'[p])
          BY <2>c, <2>f, <4>1 DEF Seen
        <4> QED BY <2>13, <2>a, <2>c, <2>f, <4>1, <4>2, OneSees DEF LookAtResult
      <3> QED BY <3>1, <3>2
    <2>14. CASE FileResult(p)
      BY <1>3, <2>14, FileResultUses
    <2>15. CASE StartSummary(p)
      BY <2>15, <2>a, <2>e, NothingUsed DEF StartSummary, Using
    <2>16. CASE ReadReservation(p)
      <3>1. at'[p] \in {"off", "reservations", "results"}
        BY <2>16, <2>b, <2>d DEF ReadReservation, Go
      <3> QED BY <2>16, <2>a, <3>1, NothingUsed DEF ReadReservation, Using
    <2>17. CASE ReadResult(p)
      <3>1. at'[p] \in {"off", "results"}
        BY <2>17, <2>b, <2>d DEF ReadResult, Go
      <3> QED BY <2>17, <2>a, <3>1, NothingUsed DEF ReadResult, Using
    <2>18. CASE LookAtSummary(p)
      BY <2>18, <2>a, <2>d, <2>e, NothingUsed DEF LookAtSummary, Using
    <2>19. CASE WriteSummary(p)
      BY <2>19, <2>a, <2>d, NothingUsed DEF WriteSummary
    <2>20. CASE Crash(p)
      BY <2>20, <2>a, <2>d, NothingUsed DEF Crash
    <2> QED BY <1>3, <2>1, <2>2, <2>3, <2>4, <2>5, <2>6, <2>7, <2>8, <2>9, <2>10, <2>11, <2>12,
               <2>13, <2>14, <2>15, <2>16, <2>17, <2>18, <2>19, <2>20 DEF ProcessStep
  <1> QED BY <1>1, <1>2, <1>3 DEF QueueNext

(* What a summary claims is on disk: each PASS or FAIL it counts is filed,   *)
(* with what its reservation had frozen, and was got with that, unless the   *)
(* tree was edited between the run's look at it and its use, whoever crashed *)
(* or raced on the way                                                       *)
THEOREM SummariesAreOfEvidence == QueueSpec => []SummaryIsOfEvidence
  <1>1. EvidenceInv /\ InputsInv => SummaryIsOfEvidence
    <2> SUFFICES ASSUME EvidenceInv, InputsInv PROVE SummaryIsOfEvidence
      OBVIOUS
    <2>1. CASE summary = NoSummary
      <3>1. summary.class = "" /\ summary.tally = <<>>
        BY <2>1 DEF NoSummary
      <3>2. DOMAIN summary.tally = {}
        <4>1. <<>> \in Seq(Outcomes) /\ Len(<<>>) = 0
          OBVIOUS
        <4>2. DOMAIN <<>> = 1..0
          BY <4>1
        <4>3. 1..0 = {}
          OBVIOUS
        <4> QED BY <3>1, <4>2, <4>3
      <3> QED BY <3>1, <3>2 DEF SummaryIsOfEvidence
    <2>2. CASE summary # NoSummary
      <3>1. OfEvidence(summary.tally, results, reservations) /\ summary.class = Classify(summary.tally)
        BY <2>2 DEF EvidenceInv
      <3>2. summary.tally \in Seq(Outcomes) /\ DOMAIN summary.tally = 1..Len(summary.tally)
        BY <3>1 DEF OfEvidence
      <3>3. ASSUME NEW n \in DOMAIN summary.tally, summary.tally[n] \in {"PASS", "FAIL"}
            PROVE  /\ results[n] = [outcome |-> summary.tally[n], meta |-> reservations[n]]
                   /\ used[n] = Inputs(reservations[n]) \/ n \in slipped
        <4>1. n \in Attempts /\ results[n] = [outcome |-> summary.tally[n], meta |-> reservations[n]]
          BY <3>1, <3>2, <3>3 DEF OfEvidence
        <4>2. Filed(n) /\ results[n].meta = reservations[n]
          <5>1. results[n].outcome = summary.tally[n] /\ results[n].meta = reservations[n]
            BY <4>1
          <5>2. NoResult.outcome = ""
            BY DEF NoResult
          <5> QED BY <3>3, <5>1, <5>2 DEF Filed
        <4> QED BY <4>1, <4>2 DEF InputsInv
      <3> HIDE DEF OfEvidence
      <3>4. LET filed == {n \in DOMAIN summary.tally : summary.tally[n] \in {"PASS", "FAIL"}}
                passed == {n \in filed : summary.tally[n] = "PASS"}
            IN  /\ summary.class = "O1B_SUPPORTED" => \E m, n \in passed : m # n
                /\ summary.class = "O1B_NOT_SUPPORTED" => passed = {} /\ \E m, n \in filed : m # n
        BY <3>1, <3>2, ClassIsOfTally
      <3> QED BY <3>3, <3>4 DEF SummaryIsOfEvidence
    <2> QED BY <2>1, <2>2
  <1> QED BY <1>1, EvidenceInitial, EvidenceStep, InputsInitial, InputsStep, QueueInvariantHolds, PTL
          DEF QueueSpec

-----------------------------------------------------------------------------
(* Attempts that are used up, where creating a file does not touch what the *)
(* snapshot of the directory compares                                       *)

Validated == {"freezeFixture", "freezePrompts", "freezeCode", "previous", "reserve"} \cup Holding

(* As long as nobody edits the tree, what has been found in order stays so *)
InOrder(p) ==
  p \notin edited =>
    /\ at[p] \in Validated => tree.fixture \in Sound
    /\ at[p] \in {"reserve"} \cup Holding => tree.prompts \in Readable
    /\ at[p] = "check" => used[attempt[p]].prompts = tree.prompts

UsedUpInv ==
  /\ moved = {}
  /\ \A p \in Processes : InOrder(p)
  /\ NotUsedUpInVain

LEMMA UsedUpInitial == QueueInit => UsedUpInv
  BY DEF QueueInit, UsedUpInv, NotUsedUpInVain, InOrder, Validated, Holding, Reserved

(* A process that holds no attempt, or one that has been run, may go on or  *)
(* give up as long as it takes up no other                                  *)
LEMMA LetsGo ==
  ASSUME QueueInv, InputsInv, UsedUpInv, NEW p \in Processes,
         UNCHANGED <<reservations, ran, tree, used>>, moved' = {}, cutShort \subseteq cutShort',
         \A q \in Processes \ {p} : at'[q] = at[q] /\ attempt'[q] = attempt[q],
         edited \ {p} \subseteq edited',
         \/ at[p] \notin Holding \ {"report", "file"}
         \/ attempt[p] \in cutShort'
         \/ at'[p] \in Holding /\ attempt'[p] = attempt[p],
         InOrder(p)'
  PROVE  UsedUpInv'
  <1>1. ASSUME NEW n \in Attempts, Reserved(n), ran[n] = 0, n \notin cutShort'
        PROVE  \E q \in Processes : attempt'[q] = n /\ at'[q] \in Holding
    <2>1. PICK q \in Processes : attempt[q] = n /\ at[q] \in Holding
      BY <1>1 DEF UsedUpInv, NotUsedUpInVain
    <2>2. CASE q # p
      BY <2>1, <2>2
    <2>3. CASE q = p
      <3>1. at[p] \in Holding \ {"report", "file"}
        BY <1>1, <2>1, <2>3 DEF InputsInv
      <3> QED BY <1>1, <2>1, <2>3, <3>1
    <2> QED BY <2>2, <2>3
  <1>2. NotUsedUpInVain'
    BY <1>1 DEF NotUsedUpInVain, Reserved
  <1>3. ASSUME NEW q \in Processes PROVE InOrder(q)'
    <2>1. CASE q = p
      BY <2>1
    <2>2. CASE q # p
      <3>1. InOrder(q)
        BY DEF UsedUpInv
      <3> QED BY <2>2, <3>1 DEF InOrder
    <2> QED BY <2>1, <2>2
  <1> QED BY <1>2, <1>3 DEF UsedUpInv

(* The error of a process that finds something edited, and of no other *)
LEMMA RefusalIsCaused ==
  ASSUME QueueInv, InputsInv, UsedUpInv, NEW p \in Processes, Refuse(p),
         UNCHANGED <<reservations, ran, tree, used>>, moved' = {},
         at[p] \in Holding => ~InOrder(p) \/ p \in edited
  PROVE  UsedUpInv'
  <1>1. /\ at'[p] = "off" /\ edited' = edited \ {p}
        /\ \A q \in Processes \ {p} : at'[q] = at[q] /\ attempt'[q] = attempt[q]
    BY DEF Refuse, Quit, Go, QueueInv
  <1>2. cutShort \subseteq cutShort' /\ (at[p] \in Holding => attempt[p] \in cutShort')
    BY DEF Refuse, UsedUpInv
  <1>3. InOrder(p)'
    BY <1>1 DEF InOrder, Validated, Holding
  <1> QED BY <1>1, <1>2, <1>3, LetsGo

LEMMA ReserveTakes ==
  ASSUME QueueInv, InputsInv, UsedUpInv, NEW p \in Processes, Reserve(p), moved' = {}
  PROVE  UsedUpInv'
  <1> USE DEF repository, files, runs
  <1> DEFINE n == attempt[p]
  <1>1. n \in Attempts
    BY DEF Reserve, QueueInv, HoldersAlone, Entitled, Frozen
  <1>2. /\ at'[p] = "verify" /\ at[p] = "reserve" /\ UNCHANGED <<attempt, edited, ran, used, tree, cutShort>>
        /\ \A q \in Processes \ {p} : at'[q] = at[q]
        /\ reservations' = [reservations EXCEPT ![n] = meta[p]]
    BY DEF Reserve, Go, Stay, QueueInv
  <1>3. \A k \in Attempts : Reserved(k)' => Reserved(k) \/ k = n
    BY <1>1, <1>2 DEF Reserved, QueueInv
  <1>4. NotUsedUpInVain'
    <2> SUFFICES ASSUME NEW k \in Attempts, Reserved(k)', ran[k] = 0, k \notin cutShort
                 PROVE  \E q \in Processes : attempt[q] = k /\ at'[q] \in Holding
      BY <1>2 DEF NotUsedUpInVain
    <2>1. CASE k = n
      BY <1>2, <2>1 DEF Holding
    <2>2. CASE k # n
      <3>1. PICK q \in Processes : attempt[q] = k /\ at[q] \in Holding
        BY <1>3, <2>2 DEF UsedUpInv, NotUsedUpInVain
      <3>2. q # p
        BY <2>2, <3>1
      <3> QED BY <1>2, <3>1, <3>2
    <2> QED BY <2>1, <2>2
  <1>5. ASSUME NEW q \in Processes PROVE InOrder(q)'
    <2>1. InOrder(q)
      BY DEF UsedUpInv
    <2>2. CASE q = p
      BY <1>2, <2>1, <2>2 DEF InOrder, Validated, Holding
    <2>3. CASE q # p
      BY <1>2, <2>1, <2>3 DEF InOrder
    <2> QED BY <2>2, <2>3
  <1> QED BY <1>4, <1>5 DEF UsedUpInv

LEMMA RunTakes ==
  ASSUME QueueInv, InputsInv, UsedUpInv, NEW p \in Processes, NEW outcome \in Outcomes,
         Run(p, outcome), moved' = {}
  PROVE  UsedUpInv'
  <1> USE DEF repository, files, runs
  <1> DEFINE n == attempt[p]
  <1>1. /\ n \in Attempts /\ ran[n] = 0 /\ at[p] = "copy"
        /\ \A q \in Processes \ {p} : at[q] \in Holding => attempt[q] # n
    BY DEF Run, QueueInv, HoldersAlone, Entitled, Frozen, Holding
  <1>2. /\ at'[p] = "report" /\ UNCHANGED <<attempt, edited, cutShort, tree, reservations>>
        /\ \A q \in Processes \ {p} : at'[q] = at[q]
        /\ ran' = [ran EXCEPT ![n] = @ + 1] /\ used' = [used EXCEPT ![n].fixture = tree.fixture]
    BY DEF Run, Go, QueueInv
  <1>3. ran'[n] = 1 /\ \A k \in Attempts \ {n} : ran'[k] = ran[k] /\ used'[k] = used[k]
    BY <1>1, <1>2 DEF QueueInv, InputsInv
  <1>4. NotUsedUpInVain'
    <2> SUFFICES ASSUME NEW k \in Attempts, Reserved(k), ran'[k] = 0, k \notin cutShort
                 PROVE  \E q \in Processes : attempt[q] = k /\ at'[q] \in Holding
      BY <1>2 DEF NotUsedUpInVain, Reserved
    <2>1. k # n /\ ran[k] = 0
      BY <1>3
    <2>2. PICK q \in Processes : attempt[q] = k /\ at[q] \in Holding
      BY <2>1 DEF UsedUpInv, NotUsedUpInVain
    <2>3. q # p
      BY <2>1, <2>2
    <2> QED BY <1>2, <2>2, <2>3
  <1>5. ASSUME NEW q \in Processes PROVE InOrder(q)'
    <2>1. InOrder(q)
      BY DEF UsedUpInv
    <2>2. CASE q = p
      BY <1>1, <1>2, <2>1, <2>2 DEF InOrder, Validated, Holding
    <2>3. CASE q # p
      <3>1. at[q] = "check" => attempt[q] \in Attempts /\ attempt[q] # n
        BY <1>1, <2>3 DEF QueueInv, HoldersAlone, Entitled, Frozen, Holding
      <3>2. at[q] = "check" => used'[attempt[q]] = used[attempt[q]]
        BY <1>3, <3>1
      <3> QED BY <1>2, <2>1, <2>3, <3>2 DEF InOrder
    <2> QED BY <2>2, <2>3
  <1> QED BY <1>4, <1>5 DEF UsedUpInv

LEMMA ReadPromptsTakes ==
  ASSUME QueueInv, InputsInv, UsedUpInv, NEW p \in Processes, ReadPrompts(p),
         tree.prompts \in Readable, moved' = {}
  PROVE  UsedUpInv'
  <1> USE DEF repository, files, runs
  <1> DEFINE n == attempt[p]
  <1>1. /\ n \in Attempts /\ at[p] = "prompts"
        /\ \A q \in Processes \ {p} : at[q] \in Holding => attempt[q] # n
    BY DEF ReadPrompts, QueueInv, HoldersAlone, Entitled, Frozen, Holding
  <1>2. /\ at'[p] = "check" /\ UNCHANGED <<attempt, edited, cutShort, tree, reservations, ran>>
        /\ \A q \in Processes \ {p} : at'[q] = at[q]
        /\ used' = [used EXCEPT ![n].prompts = tree.prompts]
    BY DEF ReadPrompts, Go, Stay, QueueInv
  <1>3. used'[n].prompts = tree.prompts /\ \A k \in Attempts \ {n} : used'[k] = used[k]
    <2>1. used'[n] = [used[n] EXCEPT !.prompts = tree.prompts]
      BY <1>1, <1>2 DEF InputsInv
    <2>2. used[n] = [fixture |-> used[n].fixture, prompts |-> used[n].prompts]
      BY <1>1 DEF InputsInv
    <2> QED BY <1>1, <1>2, <2>1, <2>2 DEF InputsInv
  <1>4. NotUsedUpInVain'
    BY <1>1, <1>2 DEF UsedUpInv, NotUsedUpInVain, Reserved, Holding
  <1>5. ASSUME NEW q \in Processes PROVE InOrder(q)'
    <2>1. InOrder(q)
      BY DEF UsedUpInv
    <2>2. CASE q = p
      BY <1>1, <1>2, <1>3, <2>1, <2>2 DEF InOrder, Validated, Holding
    <2>3. CASE q # p
      <3>1. at[q] = "check" => attempt[q] \in Attempts /\ attempt[q] # n
        BY <1>1, <2>3 DEF QueueInv, HoldersAlone, Entitled, Frozen, Holding
      <3>2. at[q] = "check" => used'[attempt[q]] = used[attempt[q]]
        BY <1>3, <3>1
      <3> QED BY <1>2, <2>1, <2>3, <3>2 DEF InOrder
    <2> QED BY <2>2, <2>3
  <1> QED BY <1>4, <1>5 DEF UsedUpInv

LEMMA EditExcuses ==
  ASSUME QueueInv, UsedUpInv, EditTree
  PROVE  UsedUpInv'
  <1>1. /\ UNCHANGED <<reservations, at, attempt, ran, moved, cutShort>>
        /\ edited' = {q \in Processes : at[q] \in Freezing \cup {"previous", "reserve"} \cup Holding}
    BY DEF EditTree, files, runs
  <1>2. ASSUME NEW q \in Processes PROVE InOrder(q)'
    BY <1>1 DEF InOrder, Validated, Holding, Freezing
  <1> QED BY <1>1, <1>2 DEF UsedUpInv, NotUsedUpInVain, Reserved

LEMMA UsedUpStep ==
  ASSUME Posix = FALSE, QueueInv, InputsInv, UsedUpInv, [QueueNext]_queueVars
  PROVE  UsedUpInv'
  <1>1. CASE UNCHANGED queueVars
    BY <1>1 DEF queueVars, repository, files, locals, runs, UsedUpInv, NotUsedUpInVain, Reserved,
                InOrder
  <1>2. CASE EditTree
    BY <1>2, EditExcuses
  <1>3. ASSUME NEW p \in Processes, ProcessStep(p)
        PROVE  UsedUpInv'
    <2> USE DEF repository, files, runs
    <2>a. at = [q \in Processes |-> at[q]] /\ attempt = [q \in Processes |-> attempt[q]]
      BY DEF QueueInv
    <2>b. moved' = {}
      BY <1>3 DEF ProcessStep, Start, Validate, HashFixture, HashPrompts, PromptsMissing, HashCode,
           CheckPrevious, Reserve, ReserveTooLate, Verify, ReadPrompts, CheckPrompts, Run,
           WithholdReport, LookAtResult, FileResult, StartSummary, ReadReservation, ReadResult,
           LookAtSummary, WriteSummary, Crash, FileAppears, Snapshot, UsedUpInv
    <2>c. \A q \in Processes \ {p} : at'[q] = at[q] /\ attempt'[q] = attempt[q]
      BY <1>3, OthersStay
    <2>d. ASSUME Quit(p) PROVE at'[p] = "off" /\ edited' = edited \ {p} /\ InOrder(p)'
      BY <2>a, <2>d DEF Quit, Go, InOrder, Validated, Holding
    <2>e. ASSUME NEW place, Go(p, place) PROVE at'[p] = place
      BY <2>a, <2>e DEF Go
    <2>f. InOrder(p)
      BY DEF UsedUpInv
    <2>1. ASSUME NEW n \in Attempts, Start(p, n) PROVE UsedUpInv'
      <3>1. at'[p] = "freeze" /\ at[p] = "off"
        BY <2>1, <2>e DEF Start
      <3>2. InOrder(p)'
        BY <3>1 DEF InOrder, Validated, Holding
      <3> QED BY <2>1, <2>b, <2>c, <3>1, <3>2, LetsGo DEF Start, Holding
    <2>2. CASE Validate(p)
      <3>1. CASE tree.fixture \notin Sound
        <4>1. Refuse(p) /\ (at[p] \in Holding => ~InOrder(p) \/ p \in edited)
          BY <2>2, <3>1 DEF Validate, InOrder, Validated
        <4> QED BY <2>2, <2>b, <4>1, RefusalIsCaused DEF Validate
      <3>2. CASE tree.fixture \in Sound
        <4>1. /\ Stay /\ UNCHANGED cutShort
              /\ at[p] = "freeze" => at'[p] = "freezeFixture"
              /\ at[p] = "validate" => at'[p] = "hashFixture"
          BY <2>2, <2>e, <3>2 DEF Validate
        <4>2. InOrder(p)'
          BY <2>2, <2>f, <3>2, <4>1 DEF Validate, Stay, InOrder, Validated, Holding
        <4> QED BY <2>2, <2>b, <2>c, <4>1, <4>2, LetsGo DEF Validate, Stay, Holding
      <3> QED BY <3>1, <3>2
    <2>3. CASE HashFixture(p)
      <3>1. /\ at[p] = "freezeFixture" => at'[p] = "freezePrompts"
            /\ at[p] = "hashFixture" => at'[p] = "hashPrompts"
        BY <2>3, <2>e DEF HashFixture
      <3>2. InOrder(p)'
        BY <2>3, <2>f, <3>1 DEF HashFixture, InOrder, Validated, Holding
      <3> QED BY <2>3, <2>b, <2>c, <3>1, <3>2, LetsGo DEF HashFixture, Holding
    <2>4. CASE HashPrompts(p)
      <3>1. /\ at[p] = "freezePrompts" => at'[p] = "freezeCode"
            /\ at[p] = "hashPrompts" => at'[p] = "copy"
        BY <2>4, <2>e DEF HashPrompts
      <3>2. InOrder(p)'
        BY <2>4, <2>f, <3>1 DEF HashPrompts, InOrder, Validated, Holding
      <3> QED BY <2>4, <2>b, <2>c, <3>1, <3>2, LetsGo DEF HashPrompts, Holding
    <2>5. CASE HashCode(p)
      <3>1. at'[p] = "previous" /\ at[p] = "freezeCode"
        BY <2>5, <2>e DEF HashCode
      <3>2. InOrder(p)'
        BY <2>5, <2>f, <3>1 DEF HashCode, InOrder, Validated, Holding
      <3> QED BY <2>5, <2>b, <2>c, <3>1, <3>2, LetsGo DEF HashCode, Holding
    <2>6. CASE PromptsMissing(p)
      <3>1. Refuse(p) /\ (at[p] \in Holding => ~InOrder(p) \/ p \in edited)
        BY <2>6 DEF PromptsMissing, InOrder
      <3> QED BY <2>6, <2>b, <3>1, RefusalIsCaused DEF PromptsMissing
    <2>7. CASE CheckPrevious(p)
      <3>1. CASE Quit(p)
        BY <2>7, <2>b, <2>c, <2>d, <3>1, LetsGo DEF CheckPrevious, Holding
      <3>2. CASE ~Quit(p)
        <4>1. /\ at'[p] = "reserve" /\ at[p] = "previous" /\ Stay
              /\ tree.prompts \in Readable
          BY <2>7, <2>e, <3>2 DEF CheckPrevious, CanWrite
        <4>2. InOrder(p)'
          BY <2>7, <2>f, <4>1 DEF CheckPrevious, Stay, InOrder, Validated, Holding
        <4> QED BY <2>7, <2>b, <2>c, <4>1, <4>2, LetsGo DEF CheckPrevious, Stay, Holding
      <3> QED BY <3>1, <3>2
    <2>8. CASE Reserve(p)
      BY <2>8, <2>b, ReserveTakes
    <2>9. CASE ReserveTooLate(p)
      BY <2>9, <2>b, <2>c, <2>d, LetsGo DEF ReserveTooLate, Holding
    <2>10. CASE Verify(p)
      <3>1. /\ at'[p] = "prompts" /\ at[p] = "verify" /\ Stay
            /\ UNCHANGED <<reservations, ran, tree, used, cutShort>>
        BY <2>10, <2>e DEF Verify, UsedUpInv
      <3>2. InOrder(p)'
        BY <2>f, <3>1 DEF Stay, InOrder, Validated, Holding
      <3> QED BY <2>b, <2>c, <3>1, <3>2, LetsGo DEF Stay, Holding
    <2>11. CASE ReadPrompts(p)
      <3>1. CASE tree.prompts \in Readable
        BY <2>11, <2>b, <3>1, ReadPromptsTakes
      <3>2. CASE tree.prompts \notin Readable
        <4>1. Refuse(p) /\ (at[p] \in Holding => ~InOrder(p) \/ p \in edited)
          BY <2>11, <3>2 DEF ReadPrompts, InOrder
        <4> QED BY <2>11, <2>b, <3>2, <4>1, RefusalIsCaused DEF ReadPrompts
      <3> QED BY <3>1, <3>2
    <2>12. CASE CheckPrompts(p)
      <3> DEFINE same == tree.prompts \in Readable /\ tree.prompts = used[attempt[p]].prompts
      <3>1. CASE same
        <4>1. /\ at'[p] = "validate" /\ at[p] = "check" /\ Stay /\ UNCHANGED cutShort
          BY <2>12, <2>e, <3>1 DEF CheckPrompts
        <4>2. InOrder(p)'
          BY <2>12, <2>f, <4>1 DEF CheckPrompts, Stay, InOrder, Validated, Holding
        <4> QED BY <2>12, <2>b, <2>c, <4>1, <4>2, LetsGo DEF CheckPrompts, Stay, Holding
      <3>2. CASE ~same
        <4>1. Refuse(p) /\ (at[p] \in Holding => ~InOrder(p) \/ p \in edited)
          BY <2>12, <3>2 DEF CheckPrompts, InOrder
        <4> QED BY <2>12, <2>b, <4>1, RefusalIsCaused DEF CheckPrompts
      <3> QED BY <3>1, <3>2
    <2>13. ASSUME NEW outcome \in Outcomes, Run(p, outcome) PROVE UsedUpInv'
      BY <2>13, <2>b, RunTakes
    <2>14. CASE WithholdReport(p)
      BY <2>14, <2>b, <2>c, <2>d, LetsGo DEF WithholdReport
    <2>15. CASE LookAtResult(p)
      <3>1. CASE Quit(p)
        BY <2>15, <2>b, <2>c, <2>d, <3>1, LetsGo DEF LookAtResult
      <3>2. CASE ~Quit(p)
        <4>1. at'[p] = "file" /\ at[p] = "report" /\ Stay
          BY <2>15, <2>e, <3>2 DEF LookAtResult
        <4>2. InOrder(p)'
          BY <2>15, <2>f, <4>1 DEF LookAtResult, Stay, InOrder, Validated, Holding
        <4> QED BY <2>15, <2>b, <2>c, <4>1, <4>2, LetsGo DEF LookAtResult, Stay
      <3> QED BY <3>1, <3>2
    <2>16. CASE FileResult(p)
      BY <2>16, <2>b, <2>c, <2>d, LetsGo DEF FileResult
    <2>17. CASE StartSummary(p)
      <3>1. at'[p] = "reservations" /\ at[p] = "off"
        BY <2>17, <2>e DEF StartSummary
      <3>2. InOrder(p)'
        BY <3>1 DEF InOrder, Validated, Holding
      <3> QED BY <2>17, <2>b, <2>c, <3>1, <3>2, LetsGo DEF StartSummary, Holding
    <2>18. CASE ReadReservation(p)
      <3>1. /\ at'[p] \in {"off", "reservations", "results"} /\ at[p] = "reservations"
            /\ edited \ {p} \subseteq edited' /\ UNCHANGED <<reservations, ran, cutShort, tree, used>>
        BY <2>18, <2>a, <2>d DEF ReadReservation, Go
      <3>2. InOrder(p)'
        BY <3>1 DEF InOrder, Validated, Holding
      <3> QED BY <2>b, <2>c, <3>1, <3>2, LetsGo DEF Holding
    <2>19. CASE ReadResult(p)
      <3>1. /\ at'[p] \in {"off", "results"} /\ at[p] = "results"
            /\ edited \ {p} \subseteq edited' /\ UNCHANGED <<reservations, ran, cutShort, tree, used>>
        BY <2>19, <2>a, <2>d DEF ReadResult
      <3>2. InOrder(p)'
        BY <3>1 DEF InOrder, Validated, Holding
      <3> QED BY <2>b, <2>c, <3>1, <3>2, LetsGo DEF Holding
    <2>20. CASE LookAtSummary(p)
      <3>1. CASE Quit(p)
        BY <2>20, <2>b, <2>c, <2>d, <3>1, LetsGo DEF LookAtSummary, Holding
      <3>2. CASE ~Quit(p)
        <4>1. at'[p] = "summarize" /\ at[p] = "results" /\ Stay
          BY <2>20, <2>e, <3>2 DEF LookAtSummary
        <4>2. InOrder(p)'
          BY <4>1 DEF InOrder, Validated, Holding
        <4> QED BY <2>20, <2>b, <2>c, <4>1, <4>2, LetsGo DEF LookAtSummary, Stay, Holding
      <3> QED BY <3>1, <3>2
    <2>21. CASE WriteSummary(p)
      BY <2>21, <2>b, <2>c, <2>d, LetsGo DEF WriteSummary, Holding
    <2>22. CASE Crash(p)
      <3>1. cutShort \subseteq cutShort' /\ (at[p] \in Holding => attempt[p] \in cutShort')
        BY <2>22 DEF Crash
      <3> QED BY <2>22, <2>b, <2>c, <2>d, <3>1, LetsGo DEF Crash
    <2> QED BY <1>3, <2>1, <2>2, <2>3, <2>4, <2>5, <2>6, <2>7, <2>8, <2>9, <2>10, <2>11, <2>12,
               <2>13, <2>14, <2>15, <2>16, <2>17, <2>18, <2>19, <2>20, <2>21, <2>22 DEF ProcessStep
  <1> QED BY <1>1, <1>2, <1>3 DEF QueueNext

(* Where creating a file leaves st_ctime of its directory alone, an attempt  *)
(* that is reserved and never run is held, was cut short by a crash, or was  *)
(* refused after an edit of the tree; on a POSIX file system the snapshot    *)
(* taken before the write refuses the reservation it just wrote              *)
THEOREM NoAttemptInVain ==
  ASSUME Posix = FALSE
  PROVE  QueueSpec => []NotUsedUpInVain
  <1>1. UsedUpInv => NotUsedUpInVain
    BY DEF UsedUpInv
  <1> QED BY <1>1, UsedUpInitial, UsedUpStep, EvidenceInitial, EvidenceStep, InputsInitial,
             InputsStep, QueueInvariantHolds, PTL DEF QueueSpec
=============================================================================
