----------------------------- MODULE ProbeQueue -----------------------------
(***************************************************************************)
(* The evidence queue of evals/run_session_probe.py: processes that        *)
(* reserve one of the planned attempts, run it and file its result, and    *)
(* processes that summarize what has been filed.  They share a directory,  *)
(* whose files are created once (run_golden.write_report_exclusive) and    *)
(* never replaced, and the tree whose hashes the files record.  A process  *)
(* may crash anywhere, and the tree may be edited between any two steps:   *)
(* validating the fixture, hashing it, reading the prompts and copying the *)
(* fixture are steps of their own.  Each of fixture, prompts and code is   *)
(* read and edited as a whole, and the code is the one on disk: which one  *)
(* a process has loaded, nothing records.                                  *)
(***************************************************************************)
EXTENDS Integers, Sequences, FiniteSets

CONSTANTS
  Processes,
  Planned,     \* O1B_PLANNED_ATTEMPTS
  Fixtures,    \* bound: versions of the fixture
  Sound,       \* the fixtures that validate_fixture accepts
  Prompts,     \* bound: versions of the two prompts
  Readable,    \* the prompts that are there and are UTF-8
  Codes,       \* bound: versions of the code and the configuration
  MaxEdits,    \* bound: edits of the tree
  Posix        \* whether st_ctime of a directory changes with its entries

ASSUME QueueConstants ==
  /\ Planned \in Nat \ {0} /\ Posix \in BOOLEAN
  /\ Sound \subseteq Fixtures /\ Readable \subseteq Prompts
  /\ 0 \notin Fixtures \cup Prompts \cup Codes

Attempts == 1..Planned
Outcomes == {"PASS", "FAIL", "INVALID_INFRA"}
Meta == [fixture : Fixtures, prompts : Prompts, code : Codes]

VARIABLES
  tree,          \* the fixture, prompts and code as they are on disk
  edits,         \* how often the tree has been edited
  reservations,  \* the metadata in each reservation on disk
  results,       \* the outcome and metadata in each result on disk
  summary,       \* the outcomes and the class in the summary on disk
  at,            \* where each process stands
  attempt,       \* the attempt it is at
  meta,          \* the metadata it has frozen, hashed or read
  found,         \* the outcome of its run, or those of the attempts it has read
  moved,         \* the processes whose snapshot of the directory is outdated
  used,          \* the prompts each attempt was started with, the fixture it ran on
  ran,           \* history: how often each attempt was run
  edited,        \* history: processes since whose start the tree was edited
  slipped,       \* history: attempts for which it was edited between look and use
  cutShort       \* history: attempts whose process crashed or met an edit

repository == <<tree, edits, slipped>>
files == <<reservations, results, summary>>
locals == <<at, attempt, meta, found, edited>>
runs == <<used, ran>>
queueVars == <<repository, files, locals, runs, moved, cutShort>>

NoInput == [fixture |-> 0, prompts |-> 0]
NoMeta == [fixture |-> 0, prompts |-> 0, code |-> 0]
NoResult == [outcome |-> "", meta |-> NoMeta]
NoSummary == [tally |-> <<>>, class |-> ""]

Inputs(m) == [fixture |-> m.fixture, prompts |-> m.prompts]

Reserved(n) == reservations[n] # NoMeta
Filed(n) == results[n] # NoResult
Summarized == summary # NoSummary

(* Places before the reservation, and those of a process that has made one *)
Freezing == {"freeze", "freezeFixture", "freezePrompts", "freezeCode"}
Holding == {"verify", "prompts", "check", "validate", "hashFixture", "hashPrompts", "copy",
            "report", "file"}

Go(p, place) == at' = [at EXCEPT ![p] = place]

Quit(p) ==
  /\ Go(p, "off")
  /\ attempt' = [attempt EXCEPT ![p] = 0]
  /\ meta' = [meta EXCEPT ![p] = NoMeta]
  /\ found' = [found EXCEPT ![p] = <<>>]
  /\ edited' = edited \ {p}

Stay == UNCHANGED <<attempt, meta, found, edited>>

(* EvalInfrastructureError, for what the process finds in the tree *)
Refuse(p) ==
  /\ Quit(p)
  /\ cutShort' = IF at[p] \in Holding /\ p \in edited THEN cutShort \cup {attempt[p]} ELSE cutShort

(* _directory_snapshot, and what makes it differ *)
Snapshot(p) == moved' = moved \ {p}
FileAppears == moved' = IF Posix THEN Processes ELSE moved

(* write_probe_report_exclusive reads the prompts before it writes *)
CanWrite(there) == ~there /\ tree.prompts \in Readable

-----------------------------------------------------------------------------
(* reserve_then_run_real_attempt *)

Start(p, n) ==
  /\ at[p] = "off"
  /\ ~Reserved(n) /\ ~Filed(n)
  /\ Go(p, "freeze") /\ attempt' = [attempt EXCEPT ![p] = n]
  /\ UNCHANGED <<repository, files, meta, found, edited, runs, moved, cutShort>>

(* Bug: what is frozen is hashed and not validated *)
Validate_OnlyToRun(p) ==
  /\ \/ at[p] = "freeze" /\ Go(p, "freezeFixture") /\ Stay /\ UNCHANGED cutShort
     \/ at[p] = "validate" /\ tree.fixture \in Sound
        /\ Go(p, "hashFixture") /\ Stay /\ UNCHANGED cutShort
     \/ at[p] = "validate" /\ tree.fixture \notin Sound /\ Refuse(p)
  /\ UNCHANGED <<repository, files, runs, moved>>

(* validate_fixture, to freeze and again to run: the tree and its tests, *)
(* then the hash of the fixture, then that of the prompts                *)
Validate(p) ==
  /\ at[p] \in {"freeze", "validate"}
  /\ IF tree.fixture \in Sound
     THEN /\ Go(p, IF at[p] = "freeze" THEN "freezeFixture" ELSE "hashFixture")
          /\ Stay /\ UNCHANGED cutShort
     ELSE Refuse(p)
  /\ UNCHANGED <<repository, files, runs, moved>>

HashFixture(p) ==
  /\ at[p] \in {"freezeFixture", "hashFixture"}
  /\ Go(p, IF at[p] = "freezeFixture" THEN "freezePrompts" ELSE "hashPrompts")
  /\ meta' = [meta EXCEPT ![p].fixture = tree.fixture]
  /\ UNCHANGED <<repository, files, attempt, found, edited, runs, moved, cutShort>>

HashPrompts(p) ==
  /\ at[p] \in {"freezePrompts", "hashPrompts"}
  /\ Go(p, IF at[p] = "freezePrompts" THEN "freezeCode" ELSE "copy")
  /\ meta' = [meta EXCEPT ![p].prompts = tree.prompts]
  /\ UNCHANGED <<repository, files, attempt, found, edited, runs, moved, cutShort>>

(* Prompts that are not text have a hash, missing ones do not *)
PromptsMissing(p) ==
  /\ at[p] \in {"freezePrompts", "hashPrompts"}
  /\ tree.prompts \notin Readable
  /\ Refuse(p)
  /\ UNCHANGED <<repository, files, runs, moved>>

(* _production_tree_sha256 and _evaluator_protocol_sha256 *)
HashCode(p) ==
  /\ at[p] = "freezeCode"
  /\ Go(p, "previous")
  /\ meta' = [meta EXCEPT ![p].code = tree.code]
  /\ UNCHANGED <<repository, files, attempt, found, edited, runs, moved, cutShort>>

(* Bug: the earlier reservations have only to exist *)
Continues_AnyMetadata(p) == \A m \in 1..attempt[p] - 1 : Reserved(m)

(* The earlier attempts are all reserved, for the same metadata *)
Continues(p) == \A m \in 1..attempt[p] - 1 : Reserved(m) /\ reservations[m] = meta[p]

(* Then the writer's first look at the directory and the path *)
CheckPrevious(p) ==
  /\ at[p] = "previous"
  /\ IF Continues(p) /\ CanWrite(Reserved(attempt[p]))
     THEN Go(p, "reserve") /\ Stay
     ELSE Quit(p)
  /\ Snapshot(p)
  /\ UNCHANGED <<repository, files, runs, cutShort>>

(* Bug: the reservation is moved into place, over one that is there *)
Reserve_Replacing(p) ==
  /\ at[p] = "reserve"
  /\ reservations' = [reservations EXCEPT ![attempt[p]] = meta[p]]
  /\ FileAppears /\ Go(p, "verify") /\ Stay
  /\ UNCHANGED <<repository, results, summary, runs, cutShort>>

(* The directory is still the one looked at, and os.link creates the file *)
Reserve(p) ==
  /\ at[p] = "reserve"
  /\ CanWrite(Reserved(attempt[p])) /\ p \notin moved
  /\ reservations' = [reservations EXCEPT ![attempt[p]] = meta[p]]
  /\ FileAppears /\ Go(p, "verify") /\ Stay
  /\ UNCHANGED <<repository, results, summary, runs, cutShort>>

ReserveTooLate(p) ==
  /\ at[p] = "reserve"
  /\ ~CanWrite(Reserved(attempt[p])) \/ p \in moved
  /\ Quit(p)
  /\ UNCHANGED <<repository, files, runs, moved, cutShort>>

(* _verify_written_report: the directory is still the one before the write *)
Verify(p) ==
  /\ at[p] = "verify"
  /\ IF p \notin moved THEN Go(p, "prompts") /\ Stay ELSE Quit(p)
  /\ UNCHANGED <<repository, files, runs, moved, cutShort>>

ReadPrompts(p) ==
  /\ at[p] = "prompts"
  /\ IF tree.prompts \in Readable
     THEN /\ Go(p, "check") /\ Stay
          /\ used' = [used EXCEPT ![attempt[p]].prompts = tree.prompts]
          /\ UNCHANGED cutShort
     ELSE Refuse(p) /\ UNCHANGED used
  /\ UNCHANGED <<repository, files, ran, moved>>

(* Bug: run_probe runs whatever prompts it is given *)
CheckPrompts_Trusting(p) ==
  /\ at[p] = "check"
  /\ Go(p, "validate") /\ Stay
  /\ UNCHANGED <<repository, files, runs, moved, cutShort>>

(* run_probe: the prompts it is given are those on disk *)
CheckPrompts(p) ==
  /\ at[p] = "check"
  /\ IF tree.prompts \in Readable /\ tree.prompts = used[attempt[p]].prompts
     THEN Go(p, "validate") /\ Stay /\ UNCHANGED cutShort
     ELSE Refuse(p)
  /\ UNCHANGED <<repository, files, runs, moved>>

(* The fixture is copied, once more as it is now, and the copy is run *)
Run(p, outcome) ==
  /\ at[p] = "copy"
  /\ used' = [used EXCEPT ![attempt[p]].fixture = tree.fixture]
  /\ ran' = [ran EXCEPT ![attempt[p]] = @ + 1]
  /\ Go(p, "report")
  /\ found' = [found EXCEPT ![p] = <<outcome>>]
  /\ UNCHANGED <<repository, files, attempt, meta, edited, moved, cutShort>>

(* A report with a key, a prompt or an absolute path in it is never written *)
WithholdReport(p) ==
  /\ at[p] = "report"
  /\ Quit(p)
  /\ UNCHANGED <<repository, files, runs, moved, cutShort>>

LookAtResult(p) ==
  /\ at[p] = "report"
  /\ IF CanWrite(Filed(attempt[p])) THEN Go(p, "file") /\ Stay ELSE Quit(p)
  /\ Snapshot(p)
  /\ UNCHANGED <<repository, files, runs, cutShort>>

(* A report that cannot be written is lost *)
FileResult(p) ==
  /\ at[p] = "file"
  /\ IF CanWrite(Filed(attempt[p])) /\ p \notin moved
     THEN /\ results' = [results EXCEPT ![attempt[p]] = [outcome |-> found[p][1], meta |-> meta[p]]]
          /\ FileAppears
     ELSE UNCHANGED <<results, moved>>
  /\ Quit(p)
  /\ UNCHANGED <<repository, reservations, summary, runs, cutShort>>

-----------------------------------------------------------------------------
(* build_o1b_summary: the reservations in order, then the results *)

StartSummary(p) ==
  /\ at[p] = "off" /\ ~Summarized
  /\ Go(p, "reservations") /\ attempt' = [attempt EXCEPT ![p] = 1]
  /\ UNCHANGED <<repository, files, meta, found, edited, runs, moved, cutShort>>

(* No gaps: what has been found so far are all attempts before n *)
ContinuesCount(p, n) ==
  /\ Len(found[p]) = n - 1
  /\ n > 1 => reservations[n] = meta[p]

ReadReservation(p) ==
  LET n == attempt[p] IN
  /\ at[p] = "reservations"
  /\ IF (Reserved(n) /\ ~ContinuesCount(p, n)) \/ (~Reserved(n) /\ Filed(n))
     THEN Quit(p)
     ELSE /\ IF n = Planned
             THEN Go(p, "results") /\ attempt' = [attempt EXCEPT ![p] = 1]
             ELSE attempt' = [attempt EXCEPT ![p] = n + 1] /\ UNCHANGED at
          /\ IF Reserved(n)
             THEN /\ meta' = [meta EXCEPT ![p] = reservations[n]]
                  /\ found' = [found EXCEPT ![p] = Append(@, "INVALID_INFRA")]
             ELSE UNCHANGED <<meta, found>>
          /\ UNCHANGED edited
  /\ UNCHANGED <<repository, files, runs, moved, cutShort>>

(* Bug: a result counts whatever it was obtained with *)
Fits_Anything(result, m) == result # NoResult

(* _validate_o1b_result_payload *)
Fits(result, m) == result.meta = m

(* A reservation without result stays the INVALID_INFRA it was counted as *)
ReadResult(p) ==
  LET n == attempt[p] IN
  /\ at[p] = "results" /\ n <= Len(found[p])
  /\ IF Filed(n) /\ ~Fits(results[n], meta[p])
     THEN Quit(p)
     ELSE /\ attempt' = [attempt EXCEPT ![p] = n + 1]
          /\ found' = IF Filed(n) THEN [found EXCEPT ![p][n] = results[n].outcome] ELSE found
          /\ UNCHANGED <<at, meta, edited>>
  /\ UNCHANGED <<repository, files, runs, moved, cutShort>>

LookAtSummary(p) ==
  /\ at[p] = "results" /\ attempt[p] > Len(found[p])
  /\ IF CanWrite(Summarized) THEN Go(p, "summarize") /\ Stay ELSE Quit(p)
  /\ Snapshot(p)
  /\ UNCHANGED <<repository, files, runs, cutShort>>

Counted(tally, outcomes) == Cardinality({k \in DOMAIN tally : tally[k] \in outcomes})

(* _classify_o1b *)
Classify(tally) ==
  IF Counted(tally, {"PASS", "FAIL"}) < 2 THEN "O1B_INCONCLUSIVE"
  ELSE IF Counted(tally, {"PASS"}) >= 2 THEN "O1B_SUPPORTED"
  ELSE IF Counted(tally, {"PASS"}) = 1 THEN "O1B_MIXED"
  ELSE "O1B_NOT_SUPPORTED"

WriteSummary(p) ==
  /\ at[p] = "summarize"
  /\ IF CanWrite(Summarized) /\ p \notin moved
     THEN summary' = [tally |-> found[p], class |-> Classify(found[p])] /\ FileAppears
     ELSE UNCHANGED <<summary, moved>>
  /\ Quit(p)
  /\ UNCHANGED <<repository, reservations, results, runs, cutShort>>

-----------------------------------------------------------------------------
(* The process is killed or interrupted, or a file, a test or the system fails it *)
Crash(p) ==
  /\ at[p] # "off"
  /\ cutShort' = IF at[p] \in Holding THEN cutShort \cup {attempt[p]} ELSE cutShort
  /\ Quit(p)
  /\ UNCHANGED <<repository, files, runs, moved>>

(* What is edited has been looked at by p, and is not used or hashed yet *)
SlipsBy(p) ==
  \/ at[p] \in {"validate", "hashFixture", "hashPrompts"} /\ tree'.prompts # tree.prompts
  \/ at[p] \in {"hashPrompts", "copy"} /\ tree'.fixture # tree.fixture

EditTree ==
  /\ edits < MaxEdits /\ edits' = edits + 1
  /\ tree' \in Meta \ {tree}
  /\ edited' = {p \in Processes : at[p] \in Freezing \cup {"previous", "reserve"} \cup Holding}
  /\ slipped' = slipped \cup {attempt[p] : p \in {q \in Processes : SlipsBy(q)}}
  /\ UNCHANGED <<files, at, attempt, meta, found, runs, moved, cutShort>>

QueueInit ==
  /\ tree \in Meta /\ edits = 0
  /\ reservations = [n \in Attempts |-> NoMeta]
  /\ results = [n \in Attempts |-> NoResult]
  /\ summary = NoSummary
  /\ at = [p \in Processes |-> "off"]
  /\ attempt = [p \in Processes |-> 0]
  /\ meta = [p \in Processes |-> NoMeta]
  /\ found = [p \in Processes |-> <<>>]
  /\ moved = {}
  /\ used = [n \in Attempts |-> NoInput]
  /\ ran = [n \in Attempts |-> 0]
  /\ edited = {} /\ slipped = {} /\ cutShort = {}

ProcessStep(p) ==
  \/ \E n \in Attempts : Start(p, n)
  \/ Validate(p) \/ HashFixture(p) \/ HashPrompts(p) \/ PromptsMissing(p) \/ HashCode(p)
  \/ CheckPrevious(p) \/ Reserve(p) \/ ReserveTooLate(p) \/ Verify(p)
  \/ ReadPrompts(p) \/ CheckPrompts(p)
  \/ \E outcome \in Outcomes : Run(p, outcome)
  \/ WithholdReport(p) \/ LookAtResult(p) \/ FileResult(p)
  \/ StartSummary(p) \/ ReadReservation(p) \/ ReadResult(p)
  \/ LookAtSummary(p) \/ WriteSummary(p)
  \/ Crash(p)

QueueNext == (\E p \in Processes : ProcessStep(p)) \/ EditTree

QueueSpec == QueueInit /\ [][QueueNext]_queueVars

-----------------------------------------------------------------------------
Places ==
  {"off", "previous", "reserve", "reservations", "results", "summarize"} \cup Freezing \cup Holding

(* The metadata while they are being frozen *)
Hashes == [fixture : Fixtures \cup {0}, prompts : Prompts \cup {0}, code : Codes \cup {0}]

QueueTypeOK ==
  /\ tree \in Meta /\ edits \in 0..MaxEdits
  /\ reservations \in [Attempts -> Meta \cup {NoMeta}]
  /\ results \in [Attempts -> [outcome : Outcomes, meta : Meta] \cup {NoResult}]
  /\ at \in [Processes -> Places]
  /\ attempt \in [Processes -> 0..Planned + 1]
  /\ meta \in [Processes -> Hashes]
  /\ found \in [Processes -> Seq(Outcomes)]
  /\ moved \subseteq Processes /\ edited \subseteq Processes
  /\ used \in [Attempts -> [fixture : Fixtures \cup {0}, prompts : Prompts \cup {0}]]
  /\ ran \in [Attempts -> Nat]
  /\ slipped \subseteq Attempts /\ cutShort \subseteq Attempts

(* An attempt is run once at most, also when processes race for it, crash or *)
(* are started again: "reservation 一旦创建 ... 不得复用".                     *)
AttemptRunsOnce == \A n \in Attempts : ran[n] <= 1

(* The reservations are those of attempts 1 to some k, all for the same      *)
(* fixture, prompts, code and configuration, whatever was edited in between. *)
OneProtocol ==
  \A m, n \in Attempts : m < n /\ Reserved(n) => reservations[m] = reservations[n]

(* A summary claims nothing that is not on disk: each PASS or FAIL it counts *)
(* is a filed result that names the hashes which its reservation had frozen, *)
(* and that was got with the fixture and the prompts of those hashes, unless *)
(* they were edited in the moment between the run's look at them and its use *)
(* (prompts: from run_probe's comparison to the hash; fixture: from the hash *)
(* to the copy).  Support or its lack is claimed of two results at least.    *)
SummaryIsOfEvidence ==
  LET filed == {n \in DOMAIN summary.tally : summary.tally[n] \in {"PASS", "FAIL"}}
      passed == {n \in filed : summary.tally[n] = "PASS"}
  IN  /\ \A n \in filed :
           /\ results[n] = [outcome |-> summary.tally[n], meta |-> reservations[n]]
           /\ used[n] = Inputs(reservations[n]) \/ n \in slipped
      /\ summary.class = "O1B_SUPPORTED" => \E m, n \in passed : m # n
      /\ summary.class = "O1B_NOT_SUPPORTED" => passed = {} /\ \E m, n \in filed : m # n

(* An attempt is not used up in vain: one that is reserved and not run is    *)
(* held by a process, or its process crashed, or refused to run it after the *)
(* tree had been edited.  Nothing that could have been found out before the  *)
(* reservation (a fixture that does not pass, prompts that are no text, a    *)
(* race for the attempt), nor the writing of the reservation itself          *)
(* ("Directory timestamps legitimately change when reservation files are     *)
(* created"), costs an attempt.                                              *)
NotUsedUpInVain ==
  \A n \in Attempts :
    Reserved(n) /\ ran[n] = 0 =>
      n \in cutShort \/ \E p \in Processes : attempt[p] = n /\ at[p] \in Holding
=============================================================================
