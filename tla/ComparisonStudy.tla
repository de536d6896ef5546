---------------------------- MODULE ComparisonStudy ----------------------------
(***************************************************************************)
(* run_phase of evals/agent_comparison/run_study.py and grade_workspace of *)
(* grader.py, and what they see of run_adapter of adapters.py: one phase   *)
(* of a study, cell by cell, each in a workspace in which a participant is *)
(* run, that is graded, entered as a row and removed, and the report at    *)
(* the end; and the operator who starts a phase that failed again.         *)
(***************************************************************************)
EXTENDS Integers, Sequences, FiniteSets

CONSTANTS
  Cells,       \* the tasks of the phase's cells, in order
  TestTasks,   \* the tasks that ask for a new test: {"T2"}
  MaxPhases    \* bound: how often the operator starts the phase

ASSUME StudyConstants == Cells \in Seq(STRING) /\ Cells # <<>> /\ MaxPhases \in Nat

VARIABLES
  studyAt,     \* where run_phase stands
  phases,      \* how often it was started
  cell,        \* the current cell
  changed,     \* what differs in its workspace: "production", "test" or "other"
  stopReason,  \* adapter.stop_reason, as one of Stops
  ran,         \* History: whether the harness did its part of the cell's run
  rows,        \* rows
  workspaces,  \* the workspaces on disk, by phase and cell
  cellRaised,  \* whether an exception is on its way through the finally
  studyFile    \* what is at report_path: "absent", "torn" or "report"

studyVars ==
  <<studyAt, phases, cell, changed, stopReason, ran, rows, workspaces, cellRaised, studyFile>>

-----------------------------------------------------------------------------
(* grade_workspace *)

(* The pytest runs on the copy: the probe that must turn green, those that  *)
(* must stay green as one, the visible and the hidden suite                 *)
Suites == {"target", "kept", "visible", "hidden"}

(* _TestRun: "syntax" is a failure whose output holds SyntaxError *)
Results == {"passed", "failed", "syntax", "timeout", "infra"}

(* bound: at most two runs do not pass *)
Gradings ==
  {g \in [Suites -> Results] : Cardinality({s \in Suites : g[s] # "passed"}) <= 2}

(* validate_retry_artifact of the tests that were added *)
Artifacts == {"valid", "toothless", "scope", "timeout", "infra"}

MayChange(task) == {"production"} \cup (IF task \in TestTasks THEN {"test"} ELSE {})

(* Bug: a red probe counts before what broke its run *)
Precedence_RegressionFirst ==
  <<"SCOPE_VIOLATION", "REGRESSION", "TOOL_OR_INFRA_FAILURE", "TIMEOUT",
    "DID_NOT_TEST", "LOCALIZATION_FAILURE", "INCORRECT_PATCH">>

(* _select_primary_failure *)
Precedence ==
  <<"SCOPE_VIOLATION", "TOOL_OR_INFRA_FAILURE", "TIMEOUT", "REGRESSION",
    "DID_NOT_TEST", "LOCALIZATION_FAILURE", "INCORRECT_PATCH">>

Primary(evidence) ==
  LET holds == {k \in DOMAIN Precedence : Precedence[k] \in evidence}
  IN  IF holds = {} THEN "none" ELSE Precedence[CHOOSE k \in holds : \A j \in holds : k <= j]

Evidence(task, g, artifact) ==
  LET results == {g[s] : s \in Suites} \cup (IF task \in TestTasks THEN {artifact} ELSE {})
      syntax == "syntax" \in results
      unfixed == g["target"] # "passed" \/ g["hidden"] # "passed"
      broke == g["kept"] # "passed"
      untested == task \in TestTasks /\ artifact # "valid"
  IN  {category \in {Precedence[k] : k \in DOMAIN Precedence} :
         \/ category = "SCOPE_VIOLATION" /\ "scope" \in results
         \/ category = "TOOL_OR_INFRA_FAILURE" /\ "infra" \in results
         \/ category = "TIMEOUT" /\ "timeout" \in results
         \/ category = "REGRESSION" /\ broke /\ ~syntax
         \/ category = "DID_NOT_TEST" /\ (untested \/ \E s \in Suites : g[s] = "infra")
         \/ category = "LOCALIZATION_FAILURE" /\ unfixed /\ "production" \notin changed /\ ~syntax
         \/ category = "INCORRECT_PATCH"
              /\ (syntax \/ (unfixed /\ "production" \in changed) \/ broke \/ changed = {})}

OutOfScope(task) == ~(changed \subseteq MayChange(task))

(* History: what a fair judge holds of the workspace *)
Solved(task, g, artifact) ==
  /\ changed # {} /\ ~OutOfScope(task)
  /\ \A s \in Suites \ {"visible"} : g[s] = "passed"
  /\ task \in TestTasks => artifact = "valid"

(* History: whether the grading itself broke down *)
Faulty(task, g, artifact) ==
  \/ \E s \in Suites : g[s] = "infra"
  \/ task \in TestTasks /\ artifact = "infra"

-----------------------------------------------------------------------------
(* run_phase *)

(* "FINISHED" stands for the reasons of a participant that came to its end:  *)
(* COMPLETED, NONZERO_EXIT, INVALID_OUTPUT and those its audit log holds (the *)
(* agent loop writes no INFRA_ERROR into it)                                 *)
Stops == {"FINISHED", "TIMEOUT", "INFRA_ERROR"}

StartPhase ==
  /\ studyAt = "start"
  /\ studyAt' = IF studyFile = "absent" THEN "make" ELSE "raised"
  /\ cell' = 1 /\ rows' = <<>> /\ changed' = {} /\ cellRaised' = FALSE
  /\ UNCHANGED <<phases, stopReason, ran, workspaces, studyFile>>

(* mkdtemp, the factory and the task's text *)
MakeWorkspace(made, filled) ==
  /\ studyAt = "make"
  /\ workspaces' = IF made THEN workspaces \cup {<<phases, cell>>} ELSE workspaces
  /\ cellRaised' = (made /\ ~filled)
  /\ studyAt' = IF ~made THEN "raised" ELSE IF filled THEN "adapter" ELSE "clean"
  /\ changed' = {}
  /\ UNCHANGED <<phases, cell, stopReason, ran, rows, studyFile>>

(* Whatever is returned for the adapter, its workspace is graded *)
AdapterReturns(reason, left) ==
  /\ changed' = left
  /\ stopReason' = reason
  /\ studyAt' = "grade"
  /\ UNCHANGED <<phases, cell, rows, workspaces, cellRaised, studyFile>>

(* The process came to its end, or was killed at its time limit *)
RunAdapter(left, timedOut) ==
  /\ studyAt = "adapter"
  /\ AdapterReturns(IF timedOut THEN "TIMEOUT" ELSE "FINISHED", left)
  /\ ran' = TRUE

(* An executable of another hash, a process that cannot be started or put   *)
(* into its job object, an adapter that raises: a participant that never    *)
(* started left nothing                                                     *)
FailAdapter(left) ==
  /\ studyAt = "adapter"
  /\ AdapterReturns("INFRA_ERROR", left)
  /\ ran' = FALSE

(* The participant ran, but its .code-operator cannot be removed and stays  *)
KeepRuntime(left) ==
  /\ studyAt = "adapter"
  /\ AdapterReturns("INFRA_ERROR", left \cup {"other"})
  /\ ran' = FALSE

Enter(primary, solved, faulty) ==
  /\ rows' = Append(rows, [cell |-> cell, stop |-> stopReason, resolved |-> primary = "none",
                           primary |-> primary, solved |-> solved, faulty |-> faulty,
                           ran |-> ran])
  /\ studyAt' = "clean"
  /\ UNCHANGED <<phases, cell, changed, stopReason, ran, workspaces, cellRaised, studyFile>>

(* The workspace cannot be examined or copied, or the grader raises *)
GradeNothing ==
  /\ studyAt = "grade"
  /\ Enter("TOOL_OR_INFRA_FAILURE", FALSE, TRUE)

(* Forbidden changes are seen before anything is run *)
GradeScope ==
  /\ studyAt = "grade"
  /\ OutOfScope(Cells[cell])
  /\ Enter("SCOPE_VIOLATION", FALSE, FALSE)

GradeRuns(g, artifact) ==
  /\ studyAt = "grade"
  /\ ~OutOfScope(Cells[cell])
  /\ Enter(Primary(Evidence(Cells[cell], g, artifact)),
           Solved(Cells[cell], g, artifact), Faulty(Cells[cell], g, artifact))

(* A workspace that cannot be removed ends the phase, and its rows are lost *)
CleanUpCell(fails) ==
  /\ studyAt = "clean"
  /\ workspaces' = IF fails THEN workspaces ELSE workspaces \ {<<phases, cell>>}
  /\ studyAt' = IF fails \/ cellRaised THEN "raised"
                ELSE IF cell = Len(Cells) THEN "write" ELSE "make"
  /\ cell' = IF studyAt' = "make" THEN cell + 1 ELSE cell
  /\ UNCHANGED <<phases, changed, stopReason, ran, rows, cellRaised, studyFile>>

(* open("x") and one write, which may not get to its end *)
WriteStudy(complete) ==
  /\ studyAt = "write"
  /\ studyFile' = IF complete THEN "report" ELSE "torn"
  /\ studyAt' = IF complete THEN "written" ELSE "raised"
  /\ UNCHANGED <<phases, cell, changed, stopReason, ran, rows, workspaces, cellRaised>>

RunAgain ==
  /\ studyAt = "raised" /\ phases < MaxPhases
  /\ phases' = phases + 1
  /\ studyAt' = "start"
  /\ UNCHANGED <<cell, changed, stopReason, ran, rows, workspaces, cellRaised, studyFile>>

-----------------------------------------------------------------------------
StudyIs(where) ==
  /\ studyAt = where /\ phases = 1 /\ cell = 1 /\ changed = {} /\ rows = <<>>
  /\ stopReason = "INFRA_ERROR" /\ ran = FALSE
  /\ workspaces = {} /\ cellRaised = FALSE /\ studyFile = "absent"

StudyInit == StudyIs("start")

StudyNext ==
  \/ StartPhase
  \/ \E made, filled \in BOOLEAN : MakeWorkspace(made, filled)
  \/ \E left \in SUBSET {"production", "test", "other"} :
       \/ \E timedOut \in BOOLEAN : RunAdapter(left, timedOut)
       \/ FailAdapter(left) \/ KeepRuntime(left)
  \/ GradeNothing \/ GradeScope
  \/ \E g \in Gradings :
       \E artifact \in IF Cells[cell] \in TestTasks THEN Artifacts ELSE {"valid"} :
         GradeRuns(g, artifact)
  \/ \E ok \in BOOLEAN : CleanUpCell(~ok) \/ WriteStudy(ok)
  \/ RunAgain

StudySpec == StudyInit /\ [][StudyNext]_studyVars

-----------------------------------------------------------------------------
(* A phase's report holds the row of every cell, in order, and no workspace  *)
(* of that phase is left.  A row is resolved only if its participant solved  *)
(* the task, and a breakdown of the grading is never put down to the         *)
(* participant, unless what was changed was out of scope anyway.  The grader *)
(* is not told how the adapter ended: a participant that was never started   *)
(* is graded by the workspace it did not touch, as LOCALIZATION_FAILURE or   *)
(* INCORRECT_PATCH, and one whose runtime directory could not be removed as  *)
(* SCOPE_VIOLATION.  What the report does hold is that such a row, and no    *)
(* other, has the stop reason INFRA_ERROR.                                   *)
StudyReportIsTrue ==
  studyFile = "report" =>
    /\ [k \in DOMAIN rows |-> rows[k].cell] = [k \in 1..Len(Cells) |-> k]
    /\ \A w \in workspaces : w[1] # phases
    /\ \A k \in DOMAIN rows :
         /\ rows[k].resolved => rows[k].solved
         /\ rows[k].faulty => rows[k].primary \in {"TOOL_OR_INFRA_FAILURE", "SCOPE_VIOLATION"}
         /\ rows[k].stop = "INFRA_ERROR" <=> ~rows[k].ran

StudyOver == studyAt \in {"off", "written"} \/ (studyAt = "raised" /\ phases = MaxPhases)
=============================================================================
