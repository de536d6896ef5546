------------------------------ MODULE GoldenEval ------------------------------
(***************************************************************************)
(* evals/run_golden.py: the batch of official runs of one frozen task,     *)
(* from the check of the report's path to the exit status.  What the       *)
(* tests, git, the agent and its client do is chosen freely; another       *)
(* process may create the report's file at any time.                       *)
(***************************************************************************)
EXTENDS Integers, Sequences, FiniteSets

CONSTANTS
  OfficialRuns,    \* OFFICIAL_RUNS
  AllowedPaths,    \* ALLOWED_CHANGED_PATHS
  TestFiles,       \* what tests_hash hashes
  OtherPaths,      \* bound: the other paths an agent may touch
  RunStatuses      \* bound: RunResult.status, without COMPLETED

ASSUME GoldenConstants == OfficialRuns \in Nat \ {0} /\ "COMPLETED" \notin RunStatuses

VARIABLES
  goldenAt,    \* where main stands
  touched,     \* the paths of the workspace that differ from the fixture
  status,      \* agent_status
  final,       \* how the final tests ended
  runs,        \* the runs completed
  place,       \* what is at the report's path: "absent", "foreign" or "report"
  exitCode     \* of main; -1 while it runs

goldenVars == <<goldenAt, touched, status, final, runs, place, exitCode>>

(* run_process: not started, killed at its time limit, or its exit status *)
Ends == {"broken", "timeout", "failed", "passed"}

Exit(code) == goldenAt' = "exit" /\ exitCode' = code

Goes(next) == goldenAt' = next /\ UNCHANGED exitCode

WorkspaceRest == UNCHANGED <<touched, status, final, runs, place>>

CheckDestination(parent) ==
  /\ goldenAt = "start"
  /\ IF place # "absent" \/ ~parent THEN Exit(2) ELSE Goes("preflight")
  /\ WorkspaceRest

(* The fixture's tests must fail; if they pass, that is what is reported *)
Preflight(end) ==
  /\ goldenAt = "preflight"
  /\ \/ end \in {"broken", "timeout"} /\ Exit(2)
     \/ end = "failed" /\ Goes("copy")
     \/ end = "passed" /\ Goes("write")
  /\ WorkspaceRest

(* run_single up to the agent *)
PrepareRun(end) ==
  /\ goldenAt = "copy"
  /\ IF end = "failed" THEN Goes("agent") ELSE Exit(2)
  /\ WorkspaceRest

RunAgent(ended, paths) ==
  /\ goldenAt = "agent"
  /\ status' = ended /\ touched' = paths
  /\ Goes("test")
  /\ UNCHANGED <<final, runs, place>>

(* client_factory raises: the run goes on with an agent that does nothing *)
NoClient == RunAgent("HARNESS_AGENT_ERROR", {})

FinalTests(end) ==
  /\ goldenAt = "test"
  /\ IF end = "broken" THEN Exit(2) /\ UNCHANGED final
     ELSE Goes("inspect") /\ final' = end
  /\ UNCHANGED <<touched, status, runs, place>>

(* Bug: only an exception of the agent counts against its run *)
Reasons_AnyStatus ==
  {reason \in {"agent_exception", "final_tests", "unexpected_paths", "empty_diff"} :
     \/ reason = "agent_exception" /\ status = "HARNESS_AGENT_ERROR"
     \/ reason = "final_tests" /\ final # "passed"
     \/ reason = "unexpected_paths" /\ ~(touched \subseteq AllowedPaths)
     \/ reason = "empty_diff" /\ touched = {}}

(* failure_reasons *)
Reasons ==
  {reason \in {"agent_exception", "agent_status", "final_test_timeout", "final_tests_failed",
               "tests_modified", "unexpected_paths", "empty_diff"} :
     \/ reason = "agent_exception" /\ status = "HARNESS_AGENT_ERROR"
     \/ reason = "agent_status" /\ status # "COMPLETED"
     \/ reason = "final_test_timeout" /\ final = "timeout"
     \/ reason = "final_tests_failed" /\ final = "failed"
     \/ reason = "tests_modified" /\ touched \cap TestFiles # {}
     \/ reason = "unexpected_paths" /\ ~(touched \subseteq AllowedPaths)
     \/ reason = "empty_diff" /\ touched = {}}

(* History: what the run has to be to count *)
Earned ==
  /\ status = "COMPLETED" /\ final = "passed"
  /\ touched # {} /\ touched \subseteq AllowedPaths /\ touched \cap TestFiles = {}

(* The row of a run, which an error of git loses together with the earlier ones *)
Inspect(git) ==
  /\ goldenAt = "inspect"
  /\ IF ~git THEN Exit(2) /\ UNCHANGED runs
     ELSE /\ runs' = Append(runs, [success |-> Reasons = {}, earned |-> Earned])
          /\ Goes(IF Len(runs) + 1 = OfficialRuns THEN "write" ELSE "copy")
  /\ touched' = {} /\ status' = "" /\ final' = ""
  /\ UNCHANGED place

VideoCandidate == Cardinality({k \in DOMAIN runs : runs[k].success}) >= 2

(* write_report_exclusive and the exit status; runs is empty for INVALID_FIXTURE *)
WriteReport(parent) ==
  /\ goldenAt = "write"
  /\ IF place # "absent" \/ ~parent THEN Exit(2) /\ UNCHANGED place
     ELSE /\ place' = "report"
          /\ Exit(IF runs = <<>> THEN 2 ELSE IF VideoCandidate THEN 0 ELSE 1)
  /\ UNCHANGED <<touched, status, final, runs>>

(* An error of the operating system that main does not catch *)
Crash ==
  /\ goldenAt \notin {"off", "start", "exit"}
  /\ Exit(1)
  /\ WorkspaceRest

OtherReport ==
  /\ goldenAt \notin {"off", "exit"} /\ place = "absent"
  /\ place' = "foreign"
  /\ UNCHANGED <<goldenAt, touched, status, final, runs, exitCode>>

-----------------------------------------------------------------------------
GoldenIs(where) ==
  /\ goldenAt = where /\ touched = {} /\ status = "" /\ final = ""
  /\ runs = <<>> /\ place = "absent" /\ exitCode = -1

GoldenInit == GoldenIs("start")

GoldenNext ==
  \/ \E parent \in BOOLEAN : CheckDestination(parent) \/ WriteReport(parent)
  \/ \E end \in Ends : Preflight(end) \/ PrepareRun(end) \/ FinalTests(end)
  \/ \E ended \in RunStatuses \cup {"COMPLETED", "HARNESS_AGENT_ERROR"},
        paths \in SUBSET (AllowedPaths \cup TestFiles \cup OtherPaths) : RunAgent(ended, paths)
  \/ NoClient
  \/ \E git \in BOOLEAN : Inspect(git)
  \/ Crash \/ OtherReport

GoldenSpec == GoldenInit /\ [][GoldenNext]_goldenVars

-----------------------------------------------------------------------------
(* The batch exits with 0 only if its own report is in place, of all official *)
(* runs, and at least two of them were completed by the agent, changed only   *)
(* what they may and passed the frozen tests; it exits with 1 only if that is *)
(* not so.  Runs whose measurement failed are in no report.                   *)
CandidateIsEarned ==
  LET earned == Cardinality({k \in DOMAIN runs : runs[k].earned})
  IN  /\ exitCode = 0 => place = "report" /\ Len(runs) = OfficialRuns /\ earned >= 2
      /\ exitCode = 1 /\ place = "report" => Len(runs) = OfficialRuns /\ earned < 2

GoldenOver == goldenAt \in {"off", "exit"}
=============================================================================
