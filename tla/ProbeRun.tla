------------------------------ MODULE ProbeRun ------------------------------
(***************************************************************************)
(* run_probe of evals/run_session_probe.py: two turns of one session in a  *)
(* copy of the fixture, its tests after each, an undo and a reset, and the *)
(* report, which build_o1b_summary must accept later.  What the agent, its *)
(* provider, the tests and the operating system do is chosen freely.       *)
(*                                                                         *)
(* Evidence that is not there yet is "null", as in the report (-1 for the  *)
(* number of closes).                                                      *)
(***************************************************************************)
EXTENDS Integers, Sequences

CONSTANTS
  Events1, Events2,    \* bound: the tool events of each turn
  Statuses             \* bound: how a turn may end

VARIABLES
  stage,     \* where run_probe stands
  opened,    \* whether the session is there, and whether it is closed
  closes,    \* how often its client was closed
  seen,      \* the evidence so far
  verdict,   \* the outcome and failure code so far
  report,    \* what run_probe returns
  wrong      \* history: the outcomes that something deserved

probeVars == <<stage, opened, closes, seen, verdict, report, wrong>>

Event(name, ok, denied) == [name |-> name, ok |-> ok, denied |-> denied]

NoReport == [outcome |-> ""]

Unseen ==
  [statuses |-> <<>>, ideal1 |-> "null", ideal2 |-> "null", ideal |-> "null",
   exact |-> "null", changed |-> {}, hash1 |-> "null", tests1 |-> "null",
   tests2 |-> "null", undone |-> "no", depth |-> 0, hash2 |-> "null",
   reset |-> "null", artifacts |-> "no", baseline |-> "no",
   residual |-> "null", idempotent |-> "no", closes |-> -1]

YesNo(b) == IF b THEN "yes" ELSE "no"

-----------------------------------------------------------------------------
(* The policies on a turn's tool events *)

Names(events) == [k \in DOMAIN events |-> events[k].name]
Named(events, name) == {k \in DOMAIN events : events[k].name = name}
Once(events, name) == \E k \in DOMAIN events : Named(events, name) = {k}
AllOk(events) == \A k \in DOMAIN events : events[k].ok
Reading == {"read_file", "grep", "list_dir"}

(* _unexpected_command *)
Refused(events) == \E k \in Named(events, "run_command") : events[k].denied

(* _first_tool_sequence_is_valid and _second_tool_sequence_is_valid *)
Ideal1(events) == Names(events) = <<"read_file", "edit_file", "run_command">> /\ AllOk(events)
Ideal2(events) == Names(events) = <<"run_command">> /\ AllOk(events)

(* _first_primary_tool_policy_is_valid and _second_primary_tool_policy_is_valid *)
Primary1(events) ==
  /\ AllOk(events)
  /\ \A k \in DOMAIN events : events[k].name \in Reading \cup {"edit_file", "run_command"}
  /\ Once(events, "edit_file") /\ Once(events, "run_command")
  /\ \E i, j, k \in DOMAIN events :
       i < j /\ j < k /\ Names(events)[i] = "read_file"
       /\ Names(events)[j] = "edit_file" /\ Names(events)[k] = "run_command"

Primary2(events) ==
  /\ AllOk(events)
  /\ \A k \in DOMAIN events : events[k].name \in Reading \cup {"run_command"}
  /\ Once(events, "run_command")

-----------------------------------------------------------------------------
(* A check is Fine, or the outcome and code of what it finds; the first that *)
(* finds something ends the run                                              *)
Fine == <<"", "">>
Infra(so, code) == IF so THEN <<"INVALID_INFRA", code>> ELSE Fine
Fail(so, code) == IF so THEN <<"FAIL", code>> ELSE Fine

Judge(checks, next) ==
  LET failed == {k \in DOMAIN checks : checks[k] # Fine}
      first == CHOOSE k \in failed : \A j \in failed : k <= j
  IN  /\ wrong' = wrong \cup {checks[k][1] : k \in failed}
      /\ IF failed = {}
         THEN stage' = next /\ UNCHANGED verdict
         ELSE stage' = "report" /\ verdict' = checks[first]

SessionRest == UNCHANGED <<opened, closes, report>>

(* The copy, the first scan of the subprocesses, the session and its client *)
Open(scanned, observable) ==
  /\ stage = "copy"
  /\ seen' = [seen EXCEPT !.baseline = YesNo(scanned),
                          !.closes = IF scanned /\ observable THEN 0 ELSE -1]
  /\ opened' = IF scanned THEN "open" ELSE opened
  /\ Judge(<<Infra(~scanned, "SUBPROCESS_SCAN_FAILED"),
             Infra(~observable, "OWNED_CLIENT_OBSERVABILITY_UNAVAILABLE")>>, "turn1")
  /\ UNCHANGED <<closes, report>>

ProviderErrors == {"PROVIDER_ERROR", "PROVIDER_PROTOCOL_ERROR"}

Turn1(status, events) ==
  /\ stage = "turn1"
  /\ seen' = [seen EXCEPT !.statuses = <<status>>, !.ideal1 = YesNo(Ideal1(events))]
  /\ Judge(<<Infra(status \in ProviderErrors, status),
             Fail(status # "COMPLETED", "TURN1_NOT_COMPLETED"),
             Fail(Refused(events), "UNEXPECTED_COMMAND"),
             Fail(~Primary1(events), "PRIMARY_TOOL_POLICY_FAILED")>>, "files1")
  /\ SessionRest

(* What the workspace looks like: the paths that changed, whether the target *)
(* is there, and whether links, other kinds or other files appeared          *)
Files1(changed, there, links, extra) ==
  /\ stage = "files1"
  /\ seen' = [seen EXCEPT !.changed = changed, !.hash1 = IF there THEN "changed" ELSE "null"]
  /\ Judge(<<Fail(links, "WORKSPACE_MANIFEST_CHANGED"),
             Fail(changed # {"target"}, "TURN1_CHANGE_SCOPE"),
             Fail(~there \/ extra, "WORKSPACE_MANIFEST_CHANGED")>>, "tests1")
  /\ SessionRest

(* A test process that cannot be run, runs out of time, fails or passes *)
TestOutcomes == {"broken", "timeout", "other", "zero"}

TestChecks(tests, code) ==
  <<Infra(tests \in {"broken", "timeout"}, "PROCESS_FAILURE"), Fail(tests = "other", code)>>

TestCode(tests) == IF tests \in {"other", "zero"} THEN tests ELSE "null"

Tests1(tests) ==
  /\ stage = "tests1"
  /\ seen' = [seen EXCEPT !.tests1 = TestCode(tests)]
  /\ Judge(TestChecks(tests, "TURN1_TESTS_FAILED"), "again1")
  /\ SessionRest

(* The manifest once more, after the tests have run *)
Again(before, tampered, next) ==
  /\ stage = before
  /\ Judge(<<Fail(tampered, "WORKSPACE_MANIFEST_CHANGED")>>, next)
  /\ UNCHANGED seen
  /\ SessionRest

Turn2(status, events, exact) ==
  /\ stage = "turn2"
  /\ LET ideal2 == YesNo(Ideal2(events))
     IN  seen' = [seen EXCEPT !.statuses = Append(@, status), !.ideal2 = ideal2,
                              !.ideal = YesNo(seen.ideal1 = "yes" /\ ideal2 = "yes"),
                              !.exact = IF status \in ProviderErrors \cup {"COMPLETED"}
                                        THEN YesNo(exact) ELSE "null"]
  /\ Judge(<<Infra(status \in ProviderErrors, status),
             Fail(status # "COMPLETED", "TURN2_NOT_COMPLETED"),
             Fail(Refused(events), "UNEXPECTED_COMMAND"),
             Fail(~exact, "TURN2_EXACT_VALUE_MISSING"),
             Fail(~Primary2(events), "PRIMARY_TOOL_POLICY_FAILED")>>, "files2")
  /\ SessionRest

Tests2(tests) ==
  /\ stage = "tests2"
  /\ seen' = [seen EXCEPT !.tests2 = TestCode(tests)]
  /\ Judge(TestChecks(tests, "TURN2_TESTS_FAILED"), "again2")
  /\ SessionRest

(* Bug: more undo records may be left *)
Restored_AnyDepth(ok, depth, hash) == ok /\ hash = "initial"

Restored(ok, depth, hash) == ok /\ hash = "initial" /\ depth = 0

Undo(ok, depth, hash) ==
  /\ stage = "undo"
  /\ seen' = [seen EXCEPT !.undone = YesNo(ok), !.depth = depth, !.hash2 = hash]
  /\ Judge(<<Fail(~Restored(ok, depth, hash), "UNDO_NOT_RESTORED")>>, "reset")
  /\ SessionRest

(* session.reset and _reset_observability *)
ResetSession(state) ==
  /\ stage = "reset"
  /\ seen' = [seen EXCEPT !.reset = state]
  /\ Judge(<<Infra(state = "null", "RESET_OBSERVABILITY_UNAVAILABLE"),
             Fail(state = "dirty", "RESET_NOT_CLEAN")>>, "artifacts")
  /\ SessionRest

CountArtifacts(some) ==
  /\ stage = "artifacts"
  /\ seen' = [seen EXCEPT !.artifacts = YesNo(some)]
  /\ stage' = "report"
  /\ verdict' = IF some THEN <<"FAIL", "SESSION_ARTIFACT_FORBIDDEN">> ELSE <<"PASS", "">>
  /\ wrong' = IF some THEN wrong \cup {"FAIL"} ELSE wrong
  /\ SessionRest

(* An exception leaves the with block, and so do the files *)
Raise ==
  /\ stage \notin {"off", "report", "cleanup", "last", "done"}
  /\ stage' = "last"
  /\ verdict' = <<"INVALID_INFRA", "PROBE_RUNTIME_ERROR">>
  /\ wrong' = wrong \cup {"INVALID_INFRA"}
  /\ UNCHANGED <<opened, closes, seen, report>>

-----------------------------------------------------------------------------
(* _report: the session is closed twice, and closing counts in the verdict *)

(* Bug: a process left behind counts whatever else went wrong *)
LeftBehind_Always(residual, now) == residual = "some"

LeftBehind(residual, now) == residual = "some" /\ now[1] # "INVALID_INFRA"

(* AgentSession.close does nothing the second time *)
Report(raises, scanned, some) ==
  LET session == opened # "none"
      fails == opened = "open" /\ raises
      count == IF seen.closes = -1 THEN -1 ELSE closes'
      residual == IF session /\ scanned /\ seen.baseline = "yes"
                  THEN IF some THEN "some" ELSE "none"
                  ELSE seen.residual
      counted == IF session /\ count \notin {-1, 1} /\ ~fails
                 THEN <<"FAIL", "OWNED_CLIENT_CLOSE_INVALID">> ELSE verdict
      lifecycle == CASE ~session -> ""
                     [] session /\ fails -> "PROBE_RUNTIME_ERROR"
                     [] session /\ ~fails /\ ~scanned -> "SUBPROCESS_SCAN_FAILED"
                     [] OTHER -> ""
      final == IF lifecycle # "" THEN <<"INVALID_INFRA", lifecycle>>
               ELSE IF session /\ LeftBehind(residual, counted)
               THEN <<"FAIL", "NEW_RESIDUAL_DIRECT_SUBPROCESS">> ELSE counted
  IN  /\ stage \in {"report", "last"}
      /\ closes' = IF opened = "open" THEN closes + 1 ELSE closes
      /\ opened' = IF session THEN "closed" ELSE opened
      /\ seen' = [seen EXCEPT !.residual = residual, !.idempotent = YesNo(session /\ ~fails),
                              !.closes = count]
      /\ report' = [outcome |-> final[1], code |-> final[2], evidence |-> seen']
      /\ wrong' = wrong \cup (IF lifecycle # "" THEN {"INVALID_INFRA"} ELSE {})
                        \cup (IF residual = "some" THEN {"FAIL"} ELSE {})
      /\ stage' = IF stage = "report" THEN "cleanup" ELSE "done"
      /\ UNCHANGED verdict

(* The temporary directory is removed, or cannot be: then the report is made *)
(* again, of the exception                                                   *)
CleanUp(fails) ==
  /\ stage = "cleanup"
  /\ IF fails
     THEN /\ stage' = "last" /\ verdict' = <<"INVALID_INFRA", "PROBE_RUNTIME_ERROR">>
          /\ wrong' = wrong \cup {"INVALID_INFRA"}
     ELSE stage' = "done" /\ UNCHANGED <<verdict, wrong>>
  /\ UNCHANGED <<opened, closes, seen, report>>

-----------------------------------------------------------------------------
ProbeIs(where) ==
  /\ stage = where /\ opened = "none" /\ closes = 0 /\ seen = Unseen
  /\ verdict = <<"", "">> /\ report = NoReport /\ wrong = {}

ProbeInit == ProbeIs("copy")

ProbeNext ==
  \/ \E scanned, observable \in BOOLEAN : Open(scanned, observable)
  \/ \E status \in Statuses, events \in Events1 : Turn1(status, events)
  \/ \E changed \in SUBSET {"target", "other"}, there, links, extra \in BOOLEAN :
       Files1(changed, there, links, extra)
  \/ \E tests \in TestOutcomes : Tests1(tests) \/ Tests2(tests)
  \/ \E tampered \in BOOLEAN :
       \/ Again("again1", tampered, "turn2") \/ Again("files2", tampered, "tests2")
       \/ Again("again2", tampered, "undo")
  \/ \E status \in Statuses, events \in Events2, exact \in BOOLEAN : Turn2(status, events, exact)
  \/ \E ok \in BOOLEAN, depth \in 0..1, hash \in {"initial", "other", "null"} : Undo(ok, depth, hash)
  \/ \E state \in {"clean", "dirty", "null"} : ResetSession(state)
  \/ \E some \in BOOLEAN : CountArtifacts(some)
  \/ Raise
  \/ \E raises, scanned, some \in BOOLEAN : Report(raises, scanned, some)
  \/ \E fails \in BOOLEAN : CleanUp(fails)

ProbeSpec == ProbeInit /\ [][ProbeNext]_probeVars

-----------------------------------------------------------------------------
(* _validate_o1b_result_payload, for a result whose metadata fits *)
Evident ==
  [statuses |-> <<"COMPLETED", "COMPLETED">>, tests1 |-> "zero", tests2 |-> "zero",
   undone |-> "yes", depth |-> 0, reset |-> "clean", idempotent |-> "yes",
   residual |-> "none", artifacts |-> "no", changed |-> {"target"}, exact |-> "yes",
   baseline |-> "yes", hash2 |-> "initial", closes |-> 1]

Acceptable(r) ==
  LET e == r.evidence
  IN  /\ r.outcome = "PASS" <=> r.code = ""
      /\ e.ideal = IF "null" \in {e.ideal1, e.ideal2} THEN "null"
                   ELSE YesNo(e.ideal1 = "yes" /\ e.ideal2 = "yes")
      /\ r.outcome = "PASS" =>
           /\ "null" \notin {e.ideal1, e.ideal2, e.hash1}
           /\ \A field \in DOMAIN Evident : e[field] = Evident[field]

(* Every report a run can end with is one the summary accepts: a result that *)
(* it refused would leave the whole queue without a summary.                 *)
ReportsAreAccepted == stage = "done" => Acceptable(report)

(* Nothing the infrastructure did is held against the agent, and nothing the *)
(* agent did passes: a run with a failure of the infrastructure anywhere, to *)
(* the removal of its directory, is INVALID_INFRA; of the others exactly the *)
(* ones in which nothing was wrong pass.                                     *)
VerdictIsFair ==
  stage = "done" =>
    report.outcome = (IF "INVALID_INFRA" \in wrong THEN "INVALID_INFRA"
                      ELSE IF "FAIL" \in wrong THEN "FAIL" ELSE "PASS")

ProbeOver == stage \in {"off", "done"}
=============================================================================
