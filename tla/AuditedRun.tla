----------------------------- MODULE AuditedRun -----------------------------
(***************************************************************************)
(* One task of code-operator as the comparison study runs it: the adapter  *)
(* (evals/agent_comparison/adapters.py, run_adapter) starts the one-shot   *)
(* command line, whose loop asks the model client, executes the calls by   *)
(* the registry and the command policy and appends each to the audit log   *)
(* (audit.py); the adapter then reads the log back as its verdict.         *)
(*                                                                         *)
(* Nobody presses Ctrl-C here.  The history and the limits that depend on  *)
(* it or on equal results are in AgentLoop: here they may stop the loop    *)
(* after any round.                                                        *)
(***************************************************************************)
EXTENDS ModelClient, ToolRegistry, CommandPolicy

CONSTANTS
  MaxRounds,      \* max_model_rounds
  MaxToolCalls    \* max_tool_calls

VARIABLES
  agent,       \* where the agent's process stands
  turn,        \* the calls of the round
  results,     \* their results so far
  logged,      \* the number of results that are in the audit's hands
  rounds,      \* model_rounds
  spent,       \* tool_call_count
  status,      \* the status the loop returned
  exit,        \* the exit status of the process
  log,         \* the lines of audit.jsonl
  verdict,     \* AdapterResult
  handed,      \* history: what the last handler was called with
  tested,      \* history: a process that names pytest ran to its exit status
  spoilt       \* history: a line was lost or torn, or hides a command's words

agentVars ==
  <<agent, turn, results, logged, rounds, spent, status, exit, log, handed, tested, spoilt>>
runVars == <<clientVars, agentVars, verdict>>

NoVerdict == [reason |-> "", tests |-> FALSE]
NotHanded == [tool |-> "", values |-> <<>>]

(* The limits of a round whose results are in that need more than is here *)
LoopStops == {"REPEATED_CALL", "CONSECUTIVE_TOOL_FAILURES"}

StopRun(why) == agent' = "report" /\ status' = why

-----------------------------------------------------------------------------
(* The rounds of the loop *)

AskModel ==
  /\ agent = "ask" /\ rounds < MaxRounds
  /\ Complete
  /\ agent' = "answer"
  /\ UNCHANGED <<turn, results, logged, rounds, spent, status, exit, log, handed, tested, spoilt, verdict>>

StopAsking ==
  /\ agent = "ask"
  /\ \/ rounds = MaxRounds /\ StopRun("MODEL_ROUND_LIMIT")
     \/ rounds < MaxRounds /\ StopRun("CONTEXT_LIMIT")
     \/ rounds > 0 /\ \E why \in LoopStops : StopRun(why)
  /\ UNCHANGED <<turn, results, logged, rounds, spent, exit, log, handed, tested, spoilt, verdict, clientVars>>

HearError ==
  /\ agent = "answer"
  /\ post \in {"PROVIDER_ERROR", "PROVIDER_PROTOCOL_ERROR"}
  /\ StopRun(post)
  /\ ForgetCall
  /\ UNCHANGED <<turn, results, logged, rounds, spent, exit, log, handed, tested, spoilt, verdict>>

HearFinal ==
  /\ agent = "answer" /\ post = "turn" /\ answer.calls = <<>>
  /\ rounds' = rounds + 1
  /\ StopRun(CASE answer.finish = "length" -> "OUTPUT_TRUNCATED"
               [] answer.finish = "content_filter" -> "CONTENT_FILTERED"
               [] answer.finish \notin {"length", "content_filter"} /\ answer.content # "text"
                    -> "EMPTY_RESPONSE"
               [] OTHER -> "COMPLETED")
  /\ ForgetCall
  /\ UNCHANGED <<turn, results, logged, spent, exit, log, handed, tested, spoilt, verdict>>

(* A round that would exceed the tool calls gets a failure for each call *)
OverLimit(calls) == [k \in 1..Len(calls) |-> Failure(calls[k], "TOOL_CALL_LIMIT")]

HearCalls ==
  /\ agent = "answer" /\ post = "turn" /\ answer.calls # <<>>
  /\ rounds' = rounds + 1
  /\ IF DistinctIds(answer.calls)
     THEN /\ agent' = "execute" /\ turn' = answer.calls /\ UNCHANGED status
          /\ spent' = spent + Len(answer.calls)
          /\ results' = IF spent' > MaxToolCalls THEN OverLimit(answer.calls) ELSE <<>>
     ELSE /\ StopRun("PROVIDER_PROTOCOL_ERROR")
          /\ results' = <<>>
          /\ UNCHANGED <<turn, spent>>
  /\ logged' = 0
  /\ ForgetCall
  /\ UNCHANGED <<exit, log, handed, tested, spoilt, verdict>>

-----------------------------------------------------------------------------
(* The registry executes the calls of a round one by one *)

Current == turn[Len(results) + 1]

Executing == agent = "execute" /\ Len(results) < Len(turn)

Result(call, ok, code, ended) ==
  [id |-> call.id, name |-> call.name, ok |-> ok, code |-> code, exit |-> ended]

Answer(result) == results' = Append(results, result)

RefuseCall ==
  /\ Executing
  /\ Current.name \in DOMAIN Parameters => ~Current.arguments.huge
  /\ Refusal(Current) # ""
  /\ Answer(Failure(Current, Refusal(Current)))
  /\ UNCHANGED <<agent, turn, logged, rounds, spent, status, exit, log, handed, tested, spoilt, verdict, clientVars>>

(* An integer too long for int() is a ValueError that _validated_arguments   *)
(* does not catch: it leaves the registry, the loop and the run              *)
EscapeRegistry ==
  /\ Executing
  /\ Current.name \in DOMAIN Parameters /\ Current.arguments.huge
  /\ agent' = "gone" /\ exit' = 1
  /\ UNCHANGED <<turn, results, logged, rounds, spent, status, log, handed, tested, spoilt, verdict, clientVars>>

HandTo(call) == handed' = [tool |-> call.name, values |-> Normalized(call)]

(* A handler of the registry that raises, answers badly, fails or succeeds *)
CallTool ==
  /\ Executing
  /\ ~Current.arguments.huge /\ Refusal(Current) = "" /\ Current.name # "run_command"
  /\ HandTo(Current)
  /\ \E broken, ok \in BOOLEAN :
       Answer(Repaired(Current,
                [broken |-> broken,
                 result |-> Result(Current, ok, IF ok THEN "" ELSE "FAILED", "none")]))
  /\ UNCHANGED <<agent, turn, logged, rounds, spent, status, exit, log, tested, spoilt, verdict, clientVars>>

(* _command_has_pytest: one of the words is pytest, whatever the command does *)
NamesPytest(argv) == argv.program = "pytest" \/ "pytest" \in Words(argv)

(* run_command: only an approved command becomes a process; one that ran out *)
(* of time may have an exit status or none                                   *)
CallCommand ==
  /\ Executing
  /\ ~Current.arguments.huge /\ Refusal(Current) = "" /\ Current.name = "run_command"
  /\ HandTo(Current)
  /\ \E yes \in BOOLEAN, shadowed \in SUBSET {"pytest"} :
       LET decision == Approve(Current.arguments.argv, shadowed, yes)
           ends == {<<TRUE, "", "zero">>, <<FALSE, "COMMAND_FAILED", "other">>,
                    <<FALSE, "COMMAND_TIMEOUT", "other">>, <<FALSE, "COMMAND_TIMEOUT", "none">>,
                    <<FALSE, "COMMAND_START_FAILED", "none">>}
       IN  \/ /\ decision = "allow"
              /\ \E end \in ends :
                   /\ Answer(Result(Current, end[1], end[2], end[3]))
                   /\ tested' = (tested \/ (end[3] # "none" /\ NamesPytest(Current.arguments.argv)))
           \/ /\ decision # "allow"
              /\ Answer(Failure(Current, IF decision = "deny" THEN "COMMAND_DENIED" ELSE "USER_DENIED"))
              /\ UNCHANGED tested
  /\ UNCHANGED <<agent, turn, logged, rounds, spent, status, exit, log, spoilt, verdict, clientVars>>

-----------------------------------------------------------------------------
(* JsonlAudit: a line that cannot be written is lost, or lost in part; the   *)
(* next one is then appended to what is left of it                           *)

(* _argument_summary keeps a command's words only if they are an object's    *)
(* and short                                                                 *)
Readable(call) ==
  /\ call.arguments.object /\ ~call.arguments.huge /\ call.arguments.short
  /\ "argv" \in DOMAIN call.arguments.given
  /\ call.arguments.given.argv.type = "array" /\ call.arguments.given.argv.items # "others"

(* Bug: any call of a command counts, run or not *)
ToolLine_AnyCall(call, result) ==
  [event |-> "tool", whole |-> call.name # "run_command" \/ Readable(call),
   pytest |-> NamesPytest(call.arguments.argv), reason |-> ""]

ToolLine(call, result) ==
  [event |-> "tool", whole |-> call.name # "run_command" \/ Readable(call),
   pytest |-> result.exit # "none" /\ NamesPytest(call.arguments.argv), reason |-> ""]

RunLine == [event |-> "run", whole |-> TRUE, pytest |-> FALSE, reason |-> status]

Torn == [event |-> "torn", whole |-> FALSE, pytest |-> FALSE, reason |-> ""]

Write(line) ==
  \/ log' = Append(log, line) /\ spoilt' = (spoilt \/ ~line.whole)
  \/ log' = log /\ spoilt' = TRUE
  \/ log' = Append(log, Torn) /\ spoilt' = TRUE

LimitReached == \E k \in DOMAIN results : results[k].code = "TOOL_CALL_LIMIT"

(* A result's line and its place in the count of equal results.  Neither can *)
(* read an integer too long for int(): the audit's ValueError is swallowed,  *)
(* that of _call_result_signature leaves the loop and the run.               *)
RecordTool ==
  /\ agent = "execute" /\ Len(results) = Len(turn)
  /\ logged' = logged + 1
  /\ IF turn[logged'].arguments.huge
     THEN agent' = "gone" /\ exit' = 1 /\ spoilt' = TRUE /\ UNCHANGED <<log, status>>
     ELSE /\ Write(ToolLine(turn[logged'], results[logged']))
          /\ IF logged' = Len(turn) /\ LimitReached
             THEN StopRun("TOOL_CALL_LIMIT")
             ELSE agent' = (IF logged' = Len(turn) THEN "ask" ELSE agent) /\ UNCHANGED status
          /\ UNCHANGED exit
  /\ UNCHANGED <<turn, results, rounds, handed, tested, spent, verdict, clientVars>>

(* Bug: the process succeeds however the run stopped *)
RecordRun_ZeroExit ==
  /\ agent = "report"
  /\ Write(RunLine)
  /\ agent' = "gone" /\ exit' = 0
  /\ UNCHANGED <<turn, results, logged, rounds, spent, status, handed, tested, verdict, clientVars>>

(* record_run, the last thing of a run, and the exit status of the command line *)
RecordRun ==
  /\ agent = "report"
  /\ Write(RunLine)
  /\ agent' = "gone"
  /\ exit' = IF status = "COMPLETED" THEN 0 ELSE 1
  /\ UNCHANGED <<turn, results, logged, rounds, spent, status, handed, tested, verdict, clientVars>>

(* The process dies on its own *)
Die ==
  /\ agent \notin {"off", "gone"}
  /\ agent' = "gone" /\ exit' = 1
  /\ ForgetCall
  /\ UNCHANGED <<turn, results, logged, rounds, spent, status, log, handed, tested, spoilt, verdict>>

-----------------------------------------------------------------------------
(* run_adapter *)

Launch ==
  /\ agent = "off" /\ verdict = NoVerdict
  /\ agent' = "ask"
  /\ UNCHANGED <<turn, results, logged, rounds, spent, status, exit, log, handed, tested, spoilt, verdict, clientVars>>

(* The command line or the environment is not what the manifest says *)
RefuseLaunch ==
  /\ agent = "off" /\ verdict = NoVerdict
  /\ verdict' = [NoVerdict EXCEPT !.reason = "INFRA_ERROR"]
  /\ UNCHANGED <<agentVars, clientVars>>

(* run_process ended the process at its deadline *)
Deadline ==
  /\ agent \notin {"off", "gone"}
  /\ agent' = "gone"
  /\ \E cleaned \in BOOLEAN :
       verdict' = [NoVerdict EXCEPT !.reason = IF cleaned THEN "TIMEOUT" ELSE "INFRA_ERROR"]
  /\ log' = <<>>
  /\ ForgetCall
  /\ UNCHANGED <<turn, results, logged, rounds, spent, status, exit, handed, tested, spoilt>>

(* A log holds at most one run *)
Stops == {log[k].reason : k \in {j \in DOMAIN log : log[j].event = "run"}}

(* _parse_audit: one bad line and nothing is read *)
Parsed ==
  IF (\A k \in DOMAIN log : log[k].whole) /\ Stops # {}
  THEN [readable |-> TRUE, tests |-> \E k \in DOMAIN log : log[k].pytest, reasons |-> Stops]
  ELSE [readable |-> FALSE,
        tests |-> (\A k \in DOMAIN log : log[k].whole) /\ \E k \in DOMAIN log : log[k].pytest,
        reasons |-> {"INVALID_OUTPUT"}]

(* The verdict on a process that has ended, and the removal of its log, whose *)
(* failure makes the verdict INFRA_ERROR whatever it was                      *)
ReadLog ==
  /\ agent = "gone" /\ verdict = NoVerdict
  /\ \/ \E reason \in Parsed.reasons :
          verdict' = [reason |-> IF exit # 0 THEN "NONZERO_EXIT" ELSE reason,
                      tests |-> Parsed.tests]
     \/ verdict' = [NoVerdict EXCEPT !.reason = "INFRA_ERROR"]
  /\ log' = <<>>
  /\ UNCHANGED <<agent, turn, results, logged, rounds, spent, status, exit, handed, tested, spoilt, clientVars>>

-----------------------------------------------------------------------------
RunInit ==
  /\ ClientInit
  /\ agent = "off" /\ turn = <<>> /\ results = <<>> /\ logged = 0 /\ rounds = 0 /\ spent = 0
  /\ status = "" /\ exit = 0 /\ log = <<>> /\ verdict = NoVerdict
  /\ handed = NotHanded /\ tested = FALSE /\ spoilt = FALSE

AwaitClient == agent = "answer" /\ ClientStep /\ UNCHANGED <<agentVars, verdict>>

AgentStep ==
  \/ AskModel \/ StopAsking \/ HearError \/ HearFinal \/ HearCalls
  \/ RefuseCall \/ EscapeRegistry \/ CallTool \/ CallCommand
  \/ RecordTool \/ RecordRun

RunNext ==
  AgentStep \/ AwaitClient \/ Die \/ Launch \/ RefuseLaunch \/ Deadline \/ ReadLog

RunSpec == RunInit /\ [][RunNext]_runVars /\ WF_runVars(AwaitClient)

-----------------------------------------------------------------------------
RunTypeOK ==
  /\ ClientTypeOK
  /\ agent \in {"off", "ask", "answer", "execute", "report", "gone"}
  /\ logged \in 0..Len(turn) /\ rounds \in 0..MaxRounds /\ exit \in {0, 1}
  /\ {tested, spoilt} \subseteq BOOLEAN

(* What the handlers rely on beyond the schema: their keyword parameters all *)
(* present, integers that are no booleans, lines in order, a text to replace *)
HandlersGetWhatTheyExpect ==
  LET values == handed.values
  IN  /\ handed.tool = "read_file" =>
           /\ DOMAIN values = {"path", "start_line", "end_line"}
           /\ values.start_line.type = "integer" /\ values.start_line.n >= 1
           /\ values.end_line.type = "null" \/ values.end_line.n >= values.start_line.n
      /\ handed.tool = "edit_file" =>
           values.old_text.n >= 1 /\ values.old_text # values.new_text
      /\ handed.tool = "run_command" =>
           /\ values.argv.items = "words" /\ values.argv.n \in 1..64
           /\ values.timeout_seconds.type = "integer" /\ values.timeout_seconds.n \in 1..120

(* The study's verdict is the run's own: COMPLETED is only ever said of a    *)
(* run that completed, and a completed run that was not killed is called     *)
(* INVALID_OUTPUT only if a line of its log was lost, torn or hides the      *)
(* words of a command (run_command's malformed or overlong arguments).       *)
VerdictIsTheRuns ==
  /\ verdict.reason = "COMPLETED" => status = "COMPLETED"
  /\ verdict.reason = "INVALID_OUTPUT" => status = "COMPLETED" /\ spoilt

(* Tests count as observed only if a process that names pytest really ran:   *)
(* a denied, refused or unstarted command never does ("it was never a test   *)
(* observation", adapters.py).                                               *)
ObservedTestsRan == verdict.tests => tested
=============================================================================
