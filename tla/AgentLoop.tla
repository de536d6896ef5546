------------------------------ MODULE AgentLoop ------------------------------
(***************************************************************************)
(* AgentLoop of code_operator/loop.py: one user task at a time, model      *)
(* rounds, the tool calls of a round one by one, the ways a run stops, and *)
(* the conversation history that outlives it.  A Ctrl-C that no handler of *)
(* run() catches escapes to the prompt.                                    *)
(*                                                                         *)
(* A tool call keeps its id and what it asks for (name and arguments); a   *)
(* reply stands for the result message.  Token usage, the audit and trace  *)
(* callbacks (whose exceptions are swallowed) and the final text are left  *)
(* out.                                                                    *)
(***************************************************************************)
EXTENDS ContextManager

CONSTANTS
  Asks,          \* what a call may ask for: tool name and arguments
  MaxRounds,     \* max_model_rounds
  MaxToolCalls,  \* max_tool_calls
  MaxFailures,   \* MAX_CONSECUTIVE_TOOL_FAILURES
  MaxRepeats,    \* MAX_REPEATED_CALL_RESULTS
  Tasks,         \* sizes of the user messages the user may type
  Summaries,     \* sizes of the summaries /compact may get
  TurnCalls,     \* bound: the tool calls a model turn may make
  MaxMessages    \* bound: no task is typed when the history is as long as this

ASSUME LoopLimits ==
  /\ {MaxRounds, MaxToolCalls, MaxFailures, MaxRepeats} \subseteq Nat \ {0}
  /\ Tasks \cup Summaries \subseteq Nat \ {0}
  /\ TurnCalls \subseteq Seq([id : CallIds, asks : Asks])
  /\ MaxMessages \in Nat

VARIABLES
  messages,    \* _messages, which run's local messages always is
  pc,          \* where run stands; "ready" at the prompt
  turn,        \* the assistant turn being executed
  results,     \* tool_results, each the kind of its reply
  rounds,      \* model_rounds
  toolCalls,   \* tool_call_count
  failures,    \* consecutive_tool_failures
  previous,    \* previous_call_result
  repeated,    \* repeated_call_results
  status,      \* the status result() returns
  before,      \* history: _messages before the task, until a request is made
  task,        \* history: the current user message
  started,     \* history: the run's tool calls that were begun
  outcomes     \* history: the (call, reply) pairs the run put in the history

loopVars == <<messages, pc, turn, results, rounds, toolCalls, failures, previous,
              repeated, status, before, task, started, outcomes>>

counters == <<toolCalls, failures, previous, repeated>>
runHistory == <<before, task, started, outcomes>>

Replies == {"ok", "failed", "aborted", "skipped", "limit"}

(* A call may fail, be refused, or report an abort of its own (run_command) *)
Executed == {"ok", "failed", "aborted"}

NoTurn == [calls |-> <<>>, finish |-> "stop", blank |-> TRUE]

Turns ==
  [calls : TurnCalls, finish : {"stop"}, blank : {TRUE}]
    \cup [calls : {<<>>}, finish : {"stop", "length", "content_filter"}, blank : BOOLEAN]

Ids(calls) == [k \in DOMAIN calls |-> calls[k].id]

Every(calls, reply) == [k \in DOMAIN calls |-> reply]

-----------------------------------------------------------------------------
(* result(status): the locals of run are gone once it returns *)
Stop(why) == status' = why /\ pc' = "result"

Leave ==
  /\ pc' = "ready"
  /\ turn' = NoTurn /\ results' = <<>> /\ rounds' = 0
  /\ toolCalls' = 0 /\ failures' = 0 /\ previous' = <<>> /\ repeated' = 0
  /\ status' = "" /\ before' = <<>> /\ task' = User(0) /\ started' = 0 /\ outcomes' = <<>>

Return ==
  /\ pc = "result"
  /\ Leave
  /\ UNCHANGED messages

StartRun(size) ==
  /\ pc = "ready"
  /\ Len(messages) < MaxMessages
  /\ before' = messages
  /\ task' = User(size)
  /\ messages' = Append(messages, User(size))
  /\ pc' = "prepare"
  /\ UNCHANGED <<turn, results, rounds, counters, status, started, outcomes>>

(* The head of the round loop, up to the request *)
RoundLimit ==
  /\ pc = "prepare"
  /\ rounds = MaxRounds
  /\ Stop("MODEL_ROUND_LIMIT")
  /\ UNCHANGED <<messages, turn, results, rounds, counters, runHistory>>

Prepare ==
  /\ pc = "prepare"
  /\ rounds < MaxRounds
  /\ ~Unpreparable(messages)
  /\ messages' = Prepared(messages)
  /\ pc' = "request"
  /\ before' = <<>>
  /\ UNCHANGED <<turn, results, rounds, counters, status, task, started, outcomes>>

(* Bug: the refused task stays *)
ContextLimit_KeepsTask ==
  /\ pc = "prepare"
  /\ rounds < MaxRounds
  /\ Unpreparable(messages)
  /\ Stop("CONTEXT_LIMIT")
  /\ UNCHANGED <<messages, turn, results, rounds, counters, runHistory>>

(* Before the first request the task is taken back out of the history *)
ContextLimit ==
  /\ pc = "prepare"
  /\ rounds < MaxRounds
  /\ Unpreparable(messages)
  /\ messages' = IF rounds = 0 THEN SubSeq(messages, 1, Len(messages) - 1) ELSE messages
  /\ Stop("CONTEXT_LIMIT")
  /\ UNCHANGED <<turn, results, rounds, counters, runHistory>>

-----------------------------------------------------------------------------
(* The model answers, or does not *)

RequestFails ==
  /\ pc = "request"
  /\ \E why \in {"USER_ABORTED", "PROVIDER_PROTOCOL_ERROR", "PROVIDER_ERROR"} : Stop(why)
  /\ UNCHANGED <<messages, turn, results, rounds, counters, runHistory>>

FinalStatus(answer) ==
  CASE answer.finish = "length" -> "OUTPUT_TRUNCATED"
    [] answer.finish = "content_filter" -> "CONTENT_FILTERED"
    [] answer.finish = "stop" /\ answer.blank -> "EMPTY_RESPONSE"
    [] OTHER -> "COMPLETED"

(* Bug: an empty answer is asked for again, and the round not counted *)
Answer_BlankAskedAgain(answer) ==
  /\ pc = "request"
  /\ answer.calls = <<>>
  /\ IF FinalStatus(answer) = "EMPTY_RESPONSE"
     THEN pc' = "prepare" /\ UNCHANGED <<messages, rounds, status>>
     ELSE /\ rounds' = rounds + 1
          /\ messages' = Append(messages, Assistant(<<>>))
          /\ Stop(FinalStatus(answer))
  /\ UNCHANGED <<turn, results, counters, runHistory>>

Answer(answer) ==
  /\ pc = "request"
  /\ answer.calls = <<>>
  /\ rounds' = rounds + 1
  /\ messages' = Append(messages, Assistant(<<>>))
  /\ Stop(FinalStatus(answer))
  /\ UNCHANGED <<turn, results, counters, runHistory>>

(* Bug: the refused message is already in the history *)
RefuseIds_Appended(answer) ==
  /\ pc = "request"
  /\ ~DistinctIds(Ids(answer.calls))
  /\ rounds' = rounds + 1
  /\ messages' = Append(messages, Assistant(Ids(answer.calls)))
  /\ Stop("PROVIDER_PROTOCOL_ERROR")
  /\ UNCHANGED <<turn, results, counters, runHistory>>

(* iter_results refuses ids that are not unique before executing anything *)
RefuseIds(answer) ==
  /\ pc = "request"
  /\ ~DistinctIds(Ids(answer.calls))
  /\ rounds' = rounds + 1
  /\ Stop("PROVIDER_PROTOCOL_ERROR")
  /\ UNCHANGED <<messages, turn, results, counters, runHistory>>

(* Bug: the limit is crossed by one *)
OverCallBudget_OffByOne(calls) == toolCalls + Len(calls) > MaxToolCalls + 1

OverCallBudget(calls) == toolCalls + Len(calls) > MaxToolCalls

(* Over budget, none of the round's calls is executed *)
AskForTools(answer) ==
  /\ pc = "request"
  /\ answer.calls # <<>>
  /\ DistinctIds(Ids(answer.calls))
  /\ rounds' = rounds + 1
  /\ turn' = answer
  /\ IF OverCallBudget(answer.calls)
       THEN results' = Every(answer.calls, "limit") /\ pc' = "commit"
       ELSE results' = <<>> /\ pc' = "execute"
  /\ UNCHANGED <<messages, counters, status, runHistory>>

-----------------------------------------------------------------------------
(* Bug: one pending call too few is marked as skipped after an abort *)
ExecuteCall_SkipsTooFew(reply) ==
  /\ pc = "execute"
  /\ started' = started + 1
  /\ LET done == Append(results, reply)
         rest == [k \in 1..Len(turn.calls) - Len(done) - 1 |-> "skipped"]
     IN  results' = IF reply = "aborted" THEN done \o rest ELSE done
  /\ pc' = IF Len(results') = Len(turn.calls) THEN "commit" ELSE "execute"
  /\ UNCHANGED <<messages, turn, rounds, counters, status, before, task, outcomes>>

(* next(result_iterator); a Ctrl-C there is caught, and so is one in the tool *)
ExecuteCall(reply) ==
  /\ pc = "execute"
  /\ started' = started + 1
  /\ LET done == Append(results, reply)
         rest == [k \in 1..Len(turn.calls) - Len(done) |-> "skipped"]
     IN  results' = IF reply = "aborted" THEN done \o rest ELSE done
  /\ pc' = IF Len(results') = Len(turn.calls) THEN "commit" ELSE "execute"
  /\ UNCHANGED <<messages, turn, rounds, counters, status, before, task, outcomes>>

Pair(k) == <<turn.calls[k].asks, results[k]>>

(* The counters after the first k results of the round *)
FailuresAfter[k \in Nat] ==
  IF k = 0 THEN failures ELSE IF results[k] = "ok" THEN 0 ELSE FailuresAfter[k - 1] + 1

(* Bug: each round starts counting anew *)
PreviousAfter_PerRound(k) == IF k = 0 THEN <<>> ELSE Pair(k)

PreviousAfter(k) == IF k = 0 THEN previous ELSE Pair(k)

RepeatedAfter[k \in Nat] ==
  IF k = 0 THEN repeated
  ELSE IF Pair(k) = PreviousAfter(k - 1) THEN RepeatedAfter[k - 1] + 1 ELSE 1

LimitReached(after, limit) == \E k \in DOMAIN results : after[k] >= limit

Has(reply) == \E k \in DOMAIN results : results[k] = reply

Verdict ==
  IF Has("limit") THEN "TOOL_CALL_LIMIT"
  ELSE IF Has("aborted") THEN "USER_ABORTED"
  ELSE IF LimitReached(RepeatedAfter, MaxRepeats) THEN "REPEATED_CALL"
  ELSE IF LimitReached(FailuresAfter, MaxFailures) THEN "CONSECUTIVE_TOOL_FAILURES"
  ELSE "continue"

(* Bug: calls that were not executed get no message *)
ToolMessages_OfExecuted ==
  [k \in 1..started - toolCalls |-> ToolMessage(turn.calls[k].id)]

(* One message for each call, under its id and in the order of the calls *)
ToolMessages == [k \in DOMAIN turn.calls |-> ToolMessage(turn.calls[k].id)]

(* messages.extend, then the counters, result by result, and the verdict *)
Commit ==
  /\ pc = "commit"
  /\ messages' = messages \o <<Assistant(Ids(turn.calls))>>
                   \o ToolMessages
  /\ toolCalls' = toolCalls + Len(turn.calls)
  /\ failures' = FailuresAfter[Len(results)]
  /\ previous' = PreviousAfter(Len(results))
  /\ repeated' = RepeatedAfter[Len(results)]
  /\ outcomes' = outcomes \o [k \in DOMAIN results |-> Pair(k)]
  /\ IF Verdict = "continue" THEN pc' = "prepare" /\ UNCHANGED status ELSE Stop(Verdict)
  /\ turn' = NoTurn /\ results' = <<>>
  /\ UNCHANGED <<rounds, before, task, started>>

-----------------------------------------------------------------------------
(* A KeyboardInterrupt in code of run() outside its two handlers: the prompt *)
(* catches it, and whatever had not reached the history is gone              *)
Escape ==
  /\ pc # "ready"
  /\ Leave
  /\ UNCHANGED messages

(* /compact with a usable summary; otherwise the history is left alone *)
Compact(size) ==
  /\ pc = "ready"
  /\ Len(messages) > 1
  /\ messages' = <<messages[1], User(size)>>
  /\ UNCHANGED <<pc, turn, results, rounds, counters, status, runHistory>>

(* /new *)
Reset ==
  /\ pc = "ready"
  /\ messages' = <<System>>
  /\ UNCHANGED <<pc, turn, results, rounds, counters, status, runHistory>>

-----------------------------------------------------------------------------
LoopInit ==
  /\ messages = <<System>> /\ pc = "ready"
  /\ turn = NoTurn /\ results = <<>> /\ rounds = 0
  /\ toolCalls = 0 /\ failures = 0 /\ previous = <<>> /\ repeated = 0
  /\ status = "" /\ before = <<>> /\ task = User(0) /\ started = 0 /\ outcomes = <<>>

(* The steps of a run once it is asked for *)
RunStep ==
  \/ RoundLimit \/ Prepare \/ ContextLimit
  \/ RequestFails
  \/ \E answer \in Turns : Answer(answer) \/ RefuseIds(answer) \/ AskForTools(answer)
  \/ \E reply \in Executed : ExecuteCall(reply)
  \/ Commit \/ Return

LoopNext ==
  \/ \E size \in Tasks : StartRun(size)
  \/ RunStep
  \/ Escape
  \/ \E size \in Summaries : Compact(size)
  \/ Reset

LoopSpec == LoopInit /\ [][LoopNext]_loopVars /\ WF_loopVars(RunStep)

-----------------------------------------------------------------------------
LoopTypeOK ==
  /\ messages \in Seq(Message)
  /\ pc \in {"ready", "prepare", "request", "execute", "commit", "result"}
  /\ turn \in Turns
  /\ results \in Seq(Replies)
  /\ rounds \in 0..MaxRounds
  /\ toolCalls \in Nat /\ failures \in Nat /\ repeated \in Nat
  /\ previous \in (Asks \X Replies) \cup {<<>>}
  /\ before \in Seq(Message) /\ task \in [role : {"user"}, size : Nat]
  /\ started \in Nat /\ outcomes \in Seq(Asks \X Replies)

(* The history can be replayed to the provider at every moment, wherever a  *)
(* run stopped or was cut short: every tool call in it has its result.      *)
HistoryReplayable == messages = <<System>> \/ Replayable(messages)

(* What a request sends is within budget, and its newest user message is    *)
(* the task the user has just typed, however much was trimmed.              *)
RequestCarriesTask ==
  pc = "request" => Fits(messages) /\ messages[CurrentUser(messages)] = task

(* No tool is begun once the calls asked for in this run exceed the limit,  *)
(* and every answered call is counted.                                      *)
ToolBudget ==
  /\ started <= MaxToolCalls
  /\ pc \in {"prepare", "request"} => toolCalls = started

(* Each call of a round gets exactly one reply; the replies that say a call *)
(* was not executed are those of the calls never begun, and they come after *)
(* the one that was aborted.                                                *)
RepliesAreHonest ==
  pc = "commit" =>
    LET ran == {k \in DOMAIN results : results[k] \in Executed} IN
    /\ Len(results) = Len(turn.calls)
    /\ ran = 1..(started - toolCalls)
    /\ \A k \in ran : results[k] = "aborted" => k = started - toolCalls
    /\ ran # {} /\ ran # DOMAIN results => results[started - toolCalls] = "aborted"

AllFailed(pairs) == \A k \in DOMAIN pairs : pairs[k][2] # "ok"
AllEqual(pairs) == \A j, k \in DOMAIN pairs : pairs[j] = pairs[k]

HasWindow(size, Holds(_)) ==
  \E k \in 1..Len(outcomes) - size + 1 : Holds(SubSeq(outcomes, k, k + size - 1))

(* A run never asks the model again after MaxFailures results in a row were *)
(* failures, or MaxRepeats in a row were one call with one result, also     *)
(* across rounds; and it never stops for that reason without one.           *)
LoopsAreBroken ==
  /\ pc \in {"prepare", "request", "execute"} =>
       ~HasWindow(MaxFailures, AllFailed) /\ ~HasWindow(MaxRepeats, AllEqual)
  /\ status = "CONSECUTIVE_TOOL_FAILURES" => HasWindow(MaxFailures, AllFailed)
  /\ status = "REPEATED_CALL" => HasWindow(MaxRepeats, AllEqual)

(* A task refused before its first request leaves no trace in the history,  *)
(* so that session.run may queue its event again.                           *)
RefusalLeavesNoTrace ==
  status = "CONTEXT_LIMIT" /\ rounds = 0 => messages = before

(* The session is never wedged: whatever was run, aborted or compacted      *)
(* before, a short enough next task gets as far as its request.             *)
NeverWedged ==
  pc = "ready" => \A size \in 1..InputBudget : ~Unpreparable(Append(messages, User(size)))

(* Every run ends, provided requests and tools return.                      *)
RunsEnd == (pc # "ready") ~> (pc = "ready")
=============================================================================
