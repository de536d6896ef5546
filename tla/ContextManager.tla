---------------------------- MODULE ContextManager ----------------------------
(***************************************************************************)
(* The conversation history and what code_operator/context.py does to it:  *)
(* which message lists can be replayed to the provider, and what prepare   *)
(* leaves of one that is over the input budget.  ContextTrim checks these  *)
(* definitions against the loops of the code.                              *)
(*                                                                         *)
(* A user message keeps only its size, an assistant message the ids of its *)
(* tool calls, a tool message the id it answers.                           *)
(***************************************************************************)
EXTENDS Integers, Sequences

CONSTANTS
  CallIds,       \* tool call ids a provider may use
  InputBudget    \* input_budget less the system prompt and tool schemas, in
                 \* units of message size

ASSUME BudgetAssumption == InputBudget \in Nat

System == [role |-> "system"]
User(size) == [role |-> "user", size |-> size]
Assistant(calls) == [role |-> "assistant", calls |-> calls]
ToolMessage(id) == [role |-> "tool", id |-> id]

Message ==
  {System} \cup [role : {"user"}, size : Nat]
    \cup [role : {"assistant"}, calls : Seq(CallIds)]
    \cup [role : {"tool"}, id : CallIds]

Weight(message) ==
  CASE message.role = "system" -> 0
    [] message.role = "user" -> message.size
    [] OTHER -> 1

(* estimate_tokens *)
Estimate(messages) ==
  LET sum[n \in 0..Len(messages)] ==
        IF n = 0 THEN 0 ELSE sum[n - 1] + Weight(messages[n])
  IN  sum[Len(messages)]

Fits(messages) == Estimate(messages) <= InputBudget

IsRole(messages, i, role) == i \in DOMAIN messages /\ messages[i].role = role

DistinctIds(ids) == \A i, j \in DOMAIN ids : ids[i] = ids[j] => i = j

(* An assistant message at i and the results of its calls, complete and in order *)
GroupAt(messages, i) ==
  LET calls == messages[i].calls IN
  /\ DistinctIds(calls)
  /\ \A k \in DOMAIN calls :
       IsRole(messages, i + k, "tool") /\ messages[i + k].id = calls[k]
  /\ ~IsRole(messages, i + Len(calls) + 1, "tool")

(* _parse_complete_turns: system, user, then turns of complete groups *)
Replayable(messages) ==
  /\ IsRole(messages, 1, "system")
  /\ IsRole(messages, 2, "user")
  /\ \A i \in 2..Len(messages) :
       \/ IsRole(messages, i, "user")
       \/ IsRole(messages, i, "assistant") /\ GroupAt(messages, i)
       \/ IsRole(messages, i, "tool") /\ messages[i - 1].role \in {"assistant", "tool"}

-----------------------------------------------------------------------------
UserAt(messages) == {i \in DOMAIN messages : messages[i].role = "user"}

CurrentUser(messages) ==
  CHOOSE i \in UserAt(messages) : \A j \in UserAt(messages) : j <= i

GroupsAt(messages) ==
  {i \in DOMAIN messages : i > CurrentUser(messages) /\ messages[i].role = "assistant"}

FromTurn(messages, i) == <<messages[1]>> \o SubSeq(messages, i, Len(messages))

(* Bug: the conversation's first task is kept instead of the current one *)
FromGroup_FirstTask(messages, i) ==
  <<messages[1], messages[2]>> \o SubSeq(messages, i, Len(messages))

FromGroup(messages, i) ==
  <<messages[1], messages[CurrentUser(messages)]>> \o SubSeq(messages, i, Len(messages))

(* What may be sent, least trimmed first: all but some of the oldest turns, *)
(* then the current turn without some of its oldest groups but the newest   *)
TurnCuts(messages) == {i \in UserAt(messages) : Fits(FromTurn(messages, i))}
GroupCuts(messages) == {i \in GroupsAt(messages) : Fits(FromGroup(messages, i))}

First(indices) == CHOOSE i \in indices : \A j \in indices : i <= j

(* ContextLimitError: not replayable, or the least that must be kept is too much *)
Unpreparable(messages) ==
  \/ ~Replayable(messages)
  \/ TurnCuts(messages) = {} /\ GroupCuts(messages) = {}

(* prepare, when it raises no ContextLimitError *)
Prepared(messages) ==
  IF TurnCuts(messages) # {}
    THEN FromTurn(messages, First(TurnCuts(messages)))
    ELSE FromGroup(messages, First(GroupCuts(messages)))
=============================================================================
