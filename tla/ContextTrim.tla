----------------------------- MODULE ContextTrim -----------------------------
(***************************************************************************)
(* ContextManager.prepare of code_operator/context.py as the code computes *)
(* it: parse the list into turns of groups, pop whole turns from the front *)
(* while over budget, then pop groups from behind the current turn's user  *)
(* message.  Checked against the closed definitions of ContextManager,     *)
(* which the other modules use.                                            *)
(***************************************************************************)
EXTENDS ContextManager, SequencesExt

CONSTANT Inputs    \* the message lists prepare is called with

ASSUME InputsAssumption == Inputs \subseteq Seq(Message)

VARIABLES
  input,    \* messages
  index,    \* the next message to parse
  kept,     \* kept_turns: turns, each a sequence of groups of messages
  trimAt    \* "head", "parse", "turns", "groups", "done", "error" or "off"

trimVars == <<input, index, kept, trimAt>>

(* _flatten *)
Flatten(turns) == <<input[1]>> \o FlattenSeq(FlattenSeq(turns))

OverBudget == ~Fits(Flatten(kept))

NextIs(role) == IsRole(input, index, role)

-----------------------------------------------------------------------------
(* _parse_complete_turns *)

ParseHead ==
  /\ trimAt = "head"
  /\ trimAt' = IF IsRole(input, 1, "system") /\ IsRole(input, 2, "user") THEN "parse" ELSE "error"
  /\ index' = 2
  /\ UNCHANGED <<input, kept>>

OpenTurn ==
  /\ trimAt = "parse"
  /\ NextIs("user")
  /\ kept' = Append(kept, << <<input[index]>> >>)
  /\ index' = index + 1
  /\ UNCHANGED <<input, trimAt>>

(* The tool messages right behind the assistant message at index *)
Answers ==
  LET isRun(n) == \A k \in 1..n : IsRole(input, index + k, "tool")
      length == CHOOSE n \in 0..Len(input) : isRun(n) /\ ~isRun(n + 1)
  IN  SubSeq(input, index + 1, index + length)

(* _parse_assistant_group *)
ParseGroup ==
  /\ trimAt = "parse"
  /\ NextIs("assistant")
  /\ IsInjective(input[index].calls)
  /\ [k \in DOMAIN Answers |-> Answers[k].id] = input[index].calls
  /\ kept' = [kept EXCEPT ![Len(kept)] = Append(@, <<input[index]>> \o Answers)]
  /\ index' = index + 1 + Len(Answers)
  /\ UNCHANGED <<input, trimAt>>

RefuseMessage ==
  /\ trimAt = "parse"
  /\ \/ NextIs("system") \/ NextIs("tool")
     \/ /\ NextIs("assistant")
        /\ \/ ~IsInjective(input[index].calls)
           \/ [k \in DOMAIN Answers |-> Answers[k].id] # input[index].calls
  /\ trimAt' = "error"
  /\ UNCHANGED <<input, index, kept>>

Parsed ==
  /\ trimAt = "parse"
  /\ index > Len(input)
  /\ trimAt' = "turns"
  /\ UNCHANGED <<input, index, kept>>

-----------------------------------------------------------------------------
(* prepare *)

(* Bug: the newest turn goes first *)
DropTurn_Newest ==
  /\ trimAt = "turns"
  /\ OverBudget /\ Len(kept) > 1
  /\ kept' = Front(kept)
  /\ UNCHANGED <<input, index, trimAt>>

DropTurn ==
  /\ trimAt = "turns"
  /\ OverBudget /\ Len(kept) > 1
  /\ kept' = Tail(kept)
  /\ UNCHANGED <<input, index, trimAt>>

(* Bug: the loop does not stop at the current turn *)
TurnsDropped_OnlyWhenFits ==
  /\ trimAt = "turns"
  /\ ~OverBudget
  /\ trimAt' = "groups"
  /\ UNCHANGED <<input, index, kept>>

TurnsDropped ==
  /\ trimAt = "turns"
  /\ ~OverBudget \/ Len(kept) <= 1
  /\ trimAt' = "groups"
  /\ UNCHANGED <<input, index, kept>>

(* Bug: the newest group goes first *)
DropGroup_Newest ==
  /\ trimAt = "groups"
  /\ OverBudget /\ Len(kept[1]) > 2
  /\ kept' = [kept EXCEPT ![1] = Front(@)]
  /\ UNCHANGED <<input, index, trimAt>>

DropGroup ==
  /\ trimAt = "groups"
  /\ OverBudget /\ Len(kept[1]) > 2
  /\ kept' = [kept EXCEPT ![1] = RemoveAt(@, 2)]
  /\ UNCHANGED <<input, index, trimAt>>

GroupsDropped ==
  /\ trimAt = "groups"
  /\ ~OverBudget \/ Len(kept[1]) <= 2
  /\ trimAt' = IF OverBudget THEN "error" ELSE "done"
  /\ UNCHANGED <<input, index, kept>>

-----------------------------------------------------------------------------
TrimIs(where, messages) ==
  /\ input = messages
  /\ index = 1
  /\ kept = <<>>
  /\ trimAt = where

TrimInit == \E messages \in Inputs : TrimIs("head", messages)

TrimNext ==
  \/ ParseHead \/ OpenTurn \/ ParseGroup \/ RefuseMessage \/ Parsed
  \/ DropTurn \/ TurnsDropped \/ DropGroup \/ GroupsDropped

TrimSpec == TrimInit /\ [][TrimNext]_trimVars

-----------------------------------------------------------------------------
(* When prepare returns, it returns what the closed definition says: the    *)
(* longest run of newest turns that fits or, when the current turn alone is *)
(* too much, that turn with as few of its oldest groups dropped as needed.  *)
(* It raises ContextLimitError only for lists that cannot be replayed, or   *)
(* whose current user message with its newest group is over the budget.     *)
PreparesAsDefined ==
  /\ trimAt = "done" => ~Unpreparable(input) /\ Flatten(kept) = Prepared(input)
  /\ trimAt = "error" => Unpreparable(input)

(* Whatever was dropped, what is sent can be replayed, is within budget,    *)
(* and holds the current task and everything since its newest assistant     *)
(* message: no call without its result, no result without its call.         *)
TrimKeepsThePoint ==
  trimAt = "done" =>
    LET sent == Flatten(kept)
        newest == IF GroupsAt(input) = {} THEN Len(input) + 1
                  ELSE CHOOSE i \in GroupsAt(input) : \A j \in GroupsAt(input) : j <= i
    IN  /\ Replayable(sent)
        /\ Fits(sent)
        /\ sent[CurrentUser(sent)] = input[CurrentUser(input)]
        /\ IsSuffix(SubSeq(input, newest, Len(input)), sent)

TrimOver == trimAt \in {"done", "error", "off"}
=============================================================================
