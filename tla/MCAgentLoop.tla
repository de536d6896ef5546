----------------------------- MODULE MCAgentLoop -----------------------------
(* AgentLoop on small instances *)
EXTENDS AgentLoop, SequencesExt

CONSTANT TurnSize    \* bound: tool calls in one model turn

MCTurnCalls == SeqOf([id : CallIds, asks : Asks], TurnSize)
=============================================================================
