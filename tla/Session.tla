------------------------------- MODULE Session -------------------------------
(***************************************************************************)
(* AgentSession (code_operator/session.py) under the interactive prompt of *)
(* code_operator/__main__.py: tasks, /undo, /compact, /new and /exit, the  *)
(* queue of undo events that the next tasks carry to the model, what a     *)
(* Ctrl-C does in each of them, and the mark of an incomplete token total. *)
(*                                                                         *)
(* The conversation is abstracted to whether it is empty, AgentLoop has    *)
(* its detail.  A hash of the read state, or the hash before a change that *)
(* an undo record keeps, is abstracted to whether there is one and to      *)
(* which conversation it was shown in; FileTools has the contents.         *)
(***************************************************************************)
EXTENDS Integers, Sequences

CONSTANTS
  Paths,       \* files that direct modifications are made to
  None,        \* no path
  MaxDepth,    \* bound: undo records
  MaxPending   \* bound: undo events waiting

ASSUME SessionAssumption ==
  None \notin Paths /\ MaxDepth \in Nat /\ MaxPending \in Nat

VARIABLES
  at,          \* where _run_interactive stands, "input" at its prompt
  session,     \* "none", "open" or "closed"
  stack,       \* undo records: the path, and the read its change rested on
  pending,     \* _pending_events
  event,       \* pending_path of a running task, or the path just undone
  talked,      \* the conversation has messages besides the system prompt
  reads,       \* _complete_read_hashes, by path: "none", "present" when what was
               \* hashed is in the present conversation, "replaced" when it was
               \* in one that has been replaced or dropped since
  incomplete,  \* usage_incomplete
  warned,      \* the loss of the undo records has been announced
  untold,      \* history: undone paths the conversation does not know of
  undone,      \* history: paths whose entry in reads an undo has put there
  torn,        \* history: a Ctrl-C came between the replacement of the
               \* conversation and the reset of the read state
  cut          \* history: a Ctrl-C ended a task, an undo or a compaction

sessionVars == <<at, session, stack, pending, event, talked, reads,
                 incomplete, warned, untold, undone, torn, cut>>

events == <<pending, event, untold>>
readState == <<reads, undone, torn>>

Provenance == {"none", "present", "replaced"}

UndoRecord == [path : Paths, before : Provenance]

(* Back at the prompt *)
Prompt == at' = "input" /\ event' = None

-----------------------------------------------------------------------------
(* A task.  The session is created with the first, which may fail *)

TypeTask ==
  /\ at = "input"
  /\ session' = "open"
  /\ at' = "task"
  /\ UNCHANGED <<stack, talked, readState, events, incomplete, warned, cut>>

CreationFails ==
  /\ at = "input"
  /\ session = "none"
  /\ at' = "failing"
  /\ UNCHANGED <<session, stack, talked, readState, events, incomplete, warned, cut>>

(* run: the oldest event goes with the task *)
TakeEvent ==
  /\ at = "task"
  /\ event' = IF pending = <<>> THEN None ELSE Head(pending)
  /\ pending' = IF pending = <<>> THEN pending ELSE Tail(pending)
  /\ at' = "taken"
  /\ UNCHANGED <<session, stack, talked, readState, untold, incomplete, warned, cut>>

(* AgentLoop.run puts the task, with its event, into the conversation *)
Ask ==
  /\ at = "taken"
  /\ untold' = IF event # None /\ event = Head(untold) THEN Tail(untold) ELSE untold
  /\ at' = "asked"
  /\ UNCHANGED <<session, stack, talked, readState, pending, event, incomplete, warned, cut>>

(* What the conversation read whole, or wrote, it has seen *)
NoteHash(path) ==
  /\ reads' = [reads EXCEPT ![path] = "present"]
  /\ undone' = undone \ {path}
  /\ UNCHANGED torn

(* The limits of the journal may cost the oldest records *)
RecordChange(path, before) ==
  \E evicted \in 0..Len(stack) :
    /\ Len(stack) - evicted < MaxDepth
    /\ stack' = Append(SubSeq(stack, evicted + 1, Len(stack)), [path |-> path, before |-> before])

(* The tools of the task.  read_file reads a file whole; write_file creates a *)
(* file, or overwrites one with a hash; edit_file needs a hash, and what it   *)
(* leaves was seen as much as what it found.  A change to the same content    *)
(* has no record                                                              *)
Work ==
  /\ at = "asked"
  /\ \E path \in Paths :
       \/ NoteHash(path) /\ UNCHANGED stack
       \/ NoteHash(path) /\ (RecordChange(path, "none") \/ RecordChange(path, reads[path]))
       \/ reads[path] # "none" /\ RecordChange(path, reads[path]) /\ UNCHANGED readState
  /\ UNCHANGED <<at, session, talked, events, incomplete, warned, cut>>

(* CONTEXT_LIMIT before a request: the task is taken out of the conversation *)
Refuse ==
  /\ at = "asked"
  /\ untold' = IF event = None THEN untold ELSE <<event>> \o untold
  /\ at' = "refused"
  /\ UNCHANGED <<session, stack, talked, readState, pending, event, incomplete, warned, cut>>

(* Bug: the event goes to the end of the queue *)
Requeue_Last ==
  /\ at = "refused"
  /\ pending' = IF event = None THEN pending ELSE Append(pending, event)
  /\ incomplete' = TRUE
  /\ Prompt
  /\ UNCHANGED <<session, stack, talked, readState, untold, warned, cut>>

Requeue ==
  /\ at = "refused"
  /\ pending' = IF event = None THEN pending ELSE <<event>> \o pending
  /\ incomplete' = TRUE
  /\ Prompt
  /\ UNCHANGED <<session, stack, talked, readState, untold, warned, cut>>

(* The run's tokens are added when every answer reported them *)
Finish ==
  /\ at = "asked"
  /\ talked' = TRUE
  /\ \/ UNCHANGED incomplete
     \/ incomplete' = TRUE
  /\ Prompt
  /\ UNCHANGED <<session, stack, readState, pending, untold, warned, cut>>

-----------------------------------------------------------------------------
(* /undo *)

TypeUndo ==
  /\ at = "input"
  /\ session = "open"
  /\ at' = "undo"
  /\ UNCHANGED <<session, stack, talked, readState, events, incomplete, warned, cut>>

UndoRefused ==
  /\ at = "undo"
  /\ Prompt
  /\ UNCHANGED <<session, stack, talked, readState, pending, untold, incomplete, warned, cut>>

(* undo_last_change restores the file, puts the hash from before the change *)
(* back (or takes it away with a file the change had created) and discards  *)
(* the record                                                               *)
RestoreFile ==
  /\ at = "undo"
  /\ stack # <<>>
  /\ Len(untold) < MaxPending
  /\ LET record == stack[Len(stack)] IN
       /\ reads' = [reads EXCEPT ![record.path] = record.before]
       /\ undone' = undone \cup {record.path}
       /\ event' = record.path
       /\ untold' = Append(untold, record.path)
  /\ stack' = SubSeq(stack, 1, Len(stack) - 1)
  /\ at' = "restored"
  /\ UNCHANGED <<session, talked, pending, incomplete, warned, torn, cut>>

QueueEvent ==
  /\ at = "restored"
  /\ pending' = Append(pending, event)
  /\ Prompt
  /\ UNCHANGED <<session, stack, talked, readState, untold, incomplete, warned, cut>>

-----------------------------------------------------------------------------
(* /compact *)

TypeCompact ==
  /\ at = "input"
  /\ session = "open"
  /\ at' = "compact"
  /\ UNCHANGED <<session, stack, talked, readState, events, incomplete, warned, cut>>

(* Nothing to compact, a provider error, or an answer without a summary, *)
(* whose tokens nobody adds or marks as missing                          *)
CompactFails ==
  /\ at = "compact"
  /\ Prompt
  /\ UNCHANGED <<session, stack, talked, readState, pending, untold, incomplete, warned, cut>>

(* What was seen in the conversation is not in the one with its summary *)
Outdated(provenance) == IF provenance = "present" THEN "replaced" ELSE provenance

ReplaceHistory ==
  /\ at = "compact"
  /\ talked
  /\ reads' = [path \in Paths |-> Outdated(reads[path])]
  /\ stack' = [k \in DOMAIN stack |-> [stack[k] EXCEPT !.before = Outdated(@)]]
  /\ at' = "replaced"
  /\ UNCHANGED <<session, talked, events, incomplete, warned, undone, torn, cut>>

(* Bug: the read state outlives the conversation *)
ResetReadState_Forgotten ==
  /\ at = "replaced"
  /\ \/ UNCHANGED incomplete
     \/ incomplete' = TRUE
  /\ Prompt
  /\ UNCHANGED <<session, stack, talked, readState, pending, untold, warned, cut>>

ForgetReads == reads' = [path \in Paths |-> "none"] /\ undone' = {} /\ torn' = FALSE

ResetReadState ==
  /\ at = "replaced"
  /\ ForgetReads
  /\ \/ UNCHANGED incomplete
     \/ incomplete' = TRUE
  /\ Prompt
  /\ UNCHANGED <<session, stack, talked, pending, untold, warned, cut>>

-----------------------------------------------------------------------------
(* /new and /exit ask first when there are undo records *)

TypeNew ==
  /\ at = "input"
  /\ session = "open"
  /\ IF stack = <<>> THEN at' = "reset" /\ UNCHANGED warned
                     ELSE at' = "confirm new" /\ warned' = TRUE
  /\ UNCHANGED <<session, stack, talked, readState, events, incomplete, cut>>

ConfirmNew ==
  /\ at = "confirm new"
  /\ at' = "reset"
  /\ UNCHANGED <<session, stack, talked, readState, events, incomplete, warned, cut>>

(* session.reset; a Ctrl-C in it ends the program *)
Reset ==
  /\ at = "reset"
  /\ talked' = FALSE /\ stack' = <<>>
  /\ ForgetReads
  /\ pending' = <<>> /\ untold' = <<>>
  /\ incomplete' = FALSE
  /\ warned' = FALSE /\ cut' = FALSE
  /\ Prompt
  /\ UNCHANGED session

TypeExit ==
  /\ at = "input"
  /\ IF stack = <<>> THEN at' = "leaving" /\ UNCHANGED warned
                     ELSE at' = "confirm exit" /\ warned' = TRUE
  /\ UNCHANGED <<session, stack, talked, readState, events, incomplete, cut>>

ConfirmExit ==
  /\ at = "confirm exit"
  /\ at' = "leaving"
  /\ UNCHANGED <<session, stack, talked, readState, events, incomplete, warned, cut>>

(* No, Ctrl-C, or, for /new, the end of the input *)
Decline ==
  /\ at \in {"confirm new", "confirm exit"}
  /\ Prompt
  /\ warned' = FALSE
  /\ UNCHANGED <<session, stack, talked, readState, pending, untold, incomplete, cut>>

(* Bug: the end of the input loses the undo records without a word *)
EndOfInput_Silent ==
  /\ at = "input"
  /\ warned' = FALSE
  /\ at' = "leaving"
  /\ UNCHANGED <<session, stack, talked, readState, events, incomplete, cut>>

EndOfInput ==
  /\ at = "input"
  /\ warned' = (stack # <<>>)
  /\ at' = "leaving"
  /\ UNCHANGED <<session, stack, talked, readState, events, incomplete, cut>>

Close ==
  /\ at \in {"leaving", "failing"}
  /\ session' = IF session = "open" THEN "closed" ELSE session
  /\ at' = "ended"
  /\ UNCHANGED <<stack, talked, readState, events, incomplete, warned, cut>>

-----------------------------------------------------------------------------
(* The KeyboardInterrupt handlers around run, undo and compact *)

InterruptTask ==
  /\ at \in {"task", "taken", "asked", "refused"}
  /\ talked' = (talked \/ at = "asked")
  /\ incomplete' = TRUE
  /\ cut' = TRUE
  /\ Prompt
  /\ UNCHANGED <<session, stack, readState, pending, untold, warned>>

InterruptCommand ==
  /\ at \in {"undo", "restored", "compact", "replaced"}
  /\ cut' = TRUE
  /\ torn' = (torn \/ at = "replaced")
  /\ Prompt
  /\ UNCHANGED <<session, stack, talked, reads, undone, pending, untold, incomplete, warned>>

(* An exception, or a Ctrl-C outside those handlers: straight to the finally *)
BreakOut ==
  /\ at \notin {"leaving", "failing", "ended"}
  /\ at' = "failing"
  /\ UNCHANGED <<session, stack, talked, readState, events, incomplete, warned, cut>>

-----------------------------------------------------------------------------
SessionInit ==
  /\ at = "input" /\ session = "none"
  /\ stack = <<>> /\ pending = <<>> /\ event = None
  /\ talked = FALSE /\ reads = [path \in Paths |-> "none"]
  /\ incomplete = FALSE /\ warned = FALSE
  /\ untold = <<>> /\ undone = {} /\ torn = FALSE /\ cut = FALSE

Command ==
  \/ TypeTask \/ TypeUndo \/ TypeCompact \/ TypeNew \/ TypeExit \/ EndOfInput

Progress ==
  \/ CreationFails \/ TakeEvent \/ Ask \/ Work \/ Refuse \/ Requeue \/ Finish
  \/ UndoRefused \/ RestoreFile \/ QueueEvent
  \/ CompactFails \/ ReplaceHistory \/ ResetReadState
  \/ ConfirmNew \/ Reset \/ ConfirmExit \/ Decline \/ Close

SessionNext == Command \/ Progress \/ InterruptTask \/ InterruptCommand \/ BreakOut

SessionSpec == SessionInit /\ [][SessionNext]_sessionVars

-----------------------------------------------------------------------------
SessionTypeOK ==
  /\ at \in {"input", "task", "taken", "asked", "refused", "undo", "restored", "compact",
             "replaced", "reset", "confirm new", "confirm exit", "leaving", "failing", "ended"}
  /\ session \in {"none", "open", "closed"}
  /\ stack \in Seq(UndoRecord) /\ pending \in Seq(Paths) /\ untold \in Seq(Paths)
  /\ event \in Paths \cup {None}
  /\ reads \in [Paths -> Provenance] /\ undone \in SUBSET Paths /\ torn \in BOOLEAN
  /\ talked \in BOOLEAN /\ incomplete \in BOOLEAN /\ warned \in BOOLEAN /\ cut \in BOOLEAN

(* Between commands the queue holds exactly the undos the conversation has  *)
(* not been told of, oldest first: each goes out once, also when a task is  *)
(* refused and typed again.  A Ctrl-C may lose some, but never repeats or   *)
(* reorders them.                                                           *)
EventsMatchUndos ==
  at = "input" =>
    /\ ~cut => pending = untold
    /\ \E place \in [DOMAIN pending -> DOMAIN untold] :
         /\ \A k \in DOMAIN pending : untold[place[k]] = pending[k]
         /\ \A j, k \in DOMAIN pending : j < k => place[j] < place[k]

(* A conversation that is compacted or dropped takes the read state with    *)
(* it: when a command is typed, and while the tools of a task work, no file  *)
(* may be overwritten on the strength of a read that only an earlier         *)
(* conversation showed.  Two exceptions: an undo puts back the hash its      *)
(* change rested on, also one of an earlier conversation, and that lasts     *)
(* until the file is read or written again (the run `shown' makes a finding  *)
(* of it); and a Ctrl-C between the replacement and the reset.               *)
ReadsBelongToConversation ==
  at \in {"input", "asked"} =>
    \A path \in Paths : reads[path] = "replaced" => path \in undone \/ torn

(* Undo records are given up, by /new, /exit or the end of the input, only  *)
(* after the user was told so.                                              *)
LossIsAnnounced ==
  [][(stack # <<>> /\ (at' = "leaving" \/ (at = "reset" /\ stack' = <<>>)))
       => (warned \/ warned')]_sessionVars
=============================================================================
