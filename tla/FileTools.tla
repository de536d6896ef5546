------------------------------ MODULE FileTools ------------------------------
(***************************************************************************)
(* The stateful file tools of code_operator/tools/filesystem.py: read_file,*)
(* write_file, edit_file and undo_last_change over the files of a          *)
(* workspace, the table of hashes of completely read files, and the undo   *)
(* stack.  One call runs at a time, a statement at a time.  Between any    *)
(* two statements something outside the program (an editor, a process an   *)
(* approved command left behind) may change a file, the operating system   *)
(* may refuse an operation, and a Ctrl-C may end the call.                 *)
(*                                                                         *)
(* A content stands for its SHA-256.  Path resolution, diffs and messages  *)
(* are left out; a path that stops being an allowed regular file is        *)
(* NotFile.                                                                *)
(***************************************************************************)
EXTENDS ChangeJournal

CONSTANTS
  NotFile,     \* the path exists and is not a regular file
  NoHash,      \* the path has no entry in _complete_read_hashes
  Text,        \* contents that decode as UTF-8 within MAX_FILE_BYTES
  Showable,    \* texts read_file shows whole: no NUL, nothing truncated
  Opened       \* the content of a file just created and not written yet

ASSUME ContentAssumption ==
  /\ Showable \subseteq Text
  /\ Text \subseteq Contents
  /\ Opened \in Contents
ASSUME DistinctAssumption ==
  /\ NotFile \notin Contents \cup {Absent}
  /\ NoHash \notin Contents

VARIABLES
  disk,       \* what each path holds
  readHash,   \* _complete_read_hashes
  call,       \* the tool call or undo in progress
  known,      \* history: contents of a path that this session's reads
              \* digested or its writes and edits composed
  unlogged    \* history: the path was changed without an undo record

fileVars == <<disk, readHash, call, known, unlogged>>
vars == <<records, snapshotBytes, jpc, owed, tears, disk, readHash, call, known, unlogged>>

DiskStates == Contents \cup {Absent, NotFile}

Idle == [pc |-> "idle"]

(* before and after: for a write or an edit, the content checked and the one *)
(* to leave; for an undo, the before and after of its record.  kept: the     *)
(* undo's record is still on the stack.  raced: something outside changed    *)
(* the path since the call checked it.                                       *)
Call ==
  [tool : {"read", "write", "edit", "undo", "reconcile"},
   pc : {"checked", "created", "replaced", "hashed", "recording", "done"},
   path : Paths,
   before : Contents \cup {Absent},
   after : Contents,
   kept : BOOLEAN,
   raced : BOOLEAN]

Begin(tool, path, before, after) ==
  [tool |-> tool, pc |-> "checked", path |-> path, before |-> before,
   after |-> after, kept |-> tool = "undo", raced |-> FALSE]

Change == [path |-> call.path, before |-> call.before, after |-> call.after]

At(tools, pc) == call # Idle /\ call.tool \in tools /\ call.pc = pc

GoTo(pc) == call' = [call EXCEPT !.pc = pc]

Writing == {"write", "edit"}
Undoing == {"undo", "reconcile"}

JournalUnchanged == UNCHANGED journalVars

-----------------------------------------------------------------------------
(* read_file: a complete read authorises overwriting this very content *)

ReadWhole(path) ==
  /\ call = Idle
  /\ disk[path] \in Showable
  /\ readHash' = [readHash EXCEPT ![path] = disk[path]]
  /\ known' = [known EXCEPT ![path] = @ \cup {disk[path]}]
  /\ call' = [Begin("read", path, disk[path], disk[path]) EXCEPT !.pc = "done"]
  /\ UNCHANGED <<disk, unlogged>> /\ JournalUnchanged

-----------------------------------------------------------------------------
(* write_file and edit_file: check, change the file, note its hash, record *)

(* Bug: having read the file once is enough *)
Authorised_ReadOnce(path) == disk[path] \in Text /\ readHash[path] # NoHash

(* An existing file must hold text and be exactly what was read completely *)
Authorised(path) == disk[path] \in Text /\ readHash[path] = disk[path]

(* The content to leave is composed; the file is not changed yet *)
Compose(tool, path, content) ==
  /\ call = Idle
  /\ call' = Begin(tool, path, disk[path], content)
  /\ known' = [known EXCEPT ![path] = @ \cup {content}]
  /\ UNCHANGED <<disk, readHash, unlogged>> /\ JournalUnchanged

StartWrite(path, content) ==
  /\ Authorised(path) \/ disk[path] = Absent
  /\ Compose("write", path, content)

(* The registry has refused an old_text equal to the new_text *)
StartEdit(path, content) ==
  /\ Authorised(path)
  /\ content # disk[path]
  /\ Compose("edit", path, content)

(* os.replace of a finished temporary file over whatever file is there now *)
Overwrite ==
  /\ At(Writing, "checked")
  /\ call.before # Absent
  /\ disk[call.path] # NotFile
  /\ disk' = [disk EXCEPT ![call.path] = call.after]
  /\ GoTo("replaced")
  /\ UNCHANGED <<readHash, known, unlogged>> /\ JournalUnchanged

(* Bug: open(.., "w") *)
Create_Truncates ==
  /\ At({"write"}, "checked")
  /\ call.before = Absent
  /\ disk[call.path] # NotFile
  /\ disk' = [disk EXCEPT ![call.path] = Opened]
  /\ GoTo("created")
  /\ UNCHANGED <<readHash, known, unlogged>> /\ JournalUnchanged

(* open(.., "x") *)
Create ==
  /\ At({"write"}, "checked")
  /\ call.before = Absent
  /\ disk[call.path] = Absent
  /\ disk' = [disk EXCEPT ![call.path] = Opened]
  /\ GoTo("created")
  /\ UNCHANGED <<readHash, known, unlogged>> /\ JournalUnchanged

(* The text goes to the file opened, which an outside change may have replaced *)
FillCreated ==
  /\ At({"write"}, "created")
  /\ \/ call.raced /\ UNCHANGED disk
     \/ disk[call.path] \in Contents /\ disk' = [disk EXCEPT ![call.path] = call.after]
  /\ GoTo("replaced")
  /\ UNCHANGED <<readHash, known, unlogged>> /\ JournalUnchanged

(* FILE_EXISTS, WRITE_FAILED; a file created and not filled stays behind *)
ChangeFails ==
  /\ At(Writing, "checked") \/ At(Writing, "created")
  /\ unlogged' = [unlogged EXCEPT ![call.path] = @ \/ call.pc = "created"]
  /\ call' = Idle
  /\ UNCHANGED <<disk, readHash, known>> /\ JournalUnchanged

(* Bug: the hash of the content written is not noted *)
NoteHash_Forgotten ==
  /\ At(Writing, "replaced")
  /\ GoTo("hashed")
  /\ UNCHANGED <<disk, readHash, known, unlogged>> /\ JournalUnchanged

NoteHash ==
  /\ At(Writing, "replaced")
  /\ readHash' = [readHash EXCEPT ![call.path] = call.after]
  /\ GoTo("hashed")
  /\ UNCHANGED <<disk, known, unlogged>> /\ JournalUnchanged

(* Bug: only write_file records *)
RecordChange_NotEdits ==
  /\ At(Writing, "hashed")
  /\ \/ /\ call.before # call.after
        /\ call.tool = "write"
        /\ AppendChange(Change)
        /\ GoTo("recording")
     \/ /\ call.before = call.after \/ call.tool = "edit"
        /\ GoTo("done")
        /\ JournalUnchanged
  /\ UNCHANGED <<disk, readHash, known, unlogged>>

RecordChange ==
  /\ At(Writing, "hashed")
  /\ \/ /\ call.before # call.after
        /\ AppendChange(Change)
        /\ GoTo("recording")
     \/ call.before = call.after /\ GoTo("done") /\ JournalUnchanged
  /\ UNCHANGED <<disk, readHash, known, unlogged>>

(* journal.record counts and evicts; IndexError there fails the tool call *)
FinishRecording ==
  /\ At(Writing, "recording")
  /\ \/ (CountAppended \/ EvictOldest \/ CountEvicted) /\ UNCHANGED call
     \/ FinishRecord /\ GoTo("done")
     \/ EvictFromNothing /\ call' = Idle
  /\ UNCHANGED <<disk, readHash, known, unlogged>>

-----------------------------------------------------------------------------
(* undo_last_change: check, restore the file, then its hash, then the stack *)

StartUndo ==
  /\ call = Idle
  /\ records # <<>>
  /\ disk[Top.path] = Top.after
  /\ call' = Begin("undo", Top.path, Top.before, Top.after)
  /\ UNCHANGED <<disk, readHash, known, unlogged>> /\ JournalUnchanged

(* Unlink a file the tool had created, or replace it by what it held before *)
RestoreFile ==
  /\ At({"undo"}, "checked")
  /\ disk[call.path] # NotFile
  /\ call.before = Absent => disk[call.path] # Absent
  /\ disk' = [disk EXCEPT ![call.path] = call.before]
  /\ GoTo("replaced")
  /\ UNCHANGED <<readHash, known, unlogged>> /\ JournalUnchanged

(* UNDO_WRITE_FAILED: the record stays *)
UndoFails ==
  /\ At({"undo"}, "checked")
  /\ call' = Idle
  /\ UNCHANGED <<disk, readHash, known, unlogged>> /\ JournalUnchanged

(* Bug: the hash of the undone content is left in place *)
RestoreReadState_Forgotten ==
  /\ At(Undoing, "replaced")
  /\ GoTo("hashed")
  /\ UNCHANGED <<disk, readHash, known, unlogged>> /\ JournalUnchanged

(* Bug: a file that is gone again gets an entry *)
RestoreReadState_OfNone ==
  /\ At(Undoing, "replaced")
  /\ readHash' = [readHash EXCEPT ![call.path] = call.before]
  /\ GoTo("hashed")
  /\ UNCHANGED <<disk, known, unlogged>> /\ JournalUnchanged

RestoreReadState ==
  /\ At(Undoing, "replaced")
  /\ readHash' = [readHash EXCEPT
                    ![call.path] = IF call.before = Absent THEN NoHash ELSE call.before]
  /\ GoTo("hashed")
  /\ UNCHANGED <<disk, known, unlogged>> /\ JournalUnchanged

DiscardUndone ==
  /\ At(Undoing, "hashed")
  /\ call.kept
  /\ DiscardTop
  /\ call' = [call EXCEPT !.pc = "recording", !.kept = FALSE]
  /\ UNCHANGED <<disk, readHash, known, unlogged>>

(* Bug: discard without looking whether the record is still on top *)
AlreadyDiscarded_Again ==
  /\ At({"reconcile"}, "hashed")
  /\ ~call.kept
  /\ DiscardTop
  /\ GoTo("recording")
  /\ UNCHANGED <<disk, readHash, known, unlogged>>

(* The record was already gone when the Ctrl-C came *)
AlreadyDiscarded ==
  /\ At({"reconcile"}, "hashed")
  /\ ~call.kept
  /\ GoTo("done")
  /\ UNCHANGED <<disk, readHash, known, unlogged>> /\ JournalUnchanged

FinishDiscard ==
  /\ At(Undoing, "recording")
  /\ CountDiscarded
  /\ GoTo("done")
  /\ UNCHANGED <<disk, readHash, known, unlogged>>

(* Bug: finish the undo without looking at the file *)
ReconcileRestored_Trusting ==
  /\ At({"reconcile"}, "checked")
  /\ GoTo("replaced")
  /\ UNCHANGED <<disk, readHash, known, unlogged>> /\ JournalUnchanged

(* _reconcile_interrupted_undo: finish the undo if the file is as the record *)
(* wants it, else give up and keep the record                                *)
ReconcileRestored ==
  /\ At({"reconcile"}, "checked")
  /\ disk[call.path] = call.before
  /\ GoTo("replaced")
  /\ UNCHANGED <<disk, readHash, known, unlogged>> /\ JournalUnchanged

ReconcileGivesUp ==
  /\ At({"reconcile"}, "checked")
  /\ disk[call.path] # call.before
  /\ call' = Idle
  /\ UNCHANGED <<disk, readHash, known, unlogged>> /\ JournalUnchanged

-----------------------------------------------------------------------------
Return ==
  /\ call # Idle
  /\ call.pc = "done"
  /\ call' = Idle
  /\ UNCHANGED <<disk, readHash, known, unlogged>> /\ JournalUnchanged

(* Whether ending the call here leaves its file at odds with the undo stack *)
Unfinished ==
  \/ /\ call.tool \in Writing
     /\ call.pc \in {"created", "replaced", "hashed"}
     /\ call.before # call.after
  \/ call.tool \in Undoing /\ call.kept /\ disk[call.path] # call.after

(* Ctrl-C ends the call at once, leaving the journal's code where it stands *)
Interrupt ==
  /\ call # Idle
  /\ IF jpc = "rest" THEN JournalUnchanged ELSE TearJournal
  /\ \/ /\ unlogged' = [unlogged EXCEPT ![call.path] = @ \/ Unfinished]
        /\ call.tool = "undo" => call.pc \in {"checked", "done"}
        /\ call' = Idle
     \/ /\ call.tool = "undo"
        /\ call' = [call EXCEPT !.tool = "reconcile", !.pc = "checked"]
        /\ UNCHANGED unlogged
  /\ UNCHANGED <<disk, readHash, known>>

(* An editor, or a process an approved command left running *)
OutsideChange(path, state) ==
  /\ disk[path] # state
  /\ disk' = [disk EXCEPT ![path] = state]
  /\ unlogged' = [unlogged EXCEPT ![path] = TRUE]
  /\ call' = IF call # Idle /\ call.path = path THEN [call EXCEPT !.raced = TRUE] ELSE call
  /\ UNCHANGED <<readHash, known>> /\ JournalUnchanged

(* reset_read_state, as /compact calls it *)
ResetReadState ==
  /\ call = Idle
  /\ readHash' = [path \in Paths |-> NoHash]
  /\ UNCHANGED <<disk, call, known, unlogged>> /\ JournalUnchanged

(* /new: the read state and the undo stack go, the files stay *)
NewSession ==
  /\ call = Idle
  /\ readHash' = [path \in Paths |-> NoHash]
  /\ ClearJournal
  /\ known' = [path \in Paths |-> {}]
  /\ unlogged' = [path \in Paths |-> FALSE]
  /\ UNCHANGED <<disk, call>>

-----------------------------------------------------------------------------
FileInit ==
  /\ JournalInit
  /\ disk \in [Paths -> DiskStates]
  /\ readHash = [path \in Paths |-> NoHash]
  /\ call = Idle
  /\ known = [path \in Paths |-> {}]
  /\ unlogged = [path \in Paths |-> FALSE]

(* What the tools do of their own accord *)
ToolStep ==
  \/ \E path \in Paths : ReadWhole(path)
  \/ \E path \in Paths, content \in Text : StartWrite(path, content) \/ StartEdit(path, content)
  \/ Overwrite \/ Create \/ FillCreated \/ ChangeFails
  \/ NoteHash \/ RecordChange \/ FinishRecording
  \/ StartUndo \/ RestoreFile \/ UndoFails \/ RestoreReadState
  \/ DiscardUndone \/ AlreadyDiscarded \/ FinishDiscard
  \/ ReconcileRestored \/ ReconcileGivesUp
  \/ Return

FileNext ==
  \/ ToolStep
  \/ Interrupt
  \/ \E path \in Paths, state \in DiskStates : OutsideChange(path, state)
  \/ ResetReadState
  \/ NewSession

FileSpec == FileInit /\ [][FileNext]_vars

-----------------------------------------------------------------------------
FileTypeOK ==
  /\ JournalTypeOK
  /\ disk \in [Paths -> DiskStates]
  /\ readHash \in [Paths -> Contents \cup {NoHash}]
  /\ call \in Call \cup {Idle}
  /\ known \in [Paths -> SUBSET Contents]
  /\ unlogged \in [Paths -> BOOLEAN]

(* The agent never destroys content it does not know: a step of a tool that *)
(* replaces or removes a file's content takes away one that this session    *)
(* read completely or composed itself, unless something outside changed the *)
(* file after the call had checked it.  Across undo, which puts back hashes *)
(* nobody read anew, this rests on every record being of known contents.    *)
NoForeignLoss ==
  [][\A path \in Paths :
       (ToolStep /\ disk'[path] # disk[path] /\ disk[path] \in Contents /\ ~call.raced)
         => disk[path] \in known[path] \/ call.pc = "created"]_vars

(* Creating a file never replaces one, even one that appeared after the     *)
(* tool had looked.                                                         *)
CreateIsExclusive ==
  [][\A path \in Paths :
       (ToolStep /\ disk'[path] # disk[path] /\ call.tool = "write"
          /\ call.before = Absent /\ call.pc = "checked")
         => disk[path] = Absent]_vars

LatestOf(path, i) ==
  /\ i \in DOMAIN records
  /\ records[i].path = path
  /\ \A j \in DOMAIN records : j > i => records[j].path # path

(* Each record of a path was made from what the one before it left *)
Linked(path) ==
  \A i, j \in DOMAIN records :
    (/\ i < j
     /\ records[i].path = path /\ records[j].path = path
     /\ \A k \in i + 1..j - 1 : records[k].path # path)
      => records[j].before = records[i].after

(* Walking the stack down, the records of a path nobody else touched link   *)
(* up: each was made from what the one before it left, and the latest one   *)
(* left what the file holds now.                                            *)
HistoryLinksUp ==
  \A path \in Paths :
    (~unlogged[path] /\ call = Idle) =>
      /\ \A i \in DOMAIN records : LatestOf(path, i) => disk[path] = records[i].after
      /\ Linked(path)

(* After the agent's own calls its read state is never stale: STALE_FILE    *)
(* always means something outside (or an interrupted call) changed the file. *)
OwnChangesNeverStale ==
  \A path \in Paths :
    (~unlogged[path] /\ call = Idle) => readHash[path] \in {NoHash, disk[path]}

(* discard never meets another record than the one undone, and whenever a   *)
(* record leaves the top of the stack its file was seen restored.           *)
DiscardsWhatItUndid ==
  [][(ToolStep /\ Len(records') < Len(records) /\ jpc' = "discarded") =>
       /\ Top = Change
       /\ call.raced \/ disk[call.path] = call.before]_vars

(* An undo that reports success left its file as it was before the change,  *)
(* with the record gone, unless something outside raced it.                 *)
UndoIsHonest ==
  At(Undoing, "done") =>
    /\ ~call.kept
    /\ call.raced \/ disk[call.path] = call.before

-----------------------------------------------------------------------------
(* Why they hold: what is true between any two statements of a call.  The   *)
(* properties above follow from FileInvariant, which every step preserves.  *)

Active(tools, pcs) == call # Idle /\ call.tool \in tools /\ call.pc \in pcs

(* The journal's code runs exactly while a call is recording or discarding *)
JournalInCall ==
  /\ jpc # "rest" <=> (call # Idle /\ call.pc = "recording")
  /\ jpc \in {"appended", "evicting", "evicted"} => call.tool \in Writing
  /\ jpc = "discarded" => call.tool \in Undoing

(* Until it is discarded, the record being undone is on top *)
UndoneOnTop ==
  call # Idle =>
    /\ call.kept => /\ call.tool \in Undoing
                    /\ call.pc \in {"checked", "replaced", "hashed"}
                    /\ records # <<>> /\ Top = Change
    /\ call.pc \in {"checked", "replaced", "hashed"} /\ call.tool = "undo" => call.kept

(* Reads, the running call and the records are all of known contents *)
Known(path, content) == content \in known[path]

ContentsKnown ==
  /\ \A path \in Paths : readHash[path] # NoHash => Known(path, readHash[path])
  /\ \A i \in DOMAIN records :
       /\ Known(records[i].path, records[i].after)
       /\ records[i].before # Absent => Known(records[i].path, records[i].before)
  /\ call # Idle =>
       /\ Known(call.path, call.after)
       /\ call.before # Absent => Known(call.path, call.before)

RacesUnlogged == (call # Idle /\ call.raced) => unlogged[call.path]

(* What a call's file holds, statement by statement, if nothing raced it *)
DiskInCall ==
  /\ (call # Idle /\ call.pc = "created") => call.tool = "write" /\ call.before = Absent
  /\ (call # Idle /\ ~call.raced) =>
       LET content == disk[call.path] IN
       /\ Active(Writing, {"checked"}) => content = call.before
       /\ Active(Writing, {"replaced", "hashed", "recording", "done"}) => content = call.after
       /\ Active({"undo"}, {"checked"}) => content = call.after
       /\ Active({"reconcile"}, {"checked"}) =>
            content = call.before \/ (call.kept /\ content = call.after)
       /\ Active(Undoing, {"replaced", "hashed", "recording", "done"}) => content = call.before

(* The read state of an untouched path is what it holds, or what it held  *)
(* before the statement that has just changed it                          *)
HashInCall ==
  \A path \in Paths : ~unlogged[path] =>
    \/ readHash[path] = NoHash
    \/ /\ readHash[path] = disk[path]
       /\ ~(Active(Writing, {"created"}) /\ call.path = path)
    \/ /\ call # Idle /\ call.path = path
       /\ \/ Active(Writing, {"created", "replaced"}) /\ readHash[path] = call.before
          \/ Active(Undoing, {"checked", "replaced"}) /\ call.kept /\ readHash[path] = call.after

(* What the latest record of a path should have left there *)
Recorded(path) ==
  IF Active(Writing, {"created", "replaced", "hashed"}) /\ call.path = path THEN call.before
  ELSE IF call # Idle /\ call.kept /\ call.path = path THEN call.after
  ELSE disk[path]

HistoryInCall ==
  \A path \in Paths : ~unlogged[path] =>
    /\ \A i \in DOMAIN records : LatestOf(path, i) => records[i].after = Recorded(path)
    /\ Linked(path)

FileInvariant ==
  /\ FileTypeOK
  /\ JournalInCall
  /\ UndoneOnTop
  /\ ContentsKnown
  /\ RacesUnlogged
  /\ DiskInCall
  /\ HashInCall
  /\ HistoryInCall
=============================================================================
