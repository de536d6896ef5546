------------------------------- MODULE MCShown -------------------------------
(***************************************************************************)
(* FileTools together with what the model can actually know of each file:  *)
(* the contents that a read_file result delivered to it, or that it wrote  *)
(* itself, since its conversation was last cleared or compacted.  Nobody presses   *)
(* Ctrl-C here.                                                            *)
(***************************************************************************)
EXTENDS FileTools

MCSizeOf == [c \in Contents |-> 1]

VARIABLE shown    \* history: what the present conversation shows of a path

shownVars == <<records, snapshotBytes, jpc, owed, tears, disk, readHash, call, known,
               unlogged, shown>>

Show(path, content) == shown' = [shown EXCEPT ![path] = @ \cup {content}]

ShownInit == FileInit /\ shown = [path \in Paths |-> {}]

ShownNext ==
  \/ /\ ToolStep
     /\ IF At({"read"}, "done") THEN Show(call.path, call.before)
        ELSE IF call = Idle /\ call'.tool \in Writing THEN Show(call'.path, call'.after)
        ELSE UNCHANGED shown
  \/ (\E path \in Paths, state \in DiskStates : OutsideChange(path, state)) /\ UNCHANGED shown
  \/ (ResetReadState \/ NewSession) /\ shown' = [path \in Paths |-> {}]

ShownSpec == ShownInit /\ [][ShownNext]_shownVars

(* "Only a complete read authorises overwriting" (the description of         *)
(* read_file): no file is overwritten whose checked content the conversation *)
(* does not hold.                                                            *)
OverwritesOnlyShown ==
  [][Overwrite => call.before \in shown[call.path]]_shownVars
=============================================================================
