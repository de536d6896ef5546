------------------------------ MODULE MCPrograms ------------------------------
(* The programs that run alone, side by side: one of them runs and the others *)
(* are off.  prepare gets every short list of messages, well formed or not,   *)
(* and longer histories made of user messages and complete groups.            *)
EXTENDS ContextTrim, SearchTool, ProbeRun, GoldenEval, ComparisonStudy

CONSTANTS ShortLength, Segments    \* bounds on the two kinds of list

Letters ==
  {System, User(1), User(2), Assistant(<<>>), Assistant(<<"i">>),
   Assistant(<<"i", "j">>), Assistant(<<"i", "i">>),
   ToolMessage("i"), ToolMessage("j")}

Blocks ==
  {<<User(1)>>, <<User(2)>>, <<Assistant(<<>>)>>,
   <<Assistant(<<"i">>), ToolMessage("i")>>,
   <<Assistant(<<"j", "i">>), ToolMessage("j"), ToolMessage("i")>>}

MCInputs ==
  SeqOf(Letters, ShortLength)
    \cup {<<System, User(1)>> \o FlattenSeq(blocks) : blocks \in SeqOf(Blocks, Segments)}

(* Below the workspace "w" are the directories "r" and "d", "u", which cannot *)
(* be listed, and files; "x" is outside.  A link is an entry of what it      *)
(* leads to.                                                                 *)
MCLines == [f \in Files |-> IF f = "f1" THEN 2 ELSE 1]

MCBelow == [w |-> Files, r |-> {"f1", "f2", "f5"}, d |-> {"f3"}, u |-> {"f2"}]

MCTrees ==
  {[w |-> <<"r", "d", "f4", "x">>, r |-> <<"f1", "f2">>, d |-> <<"f3">>, u |-> <<>>],
   [w |-> <<"r", "x", "d", "f4">>, r |-> <<"d", "f5", "f1">>, d |-> <<"f3">>, u |-> <<>>],
   [w |-> <<"d", "f4", "r">>, r |-> <<"f2", "f2", "f1", "f2", "x">>, d |-> <<"f3", "f3">>,
    u |-> <<>>],
   [w |-> <<"r", "d", "r", "f4">>, r |-> <<"f1", "x", "f2">>, d |-> <<>>, u |-> <<>>],
   [w |-> <<"u", "d", "f4">>, r |-> <<>>, d |-> <<"f3", "u">>, u |-> <<"f1">>]}

MCCells == <<"T1", "T2">>

Read == Event("read_file", TRUE, FALSE)
Edit == Event("edit_file", TRUE, FALSE)
Command == Event("run_command", TRUE, FALSE)
Denial == Event("run_command", FALSE, TRUE)
Write == Event("write_file", TRUE, FALSE)

MCEvents1 ==
  {<<Read, Edit, Command>>, <<Read, Read, Edit, Command>>, <<Edit, Read, Command>>,
   <<Read, Edit, Denial>>, <<Read, Edit, Write, Command>>,
   <<Read, Edit, Command, Command>>, <<>>}

MCEvents2 == {<<Command>>, <<Read, Command>>, <<Denial>>, <<Write, Command>>, <<>>}

-----------------------------------------------------------------------------
programs == <<trimVars, searchVars, probeVars, goldenVars, studyVars>>

TrimOff == TrimIs("off", <<>>)
SearchOff == SearchIs("off", CHOOSE tree \in Trees : TRUE, "r")

Init ==
  \/ TrimInit /\ SearchOff /\ ProbeIs("off") /\ GoldenIs("off") /\ StudyIs("off")
  \/ TrimOff /\ SearchInit /\ ProbeIs("off") /\ GoldenIs("off") /\ StudyIs("off")
  \/ TrimOff /\ SearchOff /\ ProbeInit /\ GoldenIs("off") /\ StudyIs("off")
  \/ TrimOff /\ SearchOff /\ ProbeIs("off") /\ GoldenInit /\ StudyIs("off")
  \/ TrimOff /\ SearchOff /\ ProbeIs("off") /\ GoldenIs("off") /\ StudyInit

Next ==
  \/ TrimNext /\ UNCHANGED <<searchVars, probeVars, goldenVars, studyVars>>
  \/ SearchNext /\ UNCHANGED <<trimVars, probeVars, goldenVars, studyVars>>
  \/ ProbeNext /\ UNCHANGED <<trimVars, searchVars, goldenVars, studyVars>>
  \/ GoldenNext /\ UNCHANGED <<trimVars, searchVars, probeVars, studyVars>>
  \/ StudyNext /\ UNCHANGED <<trimVars, searchVars, probeVars, goldenVars>>

(* Each of them is one thread, and what it waits for has a time limit *)
Spec == Init /\ [][Next]_programs /\ WF_programs(Next)

(* Whichever program runs comes to its end: prepare's loops, the search of a *)
(* tree without a cycle, the run of a probe, the batch and the study.        *)
ProgramsEnd == <>(TrimOver /\ SearchOver /\ ProbeOver /\ GoldenOver /\ StudyOver)
=============================================================================
