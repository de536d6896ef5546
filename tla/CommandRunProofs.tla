-------------------------- MODULE CommandRunProofs --------------------------
(***************************************************************************)
(* CommandInvariant is an inductive invariant of CommandRun, for any       *)
(* number of processes a command starts and both platforms, and with it    *)
(* the truth of run_command's result and the end of the process tree.      *)
(***************************************************************************)
EXTENDS CommandRun, TLAPS

LEMMA DoomTyped ==
  ASSUME CommandTypeOK, NEW victims
  PROVE  Doom(victims) \in [Children -> {"none", "inside", "apart", "doomed", "left", "gone"}]
  BY DEF CommandTypeOK, Doom

(* Types are kept by every statement, process, thread and Ctrl-C *)
LEMMA CommandTypeStep ==
  ASSUME CommandTypeOK, [CommandNext]_commandVars
  PROVE  CommandTypeOK'
  <1> USE DEF CommandTypeOK, processes, tree, thread, result, main, killer, terminator, GoTo,
          Conclude, Verdicts
  <1>1. CASE UNCHANGED commandVars
    BY <1>1 DEF commandVars
  <1>2. ASSUME NEW decision \in {"deny", "ask", "allow"}, Approve(decision) PROVE CommandTypeOK'
    <2>1. /\ verdict' \in {verdict, "COMMAND_DENIED", "USER_DENIED"}
          /\ pc' \in {"returned", "spawn"}
          /\ UNCHANGED <<platform, processes, thread, attached, late, why, output, pressed, killer>>
      BY <1>2 DEF Approve
    <2> QED BY <2>1
  <1>3. CASE Spawn \/ SpawnFails \/ StartReader \/ StartReaderFails \/ Attach
    BY <1>3 DEF Spawn, SpawnFails, StartReader, StartReaderFails, Attach
  <1>4. CASE SeeUnfinished \/ WaitMore \/ TimeIsUp \/ SeeFinished
    BY <1>4 DEF SeeUnfinished, WaitMore, TimeIsUp, SeeFinished
  <1>5. CASE SeeReaderFailed \/ Judge \/ LeaderIsGone \/ LeaderIsThere
    BY <1>5 DEF SeeReaderFailed, Judge, LeaderIsGone, LeaderIsThere
  <1>6. CASE KillGroup
    <2>1. children' \in [Children -> {"none", "inside", "apart", "doomed", "left", "gone"}]
      BY <1>6, DoomTyped DEF KillGroup
    <2>2. leader' \in {"none", "running", "doomed", "exited"} /\ missed' \in BOOLEAN
      BY <1>6 DEF KillGroup, DoomLeader
    <2>3. /\ taskkill' \in {"off", "started", "looked", "ended"}
          /\ pc' \in {pc, "clearing"}
          /\ UNCHANGED <<platform, exit, above, holding, reader, attached, late, why, output,
                         verdict, pressed, inTime, headless, found>>
      BY <1>6 DEF KillGroup
    <2> QED BY <2>1, <2>2, <2>3
  <1>7. CASE StartTaskkill \/ KillRaises \/ TaskkillReturns
    BY <1>7 DEF StartTaskkill, KillRaises, TaskkillReturns
  <1>8. CASE KillLeader \/ KillLeaderRaises
    BY <1>8 DEF KillLeader, KillLeaderRaises, DoomLeader
  <1>9. CASE TakeOutput \/ GiveUpOutput \/ FinishRaises \/ Report
    BY <1>9 DEF TakeOutput, GiveUpOutput, FinishRaises, Report
  <1>10. CASE Interrupts
    BY <1>10 DEF Interrupts, InterruptSpawn, InterruptRun, InterruptElsewhere
  <1>11. CASE LeaderExits \/ Collect \/ CollectFails \/ DeadlinePasses
    BY <1>11 DEF LeaderExits, Collect, CollectFails, DeadlinePasses
  <1>12. ASSUME NEW child \in Children, LeaderStarts(child) PROVE CommandTypeOK'
    BY <1>12 DEF LeaderStarts, StartProcess
  <1>13. ASSUME NEW child \in Children, NEW parent \in Children, ChildStarts(parent, child)
         PROVE  CommandTypeOK'
    BY <1>13 DEF ChildStarts, StartProcess
  <1>14. ASSUME NEW child \in Children, MovesApart(child) \/ ChildExits(child)
         PROVE  CommandTypeOK'
    BY <1>14 DEF MovesApart, ChildExits,
       Running
  <1>15. CASE TaskkillLooks
    BY <1>15 DEF TaskkillLooks
  <1>16. CASE TaskkillKills
    <2>1. children' \in [Children -> {"none", "inside", "apart", "doomed", "left", "gone"}]
      BY <1>16, DoomTyped DEF TaskkillKills
    <2>2. leader' \in {"none", "running", "doomed", "exited"} /\ missed' \in BOOLEAN
      BY <1>16 DEF TaskkillKills, DoomLeader
    <2>3. /\ taskkill' \in {"off", "started", "looked", "ended"}
          /\ pc' \in {pc, "clearing"}
          /\ UNCHANGED <<platform, exit, above, holding, reader, attached, late, why, output,
                         verdict, pressed, inTime, headless, found>>
      BY <1>16 DEF TaskkillKills
    <2> QED BY <2>1, <2>2, <2>3
  <1> QED
    BY <1>1, <1>2, <1>3, <1>4, <1>5, <1>6, <1>7, <1>8, <1>9, <1>10, <1>11, <1>12, <1>13, <1>14,
       <1>15, <1>16
    DEF CommandNext, RunCommand, Surroundings

(* A command is terminated for a reason, and for a timeout only late *)
LEMMA ReasonKnownStep ==
  ASSUME CommandInvariant, [CommandNext]_commandVars
  PROVE  ReasonKnown'
  <1> USE DEF CommandInvariant, ReasonKnown, OutputKnown, TaskkillKnown, Trying, Handling,
          processes, tree, thread, result, main, killer, terminator, GoTo, Conclude
  <1>1. CASE UNCHANGED commandVars
    BY <1>1 DEF commandVars
  <1>2. ASSUME NEW decision \in {"deny", "ask", "allow"}, Approve(decision) PROVE ReasonKnown'
    BY <1>2 DEF Approve
  <1>3. CASE Spawn \/ SpawnFails \/ StartReader \/ StartReaderFails \/ Attach
    BY <1>3 DEF Spawn, SpawnFails, StartReader, StartReaderFails, Attach
  <1>4. CASE SeeUnfinished \/ WaitMore \/ TimeIsUp \/ SeeFinished
    BY <1>4 DEF SeeUnfinished, WaitMore, TimeIsUp, SeeFinished
  <1>5. CASE SeeReaderFailed \/ Judge \/ LeaderIsGone \/ LeaderIsThere
    BY <1>5 DEF SeeReaderFailed, Judge, LeaderIsGone, LeaderIsThere
  <1>6. CASE KillGroup
    BY <1>6 DEF KillGroup, DoomLeader
  <1>7. CASE StartTaskkill \/ KillRaises \/ TaskkillReturns
    BY <1>7 DEF StartTaskkill, KillRaises, TaskkillReturns
  <1>8. CASE KillLeader \/ KillLeaderRaises
    BY <1>8 DEF KillLeader, KillLeaderRaises, DoomLeader
  <1>9. CASE TakeOutput \/ GiveUpOutput \/ FinishRaises \/ Report
    BY <1>9 DEF TakeOutput, GiveUpOutput, FinishRaises, Report
  <1>10. CASE Interrupts
    BY <1>10 DEF Interrupts, InterruptSpawn, InterruptRun, InterruptElsewhere
  <1>11. CASE LeaderExits \/ Collect \/ CollectFails \/ DeadlinePasses
    BY <1>11 DEF LeaderExits, Collect, CollectFails, DeadlinePasses,
       CommandTypeOK
  <1>12. ASSUME NEW child \in Children, LeaderStarts(child) PROVE ReasonKnown'
    BY <1>12 DEF LeaderStarts, StartProcess
  <1>13. ASSUME NEW child \in Children, NEW parent \in Children, ChildStarts(parent, child)
         PROVE  ReasonKnown'
    BY <1>13 DEF ChildStarts, StartProcess
  <1>14. ASSUME NEW child \in Children, MovesApart(child) \/ ChildExits(child)
         PROVE  ReasonKnown'
    BY <1>14 DEF MovesApart, ChildExits
  <1>15. CASE TaskkillLooks
    BY <1>15 DEF TaskkillLooks
  <1>16. CASE TaskkillKills
    BY <1>16 DEF TaskkillKills, DoomLeader
  <1> QED
    BY <1>1, <1>2, <1>3, <1>4, <1>5, <1>6, <1>7, <1>8, <1>9, <1>10, <1>11, <1>12, <1>13, <1>14,
       <1>15, <1>16
    DEF CommandNext, RunCommand, Surroundings

(* Whole output is never reported of a leader that still runs *)
LEMMA OutputKnownStep ==
  ASSUME CommandInvariant, [CommandNext]_commandVars
  PROVE  OutputKnown'
  <1> USE DEF CommandInvariant, OutputKnown, Trying,
          processes, tree, thread, result, main, killer, terminator, GoTo, Conclude
  <1>1. CASE UNCHANGED commandVars
    BY <1>1 DEF commandVars
  <1>2. ASSUME NEW decision \in {"deny", "ask", "allow"}, Approve(decision) PROVE OutputKnown'
    BY <1>2 DEF Approve
  <1>3. CASE Spawn \/ SpawnFails \/ StartReader \/ StartReaderFails \/ Attach
    BY <1>3 DEF Spawn, SpawnFails, StartReader, StartReaderFails, Attach
  <1>4. CASE SeeUnfinished \/ WaitMore \/ TimeIsUp \/ SeeFinished
    BY <1>4 DEF SeeUnfinished, WaitMore, TimeIsUp, SeeFinished
  <1>5. CASE SeeReaderFailed \/ Judge \/ LeaderIsGone \/ LeaderIsThere
    BY <1>5 DEF SeeReaderFailed, Judge, LeaderIsGone, LeaderIsThere
  <1>6. CASE KillGroup
    BY <1>6 DEF KillGroup, DoomLeader,
       CommandTypeOK
  <1>7. CASE StartTaskkill \/ KillRaises \/ TaskkillReturns
    BY <1>7 DEF StartTaskkill, KillRaises, TaskkillReturns
  <1>8. CASE KillLeader \/ KillLeaderRaises
    BY <1>8 DEF KillLeader, KillLeaderRaises, DoomLeader,
       CommandTypeOK
  <1>9. CASE TakeOutput \/ GiveUpOutput \/ FinishRaises \/ Report
    BY <1>9 DEF TakeOutput, GiveUpOutput, FinishRaises, Report
  <1>10. CASE Interrupts
    BY <1>10 DEF Interrupts, InterruptSpawn, InterruptRun, InterruptElsewhere
  <1>11. CASE LeaderExits \/ Collect \/ CollectFails \/ DeadlinePasses
    BY <1>11 DEF LeaderExits, Collect, CollectFails, DeadlinePasses,
       CommandTypeOK
  <1>12. ASSUME NEW child \in Children, LeaderStarts(child) PROVE OutputKnown'
    BY <1>12 DEF LeaderStarts, StartProcess
  <1>13. ASSUME NEW child \in Children, NEW parent \in Children, ChildStarts(parent, child)
         PROVE  OutputKnown'
    BY <1>13 DEF ChildStarts, StartProcess
  <1>14. ASSUME NEW child \in Children, MovesApart(child) \/ ChildExits(child)
         PROVE  OutputKnown'
    BY <1>14 DEF MovesApart, ChildExits
  <1>15. CASE TaskkillLooks
    BY <1>15 DEF TaskkillLooks
  <1>16. CASE TaskkillKills
    BY <1>16 DEF TaskkillKills, DoomLeader,
       CommandTypeOK
  <1> QED
    BY <1>1, <1>2, <1>3, <1>4, <1>5, <1>6, <1>7, <1>8, <1>9, <1>10, <1>11, <1>12, <1>13, <1>14,
       <1>15, <1>16
    DEF CommandNext, RunCommand, Surroundings

(* taskkill runs only while it is waited for, or once a Ctrl-C ended the wait; *)
(* what it found stays all there is to find                                 *)
LEMMA TaskkillKnownStep ==
  ASSUME CommandInvariant, [CommandNext]_commandVars
  PROVE  TaskkillKnown'
  <1> USE DEF CommandInvariant, TaskkillKnown, KilledForGood, Trying,
          processes, tree, thread, result, main, killer, terminator, GoTo, Conclude
  <1>1. CASE UNCHANGED commandVars
    BY <1>1 DEF commandVars,
       Running, CutOff
  <1>2. ASSUME NEW decision \in {"deny", "ask", "allow"}, Approve(decision) PROVE TaskkillKnown'
    BY <1>2 DEF Approve,
       Running, CutOff
  <1>3. CASE Spawn \/ SpawnFails \/ StartReader \/ StartReaderFails \/ Attach
    BY <1>3 DEF Spawn, SpawnFails, StartReader, StartReaderFails, Attach,
       Running, CutOff
  <1>4. CASE SeeUnfinished \/ WaitMore \/ TimeIsUp \/ SeeFinished
    BY <1>4 DEF SeeUnfinished, WaitMore, TimeIsUp, SeeFinished,
       Running, CutOff
  <1>5. CASE SeeReaderFailed \/ Judge \/ LeaderIsGone \/ LeaderIsThere
    BY <1>5 DEF SeeReaderFailed, Judge, LeaderIsGone, LeaderIsThere,
       Running, CutOff
  <1>6. CASE KillGroup
    BY <1>6 DEF KillGroup, DoomLeader,
       Running, CutOff
  <1>7. CASE StartTaskkill \/ KillRaises \/ TaskkillReturns
    BY <1>7 DEF StartTaskkill, KillRaises, TaskkillReturns,
       Running, CutOff
  <1>8. CASE KillLeader \/ KillLeaderRaises
    BY <1>8 DEF KillLeader, KillLeaderRaises, DoomLeader,
       Running, CutOff
  <1>9. CASE TakeOutput \/ GiveUpOutput \/ FinishRaises \/ Report
    BY <1>9 DEF TakeOutput, GiveUpOutput, FinishRaises, Report,
       Running, CutOff
  <1>10. CASE Interrupts
    BY <1>10 DEF Interrupts, InterruptSpawn, InterruptRun, InterruptElsewhere,
       Running, CutOff
  <1>11. CASE LeaderExits \/ Collect \/ CollectFails \/ DeadlinePasses
    BY <1>11 DEF LeaderExits, Collect, CollectFails, DeadlinePasses,
       Running, CutOff
  <1>12. ASSUME NEW child \in Children, LeaderStarts(child) PROVE TaskkillKnown'
    BY <1>12 DEF LeaderStarts, StartProcess,
       Running, CutOff, CommandTypeOK
  <1>13. ASSUME NEW child \in Children, NEW parent \in Children, ChildStarts(parent, child)
         PROVE  TaskkillKnown'
    BY <1>13 DEF ChildStarts, StartProcess,
       Running, CutOff, CommandTypeOK
  <1>14. ASSUME NEW child \in Children, MovesApart(child) \/ ChildExits(child)
         PROVE  TaskkillKnown'
    BY <1>14 DEF MovesApart, ChildExits,
       Running, CutOff, CommandTypeOK
  <1>15. CASE TaskkillLooks
    BY <1>15 DEF TaskkillLooks,
       Running, CutOff, CommandTypeOK
  <1>16. CASE TaskkillKills
    BY <1>16 DEF TaskkillKills, DoomLeader,
       CommandTypeOK
  <1> QED
    BY <1>1, <1>2, <1>3, <1>4, <1>5, <1>6, <1>7, <1>8, <1>9, <1>10, <1>11, <1>12, <1>13, <1>14,
       <1>15, <1>16
    DEF CommandNext, RunCommand, Surroundings

(* No step revives the tree of a command that was killed: its processes   *)
(* could only be started by one of their own                                *)
LEMMA KilledForGoodStep ==
  ASSUME CommandInvariant, [CommandNext]_commandVars
  PROVE  KilledForGood'
  <1> USE DEF CommandInvariant, KilledForGood, ReasonKnown, TaskkillKnown, Trying, Handling,
          processes, tree, thread, result, main, killer, terminator, GoTo, Conclude
  <1>0. UNCHANGED <<platform, leader, children, above>> =>
          (NothingInReachRuns <=> NothingInReachRuns')
    BY DEF NothingInReachRuns, OutOfReach, CutOff, Running
  <1>1. CASE UNCHANGED commandVars
    BY <1>1, <1>0 DEF commandVars
  <1>2. ASSUME NEW decision \in {"deny", "ask", "allow"}, Approve(decision) PROVE KilledForGood'
    BY <1>2, <1>0 DEF Approve
  <1>3. CASE Spawn \/ SpawnFails \/ StartReader \/ StartReaderFails \/ Attach
    BY <1>3, <1>0 DEF Spawn, SpawnFails, StartReader, StartReaderFails, Attach
  <1>4. CASE SeeUnfinished \/ WaitMore \/ TimeIsUp \/ SeeFinished
    BY <1>4, <1>0 DEF SeeUnfinished, WaitMore, TimeIsUp, SeeFinished
  <1>5. CASE SeeReaderFailed \/ Judge \/ LeaderIsGone \/ LeaderIsThere
    BY <1>5, <1>0 DEF SeeReaderFailed, Judge, LeaderIsGone, LeaderIsThere
  <1>6. CASE KillGroup
    BY <1>6 DEF KillGroup, DoomLeader,
       Doom, Inside, NothingInReachRuns, OutOfReach, Running, CommandTypeOK
  <1>7. CASE StartTaskkill \/ KillRaises \/ TaskkillReturns
    BY <1>7, <1>0 DEF StartTaskkill, KillRaises, TaskkillReturns
  <1>8. CASE KillLeader \/ KillLeaderRaises
    <2>1. UNCHANGED <<platform, children, above, taskkill, headless, missed, why>>
      BY <1>8 DEF KillLeader, KillLeaderRaises
    <2>2. leader # "running" => UNCHANGED leader
      BY <1>8 DEF KillLeader, KillLeaderRaises, DoomLeader
    <2>3. NothingInReachRuns => NothingInReachRuns'
      BY <2>1, <2>2 DEF NothingInReachRuns, OutOfReach, CutOff, Running
    <2>4. pc = "clearing" /\ pc' \in {"finishing", "escaped"}
      BY <1>8 DEF KillLeader, KillLeaderRaises
    <2>5. platform \in {"posix", "nt"}
      BY PlatformAssumption DEF CommandTypeOK
    <2> QED BY <2>1, <2>3, <2>4, <2>5
  <1>9. CASE TakeOutput \/ GiveUpOutput \/ FinishRaises \/ Report
    BY <1>9, <1>0 DEF TakeOutput, GiveUpOutput, FinishRaises, Report
  <1>10. CASE Interrupts
    BY <1>10, <1>0 DEF Interrupts, InterruptSpawn, InterruptRun, InterruptElsewhere
  <1>11. CASE LeaderExits \/ Collect \/ CollectFails \/ DeadlinePasses
    BY <1>11 DEF LeaderExits, Collect, CollectFails, DeadlinePasses,
       NothingInReachRuns, OutOfReach, CutOff, Running, CommandTypeOK
  <1>12. ASSUME NEW child \in Children, LeaderStarts(child) PROVE KilledForGood'
    BY <1>12 DEF LeaderStarts, StartProcess,
       NothingInReachRuns, OutOfReach, CutOff, Running, CommandTypeOK
  <1>13. ASSUME NEW child \in Children, NEW parent \in Children, ChildStarts(parent, child)
         PROVE  KilledForGood'
    BY <1>13 DEF ChildStarts, StartProcess,
       NothingInReachRuns, OutOfReach, CutOff, Running, CommandTypeOK
  <1>14. ASSUME NEW child \in Children, MovesApart(child) \/ ChildExits(child)
         PROVE  KilledForGood'
    BY <1>14 DEF MovesApart, ChildExits,
       NothingInReachRuns, OutOfReach, CutOff, Running, CommandTypeOK
  <1>15. CASE TaskkillLooks
    BY <1>15, <1>0 DEF TaskkillLooks
  <1>16. CASE TaskkillKills
    BY <1>16 DEF TaskkillKills, DoomLeader,
       Doom, NothingInReachRuns, OutOfReach, CutOff, Running, CommandTypeOK
  <1> QED
    BY <1>1, <1>2, <1>3, <1>4, <1>5, <1>6, <1>7, <1>8, <1>9, <1>10, <1>11, <1>12, <1>13, <1>14,
       <1>15, <1>16
    DEF CommandNext, RunCommand, Surroundings

(* Report and Judge are the only ways to a verdict on a run *)
LEMMA VerdictIsHonestStep ==
  ASSUME CommandInvariant, [CommandNext]_commandVars
  PROVE  VerdictIsHonest'
  <1> USE DEF CommandInvariant, VerdictIsHonest, ReasonKnown, OutputKnown, TaskkillKnown, Trying,
          Handling, processes, tree, thread, result, main, killer, terminator, GoTo, Conclude
  <1>1. CASE UNCHANGED commandVars
    BY <1>1 DEF commandVars
  <1>2. ASSUME NEW decision \in {"deny", "ask", "allow"}, Approve(decision) PROVE VerdictIsHonest'
    BY <1>2 DEF Approve
  <1>3. CASE Spawn \/ SpawnFails \/ StartReader \/ StartReaderFails \/ Attach
    BY <1>3 DEF Spawn, SpawnFails, StartReader, StartReaderFails, Attach
  <1>4. CASE SeeUnfinished \/ WaitMore \/ TimeIsUp \/ SeeFinished
    BY <1>4 DEF SeeUnfinished, WaitMore, TimeIsUp, SeeFinished
  <1>5. CASE SeeReaderFailed \/ Judge \/ LeaderIsGone \/ LeaderIsThere
    BY <1>5 DEF SeeReaderFailed, Judge, LeaderIsGone, LeaderIsThere
  <1>6. CASE KillGroup
    BY <1>6 DEF KillGroup, DoomLeader
  <1>7. CASE StartTaskkill \/ KillRaises \/ TaskkillReturns
    BY <1>7 DEF StartTaskkill, KillRaises, TaskkillReturns
  <1>8. CASE KillLeader \/ KillLeaderRaises
    BY <1>8 DEF KillLeader, KillLeaderRaises, DoomLeader
  <1>9. CASE TakeOutput \/ GiveUpOutput \/ FinishRaises \/ Report
    BY <1>9 DEF TakeOutput, GiveUpOutput, FinishRaises, Report,
       CommandTypeOK
  <1>10. CASE Interrupts
    BY <1>10 DEF Interrupts, InterruptSpawn, InterruptRun, InterruptElsewhere
  <1>11. CASE LeaderExits \/ Collect \/ CollectFails \/ DeadlinePasses
    BY <1>11 DEF LeaderExits, Collect, CollectFails, DeadlinePasses,
       CommandTypeOK
  <1>12. ASSUME NEW child \in Children, LeaderStarts(child) PROVE VerdictIsHonest'
    BY <1>12 DEF LeaderStarts, StartProcess
  <1>13. ASSUME NEW child \in Children, NEW parent \in Children, ChildStarts(parent, child)
         PROVE  VerdictIsHonest'
    BY <1>13 DEF ChildStarts, StartProcess
  <1>14. ASSUME NEW child \in Children, MovesApart(child) \/ ChildExits(child)
         PROVE  VerdictIsHonest'
    BY <1>14 DEF MovesApart, ChildExits
  <1>15. CASE TaskkillLooks
    BY <1>15 DEF TaskkillLooks
  <1>16. CASE TaskkillKills
    BY <1>16 DEF TaskkillKills, DoomLeader
  <1> QED
    BY <1>1, <1>2, <1>3, <1>4, <1>5, <1>6, <1>7, <1>8, <1>9, <1>10, <1>11, <1>12, <1>13, <1>14,
       <1>15, <1>16
    DEF CommandNext, RunCommand, Surroundings

LEMMA CommandInvariantInit ==
  ASSUME CommandInit
  PROVE  CommandInvariant
  BY DEF CommandInit, CommandInvariant, CommandTypeOK, ReasonKnown, OutputKnown, TaskkillKnown,
         KilledForGood, VerdictIsHonest, Trying, Handling, Verdicts

LEMMA CommandInvariantStep ==
  ASSUME CommandInvariant, [CommandNext]_commandVars
  PROVE  CommandInvariant'
  BY CommandTypeStep, ReasonKnownStep, OutputKnownStep, TaskkillKnownStep, KilledForGoodStep,
     VerdictIsHonestStep
  DEF CommandInvariant

-----------------------------------------------------------------------------
(* Whatever the command's processes, the reader thread, the clock and Ctrl-C *)
(* do, and in whatever order, run_command's state is as CommandInvariant     *)
(* says at each of its statements.                                           *)
THEOREM CommandInvariantHolds == CommandSpec => []CommandInvariant
  <1>1. CommandInit => CommandInvariant BY CommandInvariantInit
  <1>2. CommandInvariant /\ [CommandNext]_commandVars => CommandInvariant'
    BY CommandInvariantStep
  <1> QED BY <1>1, <1>2, PTL DEF CommandSpec

(* The error code run_command returns is true of what happened.              *)
THEOREM ResultIsTrue == CommandSpec => []VerdictIsHonest
  <1>1. CommandInvariant => VerdictIsHonest BY DEF CommandInvariant
  <1> QED BY <1>1, CommandInvariantHolds, PTL

(* When a timeout or a Ctrl-C is reported the leader is not running, and of  *)
(* the processes of the command, however many it had started, only those the *)
(* platform's kill cannot reach are, with the exceptions TreeIsKilled names. *)
THEOREM TreeIsGone == CommandSpec => []TreeIsKilled
  <1>1. CommandInvariant => TreeIsKilled
    BY DEF CommandInvariant, KilledForGood, TreeIsKilled
  <1> QED BY <1>1, CommandInvariantHolds, PTL
=============================================================================
