----------------------------- MODULE CommandRun -----------------------------
(***************************************************************************)
(* run_command of code_operator/tools/command.py: one approved command,    *)
(* from its approval to the result.  The caller's thread polls an event    *)
(* that a reader thread sets once communicate() returned; the deadline and *)
(* a Ctrl-C race with it, and both end in the termination of the command's *)
(* process tree.                                                           *)
(*                                                                         *)
(* The command is a leader process, whose exit code run_command polls, and *)
(* the processes it and they start.  Those may leave the leader's process  *)
(* group, end before the processes they started, and hold the pipes of the *)
(* output or not.  taskkill.exe is a process of its own, which run_command *)
(* waits for.  An exit code keeps the class run_command sorts it into;     *)
(* output is whole, or given up.                                           *)
(***************************************************************************)
CONSTANTS
  Children,     \* bound: processes the command may start
  Platforms     \* which of "posix" and "nt" the program runs on

ASSUME PlatformAssumption == Platforms \subseteq {"posix", "nt"}

VARIABLES
  platform,     \* os.name
  pc,           \* where run_command stands
  leader,       \* the process: "none", "running", "doomed" (killed) or "exited"
  exit,         \* its exit code, by class
  children,     \* where each started process is: "inside" the leader's group, "apart"
                \* (it left the group, or runs as another user), "doomed" (killed), "gone"
                \* after that, or "left" when it ended by itself
  above,        \* for each of them, the processes between it and the leader
  holding,      \* started processes that inherited the output pipes
  reader,       \* the reader thread of _ProcessCommunication
  attached,     \* the local communication is set
  late,         \* the deadline of wait() is over
  why,          \* what made run_command terminate the command, if anything
  output,       \* what the result has of the output
  verdict,      \* the error code of the result, "ok" without one
  pressed,      \* history: the user pressed Ctrl-C
  inTime,       \* history: the output was complete before the deadline, and not
                \* between wait's look at the event and its look at the clock
  taskkill,     \* taskkill.exe, on nt: "off", "started", "looked" or "ended"
  found,        \* the processes it found below the leader
  headless,     \* history: the leader was gone, or not known of yet, when its tree
                \* was to be killed
  missed        \* history: a process the kill should have reached could not be killed,
                \* or was started between the look and the kill of taskkill

commandVars == <<platform, pc, leader, exit, children, above, holding, reader, attached, late,
                 why, output, verdict, pressed, inTime, taskkill, found, headless, missed>>

tree == <<children, above, holding>>
processes == <<leader, exit, tree>>
killer == <<taskkill, found, headless, missed>>
thread == <<reader, inTime>>
result == <<output, verdict>>

Running(child) == children[child] \in {"inside", "apart"}

GoTo(place) == pc' = place

Conclude(code) == verdict' = code /\ GoTo("returned")

-----------------------------------------------------------------------------
(* Before the command runs *)

Approve(decision) ==
  /\ pc = "approve"
  /\ CASE decision = "deny" -> Conclude("COMMAND_DENIED")
       [] decision = "ask" -> Conclude("USER_DENIED")
       [] decision = "allow" -> GoTo("spawn") /\ UNCHANGED verdict
  /\ UNCHANGED <<platform, processes, thread, attached, late, why, output, pressed, killer>>

Spawn ==
  /\ pc = "spawn"
  /\ leader' = "running"
  /\ GoTo("spawned")
  /\ UNCHANGED <<platform, exit, tree, thread, attached, late, why, result,
                 pressed, killer>>

(* OSError or ValueError of Popen *)
SpawnFails ==
  /\ pc = "spawn"
  /\ Conclude("COMMAND_START_FAILED")
  /\ UNCHANGED <<platform, processes, thread, attached, late, why, output, pressed, killer>>

(* _ProcessCommunication starts its thread, then the local is assigned *)
StartReader ==
  /\ pc = "spawned"
  /\ reader' = "reading"
  /\ GoTo("attaching")
  /\ UNCHANGED <<platform, processes, attached, late, why, result, pressed, inTime, killer>>

(* The RuntimeError of a thread that cannot be started leaves run_command, and *)
(* the process runs on                                                        *)
StartReaderFails ==
  /\ pc = "spawned"
  /\ GoTo("escaped")
  /\ UNCHANGED <<platform, processes, thread, attached, late, why, result, pressed, killer>>

Attach ==
  /\ pc = "attaching"
  /\ attached' = TRUE
  /\ GoTo("waiting")
  /\ UNCHANGED <<platform, processes, thread, late, why, result, pressed, killer>>

-----------------------------------------------------------------------------
(* wait: a loop over the event and the clock *)

(* Bug: the clock is looked at first *)
SeeUnfinished_Unseen ==
  /\ pc = "waiting"
  /\ GoTo("checking")
  /\ UNCHANGED <<platform, processes, thread, attached, late, why, result, pressed, killer>>

SeeUnfinished ==
  /\ pc = "waiting"
  /\ reader = "reading"
  /\ GoTo("checking")
  /\ UNCHANGED <<platform, processes, thread, attached, late, why, result, pressed, killer>>

WaitMore ==
  /\ pc = "checking"
  /\ ~late
  /\ GoTo("waiting")
  /\ UNCHANGED <<platform, processes, thread, attached, late, why, result, pressed, killer>>

TimeIsUp ==
  /\ pc = "checking"
  /\ late
  /\ why' = "timeout"
  /\ GoTo("terminating")
  /\ UNCHANGED <<platform, processes, thread, attached, late, result, pressed, killer>>

SeeFinished ==
  /\ pc = "waiting"
  /\ reader = "done"
  /\ output' = "whole"
  /\ GoTo("collected")
  /\ UNCHANGED <<platform, processes, thread, attached, late, why, verdict, pressed, killer>>

(* wait raises what communicate() raised: OSError and ValueError are reported *)
(* like a failed start, anything else leaves run_command                      *)
SeeReaderFailed ==
  /\ pc = "waiting"
  /\ reader = "failed"
  /\ Conclude("COMMAND_START_FAILED") \/ (GoTo("escaped") /\ UNCHANGED verdict)
  /\ UNCHANGED <<platform, processes, thread, attached, late, why, output, pressed, killer>>

(* The command ended by itself *)
Judge ==
  /\ pc = "collected"
  /\ Conclude(IF exit = "interrupt" THEN "USER_ABORTED"
              ELSE IF exit = "zero" THEN "ok" ELSE "COMMAND_FAILED")
  /\ UNCHANGED <<platform, processes, thread, attached, late, why, output, pressed, killer>>

-----------------------------------------------------------------------------
(* _terminate_process_tree: what raises in it leaves run_command *)

terminator == <<platform, thread, attached, late, why, result, pressed>>

(* Nothing is killed once the leader is gone *)
LeaderIsGone ==
  /\ pc = "terminating"
  /\ leader = "exited"
  /\ headless' = TRUE
  /\ GoTo("finishing")
  /\ UNCHANGED <<terminator, processes, taskkill, found, missed>>

(* CTRL_BREAK, which processes may heed or not, and half a second, on nt *)
LeaderIsThere ==
  /\ pc = "terminating"
  /\ leader # "exited"
  /\ GoTo("killing")
  /\ UNCHANGED <<terminator, processes, killer>>

DoomLeader == IF leader = "running" THEN "doomed" ELSE leader

Doom(victims) ==
  [child \in Children |-> IF child \in victims THEN "doomed" ELSE children[child]]

Inside == {child \in Children : children[child] = "inside"}

(* Bug: only the leader is killed *)
KillGroup_LeaderOnly ==
  /\ pc = "killing"
  /\ platform = "posix"
  /\ leader' = DoomLeader
  /\ GoTo("clearing")
  /\ UNCHANGED <<terminator, exit, tree, killer>>

(* killpg reaches the leader's group, also after the leader went, but not a *)
(* leader that became another user                                          *)
KillGroup ==
  /\ pc = "killing"
  /\ platform = "posix"
  /\ children' = Doom(Inside)
  /\ \/ leader' = DoomLeader /\ UNCHANGED missed
     \/ leader' = leader /\ missed' = TRUE
  /\ GoTo("clearing")
  /\ UNCHANGED <<terminator, exit, above, holding, taskkill, found, headless>>

StartTaskkill ==
  /\ pc = "killing"
  /\ platform = "nt"
  /\ taskkill' = "started"
  /\ GoTo("taskkilling")
  /\ UNCHANGED <<terminator, processes, found, headless, missed>>

(* PermissionError of killpg, OSError of starting taskkill.exe *)
KillRaises ==
  /\ pc = "killing"
  /\ GoTo("escaped")
  /\ UNCHANGED <<terminator, processes, killer>>

(* subprocess.run waits without a limit, and ignores what taskkill returned *)
TaskkillReturns ==
  /\ pc = "taskkilling"
  /\ taskkill = "ended"
  /\ GoTo("clearing")
  /\ UNCHANGED <<terminator, processes, killer>>

(* A leader that is still there is killed, on both platforms *)
KillLeader ==
  /\ pc = "clearing"
  /\ leader' = DoomLeader
  /\ GoTo("finishing")
  /\ UNCHANGED <<terminator, exit, tree, killer>>

KillLeaderRaises ==
  /\ pc = "clearing"
  /\ leader = "running"
  /\ GoTo("escaped")
  /\ UNCHANGED <<terminator, processes, killer>>

-----------------------------------------------------------------------------
(* finish_after_termination, and the result *)

TakeOutput ==
  /\ pc = "finishing"
  /\ attached /\ reader = "done"
  /\ output' = "whole"
  /\ GoTo("reporting")
  /\ UNCHANGED <<platform, processes, thread, attached, late, why, verdict, pressed, killer>>

(* Bug: the reader thread is waited for without a limit *)
GiveUpOutput_Never ==
  /\ pc = "finishing"
  /\ ~attached
  /\ output' = "empty"
  /\ GoTo("reporting")
  /\ UNCHANGED <<platform, processes, thread, attached, late, why, verdict, pressed, killer>>

(* Bug: what was read so far is taken for the output *)
GiveUpOutput_Partial ==
  /\ pc = "finishing"
  /\ attached => reader = "reading"
  /\ output' = "partial"
  /\ GoTo("reporting")
  /\ UNCHANGED <<platform, processes, thread, attached, late, why, verdict, pressed, killer>>

(* Without a reader, or when it is still reading after five seconds *)
GiveUpOutput ==
  /\ pc = "finishing"
  /\ attached => reader = "reading"
  /\ output' = "empty"
  /\ GoTo("reporting")
  /\ UNCHANGED <<platform, processes, thread, attached, late, why, verdict, pressed, killer>>

FinishRaises ==
  /\ pc = "finishing"
  /\ attached /\ reader = "failed"
  /\ GoTo("escaped")
  /\ UNCHANGED <<platform, processes, thread, attached, late, why, result, pressed, killer>>

Report ==
  /\ pc = "reporting"
  /\ Conclude(IF why = "abort" THEN "USER_ABORTED" ELSE "COMMAND_TIMEOUT")
  /\ UNCHANGED <<platform, processes, thread, attached, late, why, output, pressed, killer>>

-----------------------------------------------------------------------------
(* KeyboardInterrupt *)

(* While Popen runs the process may exist already; the local is still None *)
InterruptSpawn ==
  /\ pc = "spawn"
  /\ leader' \in {"none", "running"}
  /\ why' = "abort" /\ output' = "empty" /\ pressed' = TRUE /\ headless' = TRUE
  /\ GoTo("reporting")
  /\ UNCHANGED <<platform, exit, tree, thread, attached, late, verdict, taskkill, found,
                 missed>>

(* Inside the try *)
InterruptRun ==
  /\ pc \in {"spawned", "attaching", "waiting", "checking", "collected"}
  /\ why' = "abort" /\ pressed' = TRUE
  /\ GoTo("terminating")
  /\ UNCHANGED <<platform, processes, thread, attached, late, result, killer>>

(* At the approval, or while a timeout or another Ctrl-C is being handled *)
InterruptElsewhere ==
  /\ pc \in {"approve", "terminating", "killing", "taskkilling", "clearing", "finishing",
            "reporting"}
  /\ pressed' = TRUE
  /\ GoTo("escaped")
  /\ UNCHANGED <<platform, processes, thread, attached, late, why, result, killer>>

-----------------------------------------------------------------------------
(* The processes, taskkill, the reader thread and the clock *)

main == <<platform, pc, attached, why, result, pressed, headless>>

LeaderExits ==
  /\ \/ leader = "running" /\ exit' \in {"zero", "nonzero", "interrupt"}
     \/ leader = "doomed" /\ exit' = "nonzero"
  /\ leader' = "exited"
  /\ UNCHANGED <<main, tree, thread, late, taskkill, found, missed>>

(* A process is started in the group of the one that starts it; the pipes may *)
(* be handed on                                                               *)
StartProcess(child, place, ancestors) ==
  /\ children[child] = "none"
  /\ children' = [children EXCEPT ![child] = place]
  /\ above' = [above EXCEPT ![child] = ancestors]
  /\ holding' \in {holding, holding \cup {child}}
  /\ missed' = (missed \/ taskkill = "looked")
  /\ UNCHANGED <<main, leader, exit, thread, late, taskkill, found>>

LeaderStarts(child) ==
  /\ leader = "running"
  /\ StartProcess(child, "inside", {})

ChildStarts(parent, child) ==
  /\ Running(parent)
  /\ StartProcess(child, children[parent], above[parent] \cup {parent})

(* setsid, or a change of the user *)
MovesApart(child) ==
  /\ children[child] = "inside"
  /\ children' = [children EXCEPT ![child] = "apart"]
  /\ UNCHANGED <<main, leader, exit, above, holding, thread, late, taskkill, found, missed>>

ChildExits(child) ==
  /\ Running(child) \/ children[child] = "doomed"
  /\ children' = [children EXCEPT ![child] = IF Running(child) THEN "left" ELSE "gone"]
  /\ holding' = holding \ {child}
  /\ UNCHANGED <<main, leader, exit, above, thread, late, taskkill, found, missed>>

(* A process between it and the leader ended by itself: no chain of parents *)
(* leads down to it any more                                                *)
CutOff(child) == \E ancestor \in above[child] : children[ancestor] = "left"

(* taskkill /T follows the parents' links down from the leader, and finds *)
(* nothing without it                                                     *)
TaskkillLooks ==
  /\ taskkill = "started"
  /\ taskkill' = "looked"
  /\ found' = IF leader = "exited" THEN {}
              ELSE {child \in Children : Running(child) /\ ~CutOff(child)}
  /\ headless' = (leader = "exited")
  /\ UNCHANGED <<platform, pc, attached, why, result, pressed, processes, thread, late, missed>>

(* It kills what it found, or what of it lets itself be killed *)
TaskkillKills ==
  /\ taskkill = "looked"
  /\ taskkill' = "ended"
  /\ \/ leader' = DoomLeader /\ children' = Doom({child \in found : Running(child)})
        /\ UNCHANGED missed
     \/ /\ leader' \in {leader, DoomLeader}
        /\ \E victims \in SUBSET {child \in found : Running(child)} : children' = Doom(victims)
        /\ missed' = TRUE
  /\ UNCHANGED <<main, exit, above, holding, thread, late, found>>

(* communicate() returns at the end of both pipes and of the leader *)
Collect ==
  /\ reader = "reading"
  /\ leader = "exited" /\ holding = {}
  /\ reader' = "done"
  /\ inTime' = (~late /\ pc # "checking")
  /\ UNCHANGED <<main, processes, late, taskkill, found, missed>>

CollectFails ==
  /\ reader = "reading"
  /\ reader' = "failed"
  /\ UNCHANGED <<main, processes, inTime, late, taskkill, found, missed>>

DeadlinePasses ==
  /\ attached /\ ~late
  /\ late' = TRUE
  /\ UNCHANGED <<main, processes, thread, taskkill, found, missed>>

-----------------------------------------------------------------------------
CommandInit ==
  /\ platform \in Platforms
  /\ pc = "approve"
  /\ leader = "none" /\ exit = "none"
  /\ children = [child \in Children |-> "none"] /\ holding = {}
  /\ above = [child \in Children |-> {}]
  /\ taskkill = "off" /\ found = {} /\ missed = FALSE
  /\ reader = "off" /\ attached = FALSE /\ late = FALSE
  /\ why = "none" /\ output = "empty" /\ verdict = "none"
  /\ pressed = FALSE /\ inTime = FALSE /\ headless = FALSE

(* The steps of run_command once the command is approved *)
RunCommand ==
  \/ Spawn \/ SpawnFails \/ StartReader \/ StartReaderFails \/ Attach
  \/ SeeUnfinished \/ WaitMore \/ TimeIsUp \/ SeeFinished \/ SeeReaderFailed \/ Judge
  \/ LeaderIsGone \/ LeaderIsThere
  \/ KillGroup \/ StartTaskkill \/ KillRaises \/ TaskkillReturns
  \/ KillLeader \/ KillLeaderRaises
  \/ TakeOutput \/ GiveUpOutput \/ FinishRaises \/ Report

Interrupts == InterruptSpawn \/ InterruptRun \/ InterruptElsewhere

Surroundings ==
  \/ LeaderExits
  \/ \E child \in Children :
       \/ LeaderStarts(child) \/ MovesApart(child) \/ ChildExits(child)
       \/ \E parent \in Children : ChildStarts(parent, child)
  \/ TaskkillLooks \/ TaskkillKills
  \/ Collect \/ CollectFails
  \/ DeadlinePasses

CommandNext ==
  \/ \E decision \in {"deny", "ask", "allow"} : Approve(decision)
  \/ RunCommand
  \/ Interrupts
  \/ Surroundings

CommandSpec ==
  /\ CommandInit
  /\ [][CommandNext]_commandVars
  /\ WF_commandVars(RunCommand)
  /\ WF_commandVars(DeadlinePasses)

-----------------------------------------------------------------------------
Verdicts == {"ok", "COMMAND_FAILED", "COMMAND_TIMEOUT", "COMMAND_DENIED", "COMMAND_START_FAILED",
             "USER_DENIED", "USER_ABORTED"}

CommandTypeOK ==
  /\ platform \in Platforms
  /\ pc \in {"approve", "spawn", "spawned", "attaching", "waiting", "checking", "collected",
             "terminating", "killing", "taskkilling", "clearing", "finishing", "reporting",
            "returned", "escaped"}
  /\ leader \in {"none", "running", "doomed", "exited"}
  /\ exit \in {"none", "zero", "nonzero", "interrupt"}
  /\ children \in [Children -> {"none", "inside", "apart", "doomed", "left", "gone"}]
  /\ above \in [Children -> SUBSET Children]
  /\ holding \in SUBSET Children
  /\ reader \in {"off", "reading", "done", "failed"}
  /\ why \in {"none", "timeout", "abort"}
  /\ output \in {"empty", "whole"}
  /\ verdict \in Verdicts \cup {"none"}
  /\ taskkill \in {"off", "started", "looked", "ended"}
  /\ found \in SUBSET Children
  /\ {attached, late, pressed, inTime, headless, missed} \subseteq BOOLEAN

(* However the exit, the deadline and a Ctrl-C race, the result is true: a  *)
(* command whose output was complete before its deadline (and before wait   *)
(* last looked) is never reported as timed out, only one that exited gets a *)
(* verdict on its exit code, with all of its output, and an abort was a     *)
(* Ctrl-C or an exit code of one.                                           *)
VerdictIsHonest ==
  pc = "returned" =>
    /\ verdict \in {"ok", "COMMAND_FAILED"} => leader = "exited" /\ output = "whole"
    /\ verdict = "ok" <=> exit = "zero" /\ output = "whole" /\ why = "none"
    /\ verdict = "COMMAND_TIMEOUT" => late /\ ~inTime
    /\ verdict = "USER_ABORTED" <=>
         why = "abort" \/ (exit = "interrupt" /\ output = "whole" /\ why = "none")

(* The processes the kill of a platform cannot reach: on posix those out of  *)
(* the leader's group, on nt those cut off from the leader                   *)
OutOfReach(child) ==
  IF platform = "posix" THEN children[child] = "apart" ELSE CutOff(child)

NothingInReachRuns ==
  /\ leader # "running"
  /\ \A child \in Children : Running(child) => OutOfReach(child)

(* When run_command reports a timeout or an abort, the leader does not run   *)
(* any more, and of the processes started below it only those that the kill  *)
(* cannot reach: the ones that left the group on posix, and on nt the ones   *)
(* whose chain of parents to the leader was broken.  Not claimed when the    *)
(* leader was gone before its tree could be killed, or Ctrl-C came before    *)
(* run_command knew of the process; nor when a process refused to be killed, *)
(* or was started between the look and the kill of taskkill.                 *)
TreeIsKilled ==
  (pc = "returned" /\ why # "none" /\ ~headless /\ ~missed) => NothingInReachRuns

(* taskkill.exe, once started, ends *)
TaskkillEnds == []<>(taskkill \in {"off", "ended"})

(* run_command returns (or raises), whatever the command's processes do, if  *)
(* taskkill ends: that is the one wait without a limit, and there is none on *)
(* posix.  (evals/run_golden.py gives the same call of taskkill one second.) *)
CommandReturns == TaskkillEnds => ((pc = "spawn") ~> (pc \in {"returned", "escaped"}))

(* "Process tree termination" avoids orphan processes (DEFENSE.md): no      *)
(* process of a command is left running after its timeout was reported.     *)
TimeoutLeavesNoOrphans ==
  (pc = "returned" /\ verdict = "COMMAND_TIMEOUT") =>
    \A child \in Children : children[child] # "inside"

-----------------------------------------------------------------------------
(* Why they hold: what is true at every statement.  VerdictIsHonest and     *)
(* TreeIsKilled follow from CommandInvariant, which every step preserves.   *)

Trying == {"approve", "spawn", "spawned", "attaching", "waiting", "checking", "collected"}
Handling == {"terminating", "killing", "taskkilling", "clearing", "finishing", "reporting"}

(* A command is terminated for a reason, and only then *)
ReasonKnown ==
  /\ pc \in Trying => why = "none"
  /\ pc \in Handling => why # "none"
  /\ why = "timeout" => late /\ ~inTime

(* What the reader thread has is all there is, and then the leader is gone *)
OutputKnown ==
  /\ pc \in {"approve", "spawn"} => leader = "none"
  /\ pc \in {"approve", "spawn", "spawned"} => reader = "off"
  /\ exit = "none" <=> leader # "exited"
  /\ reader = "done" => leader = "exited"
  /\ inTime => reader = "done" /\ pc # "checking"
  /\ output = "whole" => leader = "exited"
  /\ pc = "collected" => output = "whole"
  /\ pc \in Trying \ {"collected"} => output = "empty"

(* Where taskkill is, and what it knows: until it kills, every process that *)
(* is not there any more ended by itself                                    *)
TaskkillKnown ==
  /\ taskkill # "off" => platform = "nt"
  /\ pc \in Trying \cup {"terminating", "killing"} => taskkill = "off"
  /\ pc = "taskkilling" => taskkill # "off"
  /\ pc \in {"clearing", "finishing", "reporting", "returned"} => taskkill \in {"off", "ended"}
  /\ (taskkill = "looked" /\ ~headless /\ ~missed) =>
       \A child \in Children : Running(child) => child \in found \/ CutOff(child)

(* From the kill on, nothing that it can reach is running *)
KilledForGood ==
  /\ (pc = "clearing" /\ platform = "posix" /\ ~missed) => NothingInReachRuns
  /\ (pc = "clearing" /\ platform = "nt") => taskkill = "ended"
  /\ (taskkill = "ended" /\ ~headless /\ ~missed) => NothingInReachRuns
  /\ (pc \in {"finishing", "reporting", "returned"} /\ why # "none" /\ ~headless /\ ~missed) =>
       NothingInReachRuns

CommandInvariant ==
  /\ CommandTypeOK
  /\ ReasonKnown
  /\ OutputKnown
  /\ TaskkillKnown
  /\ KilledForGood
  /\ VerdictIsHonest
=============================================================================
