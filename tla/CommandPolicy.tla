---------------------------- MODULE CommandPolicy ----------------------------
(***************************************************************************)
(* CommandPolicy of policy.py: which commands run, which are asked about   *)
(* and which never run.  An argv is the program's casefolded name without  *)
(* directory and .exe, whether it was given bare, and the casefolded words *)
(* after it.                                                               *)
(***************************************************************************)
EXTENDS Sequences, Naturals

CONSTANTS AskAll, AutoApproveTests    \* ask_all and auto_approve_tests

Words(argv) == {argv.words[k] : k \in DOMAIN argv.words}

ShellFlags ==
  [program \in {"cmd", "powershell", "pwsh", "sh", "bash", "zsh"} |->
     CASE program = "cmd" -> {"/c", "/k"}
       [] program \in {"powershell", "pwsh"} -> {"-command", "-c", "-encodedcommand"}
       [] OTHER -> {"-c"}]

Pythons == {"python", "python3", "py"}

(* With the words that begin with --git-dir, --work-tree or --output *)
DangerousGit ==
  {"-c", "--no-index", "--ext-diff", "--textconv",
   "--git-dir", "--git-dir=x", "--work-tree", "--work-tree=x", "--output", "--output=x"}

SafeGit ==
  [status |->
     {"--short", "-s", "--branch", "-b", "-sb", "--porcelain", "--porcelain=v1",
      "--porcelain=v2", "--untracked-files=no", "--untracked-files=normal",
      "--untracked-files=all", "-uno", "-unormal", "-uall", "--show-stash",
      "--ahead-behind", "--no-ahead-behind", "--null", "-z"},
   diff |->
     {"--stat", "--cached", "--staged", "--check", "--name-only", "--name-status",
      "--numstat", "--shortstat", "--compact-summary", "--summary", "--no-color",
      "--color=never", "--exit-code", "--quiet"}]

Denied(argv) ==
  \/ argv.program \in DOMAIN ShellFlags /\ Words(argv) \cap ShellFlags[argv.program] # {}
  \/ argv.program \in {"rm", "rmdir", "del", "erase", "remove-item"}
  \/ /\ argv.program = "git"
     /\ \/ "push" \in Words(argv) /\ Words(argv) \cap {"--force", "-f", "--force-with-lease"} # {}
        \/ Words(argv) \cap ({"reset", "clean", "rebase"} \cup DangerousGit) # {}

(* git status and git diff with safe words, and asking for a version *)
Harmless(argv) ==
  \/ /\ argv.program = "git"
     /\ argv.words # <<>> /\ argv.words[1] \in DOMAIN SafeGit
     /\ Words([argv EXCEPT !.words = Tail(@)]) \subseteq SafeGit[argv.words[1]]
  \/ argv.words \in {<<"--version">>, <<"-v">>}

Classify(argv) ==
  IF Denied(argv) THEN "deny" ELSE IF Harmless(argv) THEN "allow" ELSE "ask"

TestCommand(argv) ==
  \/ argv.program = "pytest"
  \/ argv.program \in Pythons /\ Len(argv.words) >= 2 /\ SubSeq(argv.words, 1, 2) = <<"-m", "pytest">>

(* _is_unshadowed_bare_runner: no file of the workspace has the program's name *)
BareRunner(argv, shadowed) == argv.bare /\ argv.program \notin shadowed

(* approve, when the user would say yes or no: only "allow" runs *)
Approve(argv, shadowed, yes) ==
  LET asked == IF yes THEN "allow" ELSE "ask"
  IN  IF Denied(argv) THEN "deny"
      ELSE IF AskAll THEN asked
      ELSE IF AutoApproveTests /\ TestCommand(argv) /\ BareRunner(argv, shadowed) THEN "allow"
      ELSE IF Classify(argv) = "ask" THEN asked
      ELSE "allow"
=============================================================================
