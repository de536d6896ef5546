----------------------------- MODULE SearchTool -----------------------------
(***************************************************************************)
(* SearchTools.grep of code_operator/tools/search.py: a walk over the      *)
(* workspace with a stack of paths, each of which the path policy resolves *)
(* before it is looked at, so that a link counts as what it leads to.      *)
(***************************************************************************)
EXTENDS Integers, Sequences, FiniteSets

CONSTANTS
  Dirs, Files, Denied,    \* what a resolved path can be; Denied has no type either
  Listable,               \* the directories whose entries can be listed
  Lines,                  \* the lines of each file that hold the query
  Fitting,                \* the files that fit file_pattern
  Readable,               \* those that are short UTF-8 text without NUL
  Below,                  \* the files that are below each directory
  Trees,                  \* the entries of each directory, by name
  MaxFiles,               \* MAX_SEARCH_FILES
  MaxResults              \* max_results

ASSUME SearchConstants ==
  /\ Dirs \cap Files = {} /\ Dirs \cap Denied = {} /\ Files \cap Denied = {}
  /\ IsFiniteSet(Dirs) /\ Listable \subseteq Dirs
  /\ Trees \subseteq [Dirs -> Seq(Dirs \cup Files \cup Denied)]
  /\ Lines \in [Files -> Nat]
  /\ MaxFiles \in Nat /\ MaxResults \in Nat

VARIABLES
  entries,     \* the tree that is searched
  searchRoot,  \* the path the call names
  walk,        \* "walk", "done", "raised", "refused" or "off"
  pending,     \* the paths still to look at
  scanned,     \* files_scanned
  matches,     \* the files the reported lines are of
  truncated

searchVars == <<entries, searchRoot, walk, pending, scanned, matches, truncated>>

Candidate == pending[1]

Walking == walk = "walk" /\ pending # <<>>

(* A path outside of the workspace or not of a file or directory is left out *)
SkipPath ==
  /\ Walking /\ Candidate \in Denied
  /\ pending' = Tail(pending)
  /\ UNCHANGED <<entries, searchRoot, walk, scanned, matches, truncated>>

(* An OSError of iterdir passes the directory over, and truncated stays *)
SkipDirectory ==
  /\ Walking /\ Candidate \in Dirs \ Listable
  /\ pending' = Tail(pending)
  /\ UNCHANGED <<entries, searchRoot, walk, scanned, matches, truncated>>

EnterDirectory ==
  /\ Walking /\ Candidate \in Listable
  /\ pending' = entries[Candidate] \o Tail(pending)
  /\ UNCHANGED <<entries, searchRoot, walk, scanned, matches, truncated>>

(* The files that have a path relative to the search root *)
Searched == IF searchRoot \in Dirs THEN Below[searchRoot] ELSE {searchRoot}

(* relative_to(root) of a file that a link beyond the search root led to *)
LeaveRoot ==
  /\ Walking /\ Candidate \in Files
  /\ Candidate \notin Searched
  /\ walk' = "raised"
  /\ UNCHANGED <<entries, searchRoot, pending, scanned, matches, truncated>>

Searchable == Walking /\ Candidate \in Files /\ Candidate \in Searched

SkipFile ==
  /\ Searchable /\ Candidate \notin Fitting
  /\ pending' = Tail(pending)
  /\ UNCHANGED <<entries, searchRoot, walk, scanned, matches, truncated>>

StopAtFileLimit ==
  /\ Searchable /\ Candidate \in Fitting /\ scanned >= MaxFiles
  /\ walk' = "done" /\ truncated' = TRUE
  /\ UNCHANGED <<entries, searchRoot, pending, scanned, matches>>

(* Bug: a search that has all the results it may report counts as complete *)
ScanFile_FullIsComplete ==
  /\ Searchable /\ Candidate \in Fitting /\ scanned < MaxFiles
  /\ scanned' = scanned + 1
  /\ LET lines == IF Candidate \in Readable THEN Lines[Candidate] ELSE 0
         room == MaxResults - Len(matches)
     IN  IF lines >= room
         THEN /\ matches' = matches \o [k \in 1..room |-> Candidate]
              /\ walk' = "done" /\ UNCHANGED <<pending, truncated>>
         ELSE /\ matches' = matches \o [k \in 1..lines |-> Candidate]
              /\ pending' = Tail(pending) /\ UNCHANGED <<walk, truncated>>
  /\ UNCHANGED <<entries, searchRoot>>

(* The lines of one file, until one finds no room *)
ScanFile ==
  /\ Searchable /\ Candidate \in Fitting /\ scanned < MaxFiles
  /\ scanned' = scanned + 1
  /\ LET lines == IF Candidate \in Readable THEN Lines[Candidate] ELSE 0
         room == MaxResults - Len(matches)
     IN  IF lines > room
         THEN /\ matches' = matches \o [k \in 1..room |-> Candidate]
              /\ walk' = "done" /\ truncated' = TRUE /\ UNCHANGED pending
         ELSE /\ matches' = matches \o [k \in 1..lines |-> Candidate]
              /\ pending' = Tail(pending) /\ UNCHANGED <<walk, truncated>>
  /\ UNCHANGED <<entries, searchRoot>>

NothingLeft ==
  /\ walk = "walk" /\ pending = <<>>
  /\ walk' = "done"
  /\ UNCHANGED <<entries, searchRoot, pending, scanned, matches, truncated>>

-----------------------------------------------------------------------------
SearchIs(where, tree, root) ==
  /\ entries = tree /\ searchRoot = root /\ pending = <<root>>
  /\ walk = where /\ scanned = 0 /\ matches = <<>> /\ truncated = FALSE

SearchInit ==
  \E tree \in Trees, root \in Dirs \cup Files \cup Denied :
    SearchIs(IF root \in Denied THEN "refused" ELSE "walk", tree, root)

SearchNext ==
  \/ SkipPath \/ SkipDirectory \/ EnterDirectory \/ LeaveRoot \/ SkipFile
  \/ StopAtFileLimit \/ ScanFile \/ NothingLeft

(* The search is one loop of one thread: it takes a step whenever it can *)
SearchSpec == SearchInit /\ [][SearchNext]_searchVars /\ WF_searchVars(SearchNext)

-----------------------------------------------------------------------------
(* What the search root leads to, through Cardinality(Dirs) + 1 entries at most *)
Reachable ==
  LET within[n \in Nat] ==
        IF n = 0 THEN {searchRoot}
        ELSE LET nearer == within[n - 1]
             IN  nearer \cup UNION {{entries[d][k] : k \in DOMAIN entries[d]} : d \in nearer \cap Listable}
  IN  within[Cardinality(Dirs) + 1]

(* A search that does not say it was truncated has reported every line there *)
(* is to find, also those behind links and those that fill the last place,   *)
(* but for what no entry leads to except through a directory that cannot be  *)
(* listed, and for files that cannot be read: neither is said in the result. *)
(* One that says it was truncated did meet a limit and left something out.   *)
SearchIsComplete ==
  walk = "done" =>
    IF truncated
    THEN (Len(matches) = MaxResults \/ scanned = MaxFiles) /\ pending # <<>>
    ELSE \A f \in Reachable \cap Fitting \cap Readable \cap Files :
           Cardinality({k \in DOMAIN matches : matches[k] = f}) >= Lines[f]

SearchOver == walk # "walk"

(* The search of a workspace comes to its end. *)
SearchEnds == <>SearchOver
=============================================================================
