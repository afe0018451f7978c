----------------------------- MODULE GitEnvironment -----------------------------
(***************************************************************************)
(* The preparation of the environment that fs-lint leaves to the git       *)
(* processes it starts for --root (src/src/git_environment.c), and its two *)
(* callers: the batch commands, for which a failure is an error (main.c),  *)
(* and the counterpart check of a working tree, which goes on without git  *)
(* (counterparts.c).                                                       *)
(*                                                                         *)
(* Git hands its variables to hooks, written for the directory the hook    *)
(* runs in.  When that directory and --root are in one repository they are *)
(* to mean the same at --root; otherwise they are to be gone.              *)
(***************************************************************************)
EXTENDS Integers, Sequences, FiniteSets

CONSTANTS Directories,
          RepositoryOf,  \* the repository a directory is in, or "none"
          TopOf,         \* the top of the work tree it is in
          Environments,  \* what the caller's variables may hold
          Capacity       \* GIT_ENV_CAPACITY

\* preserve_relative_paths, in its order.
PathVariables == <<"GIT_DIR", "GIT_WORK_TREE", "GIT_COMMON_DIR", "GIT_INDEX_FILE",
                   "GIT_OBJECT_DIRECTORY", "GIT_GRAFT_FILE", "GIT_SHALLOW_FILE",
                   "GIT_CONFIG">>
Alternates == "GIT_ALTERNATE_OBJECT_DIRECTORIES"
\* The local variables of git; GIT_PREFIX stands for those that hold no path.
Variables == {PathVariables[n] : n \in DOMAIN PathVariables} \cup {Alternates, "GIT_PREFIX"}

\* A value is unset, empty, a relative path, an absolute one of the caller, or
\* a path fs-lint made absolute by putting it into a directory.
GivenValues == {"unset", "empty", "relative", "absolute"}
Values == GivenValues \cup Directories

Repositories == {RepositoryOf[d] : d \in Directories} \cup {"none"}

ASSUME DirectoriesAssumption ==
  /\ Directories \cap GivenValues = {}
  /\ DOMAIN RepositoryOf = Directories
  /\ TopOf \in [Directories -> Directories]
\* A linked work tree has a git directory of its own.
ASSUME TopAssumption ==
  \A c, d \in Directories :
    RepositoryOf[c] = RepositoryOf[d] /\ RepositoryOf[d] # "none" => TopOf[c] = TopOf[d]
ASSUME EnvironmentsAssumption == Environments \subseteq [Variables -> GivenValues]
ASSUME CapacityAssumption == Capacity \in Nat

VARIABLES use,      \* "batch" or "targets": the caller
          cwd, root,
          named,    \* the repository GIT_DIR names where the caller stands
          given,    \* the variables as the caller set them
          env,      \* the variables now
          pc,
          names,    \* the local variables found set, less those cleared
          current,  \* the repository git found at ".", or "none"
          target,   \* the one it found at --root without the variables
          position, \* index into PathVariables
          base,     \* where the counterpart check looks for targets
          trouble   \* a call failed that need not have

vars == <<use, cwd, root, named, given, env, pc, names, current, target, position,
          base, trouble>>
world == <<use, cwd, root, named, given>>

Steps == {"read", "current", "target", "compare", "clear", "directory", "alternates",
          "preserve", "prepared", "failed", "asked", "error", "done"}

--------------------------------------------------------------------------------
(* What git makes of an environment e in a directory d *)

\* GIT_DIR without GIT_WORK_TREE makes the directory git starts in the work tree.
WorkTree(e, d) ==
  LET tree == e["GIT_WORK_TREE"]
  IN  CASE tree = "relative" -> d
        [] tree = "unset" /\ e["GIT_DIR"] = "unset" -> TopOf[d]
        [] tree = "unset" /\ e["GIT_DIR"] # "unset" -> d
        [] OTHER -> tree

Repository(e, d) ==
  IF "empty" \in {e["GIT_DIR"], e["GIT_WORK_TREE"]} THEN "none"
  ELSE IF e["GIT_DIR"] = "unset" THEN RepositoryOf[d]
  ELSE IF e["GIT_DIR"] = "relative" /\ d # cwd THEN "none" ELSE named

\* These are opened after git has moved to the top of the work tree.
OpenedLater == {"GIT_INDEX_FILE", "GIT_OBJECT_DIRECTORY", "GIT_GRAFT_FILE",
                "GIT_SHALLOW_FILE", Alternates}

Meaning(e, v, d) ==
  IF e[v] # "relative" THEN e[v]
  ELSE IF v \in OpenedLater THEN WorkTree(e, d) ELSE d

Cleared == [v \in Variables |-> "unset"]

--------------------------------------------------------------------------------

Init ==
  /\ use \in {"batch", "targets"} /\ cwd \in Directories /\ root \in Directories
  /\ given \in Environments /\ env = given
  /\ named \in IF given["GIT_DIR"] \in {"unset", "empty"} THEN {"none"} ELSE Repositories
  /\ pc = "read" /\ names = {} /\ current = "none" /\ target = "none"
  /\ position = 1 /\ base = root /\ trouble = FALSE

Goto(step) == pc' = step /\ UNCHANGED <<world, base>>

\* A failed call that ends the preparation.
Fail ==
  /\ Goto("failed") /\ trouble' = TRUE
  /\ UNCHANGED <<env, names, current, target, position>>

SetVariables == {v \in Variables : env[v] # "unset"}

\* read_environment
ReadEnvironment ==
  /\ pc = "read" /\ Cardinality(SetVariables) <= Capacity
  /\ names' = SetVariables
  /\ Goto(IF SetVariables = {} THEN "prepared" ELSE "current")
  /\ UNCHANGED <<env, current, target, position, trouble>>

\* git fails, its answer does not fit, or there are too many variables.
ReadFails == pc = "read" /\ Fail

\* same_repository: git at "." with the variables as they are, then a child
\* that clears them asks at --root.  A query without an answer is "none".
FindCurrent ==
  /\ pc = "current" /\ Goto("target")
  /\ current' = Repository(env, cwd)
  /\ UNCHANGED <<env, names, target, position, trouble>>

\* Seeded fault: the second query runs with the caller's variables.
FindTargetUncleared ==
  /\ pc = "target" /\ Goto("compare")
  /\ target' = Repository(env, root)
  /\ UNCHANGED <<env, names, current, position, trouble>>

FindTarget ==
  /\ pc = "target" /\ Goto("compare")
  /\ target' = Repository(Cleared, root)
  /\ UNCHANGED <<env, names, current, position, trouble>>

QueryFails ==
  /\ \/ pc = "current" /\ Goto("target") /\ current' = "none" /\ UNCHANGED target
     \/ pc = "target" /\ Goto("compare") /\ target' = "none" /\ UNCHANGED current
  /\ trouble' = TRUE
  /\ UNCHANGED <<env, names, position>>

\* Seeded fault: two queries without an answer pass for one repository.
SameRepositoryUnanswered == current = target

SameRepository == current # "none" /\ current = target

Compare ==
  /\ pc = "compare"
  /\ Goto(IF SameRepository THEN "directory" ELSE "clear")
  /\ UNCHANGED <<env, names, current, target, position, trouble>>

\* Seeded fault: GIT_PREFIX is taken for harmless and stays.
ClearPathsOnly ==
  /\ pc = "clear" /\ \E v \in names :
       /\ names' = names \ {v}
       /\ env' = [env EXCEPT ![v] = IF v = "GIT_PREFIX" THEN env[v] ELSE "unset"]
  /\ Goto(IF names' = {} THEN "prepared" ELSE "clear")
  /\ UNCHANGED <<current, target, position, trouble>>

\* clear_environment
Clear ==
  /\ pc = "clear" /\ \E v \in names :
       names' = names \ {v} /\ env' = [env EXCEPT ![v] = "unset"]
  /\ Goto(IF names' = {} THEN "prepared" ELSE "clear")
  /\ UNCHANGED <<current, target, position, trouble>>

ClearFails == pc = "clear" /\ Fail

ReadDirectory ==
  /\ pc = "directory" /\ Goto("alternates")
  /\ UNCHANGED <<env, names, current, target, position, trouble>>

ReadDirectoryFails == pc = "directory" /\ Fail

\* preserve_alternates: git itself says where the alternates are.
PreserveAlternates ==
  /\ pc = "alternates" /\ Goto("preserve")
  /\ env' = [env EXCEPT ![Alternates] = Meaning(env, Alternates, cwd)]
  /\ UNCHANGED <<names, current, target, position, trouble>>

PreserveAlternatesFails ==
  /\ pc = "alternates" /\ env[Alternates] \notin {"unset", "empty"}
  /\ Fail

\* Seeded fault: the loop ends one variable early.
PreservePathShort ==
  /\ pc = "preserve" /\ position <= Len(PathVariables)
  /\ LET v == PathVariables[position]
     IN  env' = [env EXCEPT ![v] = IF env[v] = "relative" THEN cwd ELSE env[v]]
  /\ Goto(IF position + 1 = Len(PathVariables) THEN "prepared" ELSE "preserve")
  /\ position' = position + 1
  /\ UNCHANGED <<names, current, target, trouble>>

\* preserve_relative_paths, make_absolute
PreservePath ==
  /\ pc = "preserve" /\ position <= Len(PathVariables)
  /\ LET v == PathVariables[position]
     IN  env' = [env EXCEPT ![v] = IF env[v] = "relative" THEN cwd ELSE env[v]]
  /\ Goto(IF position = Len(PathVariables) THEN "prepared" ELSE "preserve")
  /\ position' = position + 1
  /\ UNCHANGED <<names, current, target, trouble>>

PreservePathFails ==
  /\ pc = "preserve" /\ env[PathVariables[position]] = "relative"
  /\ Fail

--------------------------------------------------------------------------------
(* The callers *)

\* Seeded fault: the result of the preparation is not looked at.
AskAnyway ==
  /\ pc \in {"prepared", "failed"}
  /\ pc' = "asked" /\ UNCHANGED <<world, env, names, current, target, position, trouble>>
  /\ base' = IF use = "targets" /\ Repository(env, root) # "none"
             THEN WorkTree(env, root) ELSE root

\* The queries of a batch command, or git rev-parse --show-toplevel, at --root.
Ask ==
  /\ pc = "prepared"
  /\ pc' = "asked" /\ UNCHANGED <<world, env, names, current, target, position, trouble>>
  /\ base' = IF use = "targets" /\ Repository(env, root) # "none"
             THEN WorkTree(env, root) ELSE root

AskFails ==
  /\ pc = "prepared"
  /\ pc' = (IF use = "batch" THEN "error" ELSE "done") /\ trouble' = TRUE
  /\ UNCHANGED <<world, env, names, current, target, position, base>>

\* Exit status 2, or a check whose targets are relative to --root.
GiveUp ==
  /\ pc = "failed"
  /\ Goto(IF use = "batch" THEN "error" ELSE "done")
  /\ UNCHANGED <<env, names, current, target, position, trouble>>

Finish ==
  /\ pc = "asked" /\ Goto("done")
  /\ UNCHANGED <<env, names, current, target, position, trouble>>

Finished == pc \in {"error", "done"} /\ UNCHANGED vars

Next ==
  \/ ReadEnvironment \/ ReadFails \/ FindCurrent \/ FindTarget \/ QueryFails \/ Compare
  \/ Clear \/ ClearFails \/ ReadDirectory \/ ReadDirectoryFails
  \/ PreserveAlternates \/ PreserveAlternatesFails \/ PreservePath \/ PreservePathFails
  \/ Ask \/ AskFails \/ GiveUp \/ Finish \/ Finished

Spec == Init /\ [][Next]_vars

--------------------------------------------------------------------------------
(* Properties *)

TypeOK ==
  /\ use \in {"batch", "targets"} /\ {cwd, root} \subseteq Directories
  /\ named \in Repositories /\ given \in [Variables -> GivenValues]
  /\ env \in [Variables -> Values] /\ pc \in Steps /\ names \subseteq Variables
  /\ {current, target} \subseteq Repositories
  /\ position \in 1..(Len(PathVariables) + 1)
  /\ base \in Values /\ trouble \in BOOLEAN

\* Whatever the caller exports and whichever call fails, git is only ever asked
\* about the repository --root is in, never about the caller's (README.md "With
\* --staged or --base, Git reads the repository containing --root").
AsksAboutRoot == pc = "asked" => Repository(env, root) = RepositoryOf[root]

\* When git is asked, either every variable of the caller is gone or those with a
\* path no longer depend on the directory, up to the alternates git resolves;
\* an environment between the two is never used.
NothingHalfPrepared ==
  pc = "asked" =>
    \/ env = Cleared
    \/ \A v \in Variables \ {"GIT_PREFIX"} : env[v] # "relative"

\* Variables of another repository do not reach the queries at --root
\* (README.md "inherited from another repository are cleared").
ForeignVariablesCleared ==
  pc = "asked" /\ Repository(given, cwd) # RepositoryOf[root] => env = Cleared

\* What the caller exports is enough to say which directory is the work tree.
WorkTreeKnown ==
  given["GIT_DIR"] = "unset" \/ given["GIT_WORK_TREE"] # "unset" \/ root = cwd

\* The caller runs where git opens the files its variables name.
AtWorkTree == WorkTree(given, cwd) = cwd

\* In the repository of the caller every variable means at --root what it meant to
\* the caller, unless a call failed: README.md "preserved when checking the same
\* repository, including when --root names a subdirectory".  Excepted are the work
\* tree git guesses from its directory, and relative files from a subdirectory.
CallersMeaningKept ==
  /\ pc = "asked" /\ ~trouble
  /\ Repository(given, cwd) = RepositoryOf[root] /\ RepositoryOf[root] # "none"
  => /\ WorkTreeKnown => WorkTree(env, root) = WorkTree(given, cwd)
     /\ \A v \in Variables \ {"GIT_PREFIX"} :
          v \notin OpenedLater \ {Alternates} \/ AtWorkTree =>
            Meaning(env, v, root) = Meaning(given, v, cwd)

\* Targets in the working tree are relative to the top of the repository
\* containing --root, or the work tree the caller has chosen for it, and outside
\* Git to --root, unless a call failed (README.md "Counterpart files").
TargetsPlaced ==
  pc = "done" /\ use = "targets" /\ ~trouble /\ WorkTreeKnown =>
    base = IF RepositoryOf[root] = "none" THEN root
           ELSE IF Repository(given, cwd) = RepositoryOf[root] THEN WorkTree(given, cwd)
           ELSE TopOf[root]

\* The same as README.md has it: "Working-tree targets are relative to the Git
\* repository containing --root, even when checking from a subdirectory".
TargetsAtTop ==
  /\ pc = "done" /\ use = "targets" /\ ~trouble /\ cwd = TopOf[cwd]
  /\ given["GIT_WORK_TREE"] = "unset" /\ RepositoryOf[root] # "none"
  => base = TopOf[root]

================================================================================
