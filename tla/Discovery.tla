------------------------------- MODULE Discovery -------------------------------
(***************************************************************************)
(* Which configuration a run uses when none is named: the climb of         *)
(* src/src/discover.c from the lint root towards "/", and what             *)
(* src/src/config.c does with the place it ends at.                        *)
(*                                                                         *)
(* Directory 0 is "/", directory Depth the lint root, and each directory   *)
(* is the parent of the next.  A place is a directory with one of the      *)
(* configuration names, by its number in config_names.  Another process    *)
(* may add and remove configurations at any moment.                        *)
(***************************************************************************)
EXTENDS Integers, FiniteSets

CONSTANTS Depth,        \* directories above the lint root
          NameCount,    \* config_name_count
          Unsupported,  \* the names whose format cannot be read (YAML)
          Dangling,     \* the places that hold a symbolic link to nothing, if anything
          WorkTrees,    \* the configurations in the working tree at the start
          Indexes,      \* the configurations in the index at the start
          GitRoots,     \* the directories in which .git exists
          MaxMoves      \* bound: how often another process writes

Directories == 0..Depth
Names == 1..NameCount
Places == Directories \X Names

ASSUME DepthAssumption == Depth \in Nat
ASSUME NameCountAssumption == NameCount \in Nat \ {0}
ASSUME UnsupportedAssumption == Unsupported \subseteq Names
ASSUME PlacesAssumption ==
  /\ Dangling \subseteq Places
  /\ WorkTrees \subseteq SUBSET Places /\ Indexes \subseteq SUBSET Places
ASSUME GitRootsAssumption == GitRoots \subseteq SUBSET Directories
ASSUME MaxMovesAssumption == MaxMoves \in Nat

VARIABLES staged,     \* the run is check --staged
          entries,    \* the places that config_path_missing() does not call missing
          index,      \* the places git has in its index
          git,        \* the directories that are repository roots
          moves,      \* how often another process wrote
          step,       \* where the run is
          directory,  \* the directory in hand
          name,       \* the name in hand
          found,      \* the name found in this directory, or 0
          error,      \* what config->error is about, or "none"
          always,     \* the places that have been in entries from the start
          unread,     \* the directories in which the path of .git was not allocated
          trouble     \* a call failed that ended the run

vars == <<staged, entries, index, git, moves, step, directory, name, found, error, always,
          unread, trouble>>

Steps == {"start", "look", "stop", "format", "open", "track", "show", "loaded", "failed"}
Errors == {"none", "root", "memory", "conflict", "nothing found", "format",
           "open", "not staged", "git"}

TypeOK ==
  /\ staged \in BOOLEAN /\ trouble \in BOOLEAN /\ moves \in 0..MaxMoves
  /\ entries \subseteq Places /\ index \subseteq Places /\ always \subseteq entries
  /\ git \subseteq Directories /\ unread \subseteq Directories
  /\ step \in Steps /\ error \in Errors
  /\ directory \in Directories /\ name \in 1..(NameCount + 1) /\ found \in 0..NameCount

Init ==
  /\ staged \in BOOLEAN
  /\ entries \in WorkTrees /\ index \in Indexes /\ git \in GitRoots
  /\ moves = 0 /\ always = entries /\ unread = {} /\ trouble = FALSE
  /\ step = "start" /\ directory = Depth /\ name = 1 /\ found = 0 /\ error = "none"

world == <<staged, entries, index, git, moves, always, unread>>

Fail(what) ==
  /\ step' = "failed" /\ error' = what
  /\ UNCHANGED <<world, directory, name, found>>

\* What the run has found ends it ...
Refuse(what) == Fail(what) /\ UNCHANGED trouble
\* ... or a call does that fails, whatever is there.
Break(what) == Fail(what) /\ trouble' = TRUE

Goto(next) ==
  /\ step' = next
  /\ UNCHANGED <<world, directory, name, found, error, trouble>>

--------------------------------------------------------------------------------
(* Another process: one file in the working tree or in the index *)

Write ==
  /\ moves < MaxMoves /\ step \notin {"loaded", "failed"}
  /\ moves' = moves + 1
  /\ \E place \in Places :
       \/ entries' \in {entries \cup {place}, entries \ {place}} /\ UNCHANGED index
       \/ index' \in {index \cup {place}, index \ {place}} /\ UNCHANGED entries
  /\ always' = always \cap entries'
  /\ UNCHANGED <<staged, git, step, directory, name, found, error, unread, trouble>>

--------------------------------------------------------------------------------
(* fs_lint_discover_config *)

ResolveRoot == step = "start" /\ Goto("look")
ResolveRootFails == step = "start" /\ Break("root")

OnName == step = "look" /\ name <= NameCount
Here == <<directory, name>>

\* lstat() says that there is nothing at this place.
NameMissing ==
  /\ OnName /\ Here \notin entries
  /\ name' = name + 1
  /\ UNCHANGED <<world, step, directory, found, error, trouble>>

\* Seeded fault: stat() instead of lstat(), so that a dangling link is passed by.
NameFoundFollowingLinks ==
  /\ OnName /\ Here \in entries
  /\ found' = IF Here \in Dangling THEN found ELSE name
  /\ found = 0 \/ Here \in Dangling
  /\ name' = name + 1
  /\ UNCHANGED <<world, step, directory, error, trouble>>

NameFound ==
  /\ OnName /\ Here \in entries /\ found = 0
  /\ found' = name /\ name' = name + 1
  /\ UNCHANGED <<world, step, directory, error, trouble>>

\* reject_conflict
NameConflicts == OnName /\ Here \in entries /\ found # 0 /\ Refuse("conflict")

\* join_path() of a candidate.
NameFails == OnName /\ Break("memory")

AllNamesSeen == step = "look" /\ name > NameCount

DirectoryDecides == AllNamesSeen /\ found # 0 /\ Goto("format")

DirectoryEmpty == AllNamesSeen /\ found = 0 /\ Goto("stop")

\* Seeded faults: only a repository root ends the climb, or only "/".
ShouldStopInRepository == directory \in git
ShouldStopAtTop == directory = 0

ShouldStop == directory \in git \/ directory = 0

Stop == step = "stop" /\ ShouldStop /\ Refuse("nothing found")

\* move_to_parent: the parent of "/" is "/".
Climb ==
  /\ directory' = IF directory = 0 THEN 0 ELSE directory - 1
  /\ name' = 1 /\ step' = "look"
  /\ UNCHANGED <<staged, entries, index, git, moves, always, found, error, trouble>>

ClimbOutside == step = "stop" /\ ~ShouldStop /\ Climb /\ UNCHANGED unread

\* reached_repository_root is false as well when the path of .git cannot be
\* allocated.
ClimbUnknowing ==
  /\ step = "stop" /\ directory # 0 /\ Climb
  /\ unread' = unread \cup {directory}

--------------------------------------------------------------------------------
(* cli_config_load and cli_config_load_staged *)

Place == <<directory, found>>

ReadFormat ==
  /\ step = "format" /\ found \notin Unsupported
  /\ Goto(IF staged THEN "track" ELSE "open")

RefuseFormat == step = "format" /\ found \in Unsupported /\ Refuse("format")

\* parse_config_path; what the text says is left to the parsers.
Open == step = "open" /\ Place \in entries \ Dangling /\ Goto("loaded")
OpenMissing == step = "open" /\ Place \notin entries \ Dangling /\ Refuse("open")
OpenFails == step = "open" /\ Break("open")

\* git run at the lint root works in the nearest repository.
InRepository == git # {} /\ \A root \in git : root <= directory

Tracked == InRepository /\ Place \in index

\* git_index_path: git ls-files names the place when the index has it.
Track == step = "track" /\ Tracked /\ Goto("show")

\* Seeded fault: a configuration that is not staged is read from the working tree.
NotTrackedReadsFile == step = "track" /\ ~Tracked /\ Goto("open")

\* It names nothing, or fails: parse_staged_config reports both alike.
NotTracked == step = "track" /\ ~Tracked /\ Refuse("not staged")
TrackFails == step = "track" /\ Break("not staged")

\* git show prints what the index has by then.
Show == step = "show" /\ Place \in index /\ Goto("loaded")
ShowMissing == step = "show" /\ Place \notin index /\ Refuse("git")
ShowFails == step = "show" /\ Break("git")

Discover ==
  \/ ResolveRoot \/ ResolveRootFails
  \/ NameMissing \/ NameFound \/ NameConflicts \/ NameFails
  \/ DirectoryDecides \/ DirectoryEmpty
  \/ Stop \/ ClimbOutside \/ ClimbUnknowing

Load == \/ ReadFormat \/ RefuseFormat \/ Open \/ OpenMissing \/ OpenFails
        \/ Track \/ NotTracked \/ TrackFails \/ Show \/ ShowMissing \/ ShowFails

Finished == step \in {"loaded", "failed"} /\ UNCHANGED vars

Next == Discover \/ Load \/ Write \/ Finished

Spec == Init /\ [][Next]_vars

FairSpec == Spec /\ WF_vars(Discover \/ Load)

--------------------------------------------------------------------------------
(* Properties *)

\* A directory has decided, or is about to.
Decided == step \in {"format", "open", "track", "show", "loaded"}

\* The climb passes by no configuration that is there all the time, a dangling
\* link included ("discovery does not skip it to use a parent configuration",
\* README "fs-lint"), whatever another process does to the others: nothing
\* nearer than the directory in hand, nothing in it when the answer is that
\* there is nothing, and no second one beside the one that is used.
ClimbIsThorough ==
  \A d \in Directories, n \in Names : <<d, n>> \in always =>
    /\ d <= directory
    /\ error = "nothing found" => d < directory
    /\ Decided /\ d = directory => n = found

\* The directories from the lint root up to the root of its repository, or to "/",
\* and the configurations each of them has in the working tree.
Reach == {d \in Directories : \A root \in git : root <= d}
NamesIn(d) == {n \in Names : <<d, n>> \in entries}
Nearest(d) ==
  /\ d \in Reach /\ NamesIn(d) # {}
  /\ \A other \in Reach : other > d => NamesIn(other) = {}

\* The answer to a lint root whose nearest configuration is name n of directory d.
Answer(d, n) ==
  IF n \in Unsupported THEN "format"
  ELSE IF ~staged THEN IF <<d, n>> \in Dangling THEN "open" ELSE "none"
  ELSE IF git # {} /\ <<d, n>> \in index THEN "none" ELSE "not staged"

\* Where nobody writes and no call fails, a run is answered from the nearest
\* directory with a configuration and from nowhere else: two in it are an error,
\* and check --staged takes the one that is staged there, or none.  Which one that
\* is, is the working tree's to say, not the index's: one that is only in the
\* index is passed by, and one that is only in the working tree ends the run
\* (config.c cli_config_load_staged).
AnsweredFromNearest ==
  step \in {"loaded", "failed"} /\ moves = 0 /\ unread = {} /\ ~trouble =>
    \/ error = "nothing found" /\ \A d \in Reach : NamesIn(d) = {}
    \/ \E d \in Directories :
         /\ Nearest(d)
         /\ \/ error = "conflict" /\ \E m, n \in NamesIn(d) : m # n
            \/ \E n \in Names :
                 /\ NamesIn(d) = {n} /\ error = Answer(d, n)
                 /\ step = "loaded" => Place = <<d, n>>

\* "Searches upward from the current directory to the Git repository root or
\* filesystem root" (README.md:145): nothing outside a repository is used,
\* except where reached_repository_root had no memory for the path of .git.
StaysInRepository == \A root \in git : root <= directory \/ root \in unread

\* The climb ends, also above every repository.
Ends == <>(step \in {"loaded", "failed"})

================================================================================
