# fs-lint: a TLA+ model of the program

fs-lint checks whether proposed files are allowed in a repository. One run
collects a list of changes (command line arguments, standard input, the index,
or the difference from another ref), loads a configuration, judges the changes
by allow patterns and by counterpart rules, prints a diagnostic for each
rejected path, and ends with exit status 0, 1 or 2.

This directory holds TLA+ modules of the parts of that program whose behaviour
is hard to test, the TLC configurations that check them, and proofs that hold
for every value of their constants. Paths such as `src/src/config.c` are
relative to the directory above this one; `PROJECT.json` maps every definition
to the lines it stands for, and lists the hazards the properties are aimed at.

    tlc -workers 2 -config GitPipe_changes.cfg GitPipe     # check one instance
    tlapm ConfigCapture_proofs.tla                         # check the proofs

## The system

fs-lint is a single-threaded process. Its concurrency is with the git processes
it forks and with whatever else writes the repository during a run.

| Component | State | Operations | Properties that make it correct |
|---|---|---|---|
| Command runs (`main.c`) | parsed arguments, list of changes, configuration, exit status | parse, prepare git's environment, read changes, load configuration, check, exit | the accepted command lines are those of the usage text and nothing they say is lost; the exit status agrees with what was printed; an error ends the run; the result is the judgement of one repository when nobody writes it |
| Git queries (`changes.c`) | pipe, child process, buffers, growing lists of changes and paths | start git, read its NUL-terminated output, reap it; the lists for `--staged`, `--base`, `--stdin0` and the snapshots | an answer is git's whole output or a failure; no child or descriptor is left; every query ends; a list is exactly the fields of its stream |
| Configuration (`config.c`) | growing buffer of the captured text, patterns and rules | load a file, capture a staged file, parse JSON or TOML, append the patterns of `--allow` and `--deny` | the text is whole or refused at the limit, also while another process writes the file; the buffer is never overrun; limits hold for the patterns of both sources together; the policy has all patterns in order; what is freed is what is held |
| Discovery (`discover.c`) | the directory of the climb | look for the five names in each directory up to the repository root | the nearest directory with a configuration decides; two in one directory are an error; the climb ends, inside the repository |
| Policy library (`fs-lint.c`) | none beyond its arguments | validate changes and patterns, judge each addition | every denied addition is reported once, in order; nothing is reported when anything is invalid |
| Glob matcher (`glob.c`) | patterns and four scratch arrays, used again for each pattern and path | create, prepare a pattern, walk a path, destroy | the verdict is the documented meaning of the patterns, whatever the matcher was asked before |
| Counterpart check (`counterparts.c`) | snapshot of the files of the index or of HEAD | map a change through each rule, look for the targets, report the first missing one | a change is reported exactly when no matching rule finds its target |
| Git environment (`git_environment.c`) | the process environment | find git's variables that are set, compare the repository of the caller with that of `--root`, make the variables absolute for the same one, clear them for another | git is asked about the repository of `--root` only, never in an environment between two forms; the caller's variables keep their meaning in its own repository and do not reach another |
| Diagnostic output (`cli_output.c`) | none | one line of text or JSON for each diagnostic | a path cannot break the line or be read as another |
| Release (`scripts/release.sh`, `release.yml`) | releases, the tap's main branch, its release branches and pull requests | publish, verify, check out the tap, commit the formula, push with a lease, open a pull request | the tap never points at assets that are not published; nobody's branch is replaced; a release that was overtaken does not go back; a repeated release ends with its pull request |

How they interact: `main.c` calls the others in turn. `changes.c`, `config.c` and
`git_environment.c` each fork git, the first two over a pipe, the third into a
temporary file. A run prepares git's environment once, before its first query:
a batch command at its start, a check of paths when its counterparts are looked
for. `fs-lint.c` builds a glob matcher for each run and calls back
into `cli_output.c` for each violation. The changes, the configuration and the
counterpart snapshot are read by separate git processes, so the repository can
change between any two of them.

What is hard about it: two processes and a bounded pipe, in which the reader may
give up while the writer has not finished; the order of closing, waiting and
judging on every error path; arrays used again without an allocation between;
doubling buffers at their limits; brace groups in patterns; reports that are
printed before it is known how the run ends; the several reads of a repository
that somebody else writes; variables written for one directory and read in
another; and a release of several steps, any of which can fail, that is run
again or overlaps another.

## Modules

| Module | Stands for | Uses |
|---|---|---|
| `GitQuery` | what a caller of git is promised: one question, one answer | |
| `GitPipe` | fork, pipe, read and wait in `changes.c` and `config.c`; implements `GitQuery` | |
| `ConfigCapture` | `capture_git` and its growing buffer, on the pipe of `GitPipe` | `GitPipe` |
| `ChangeReader` | the readers of NUL-terminated lists in `changes.c` | |
| `Glob` | the matcher of `glob.c` | |
| `Discovery` | the climb of `discover.c`, and the two loads of `config.c` that use its result | |
| `LintVerdict` | what a run promises about one state of the repository | |
| `CheckRun` | `main.c` after parsing, `fs-lint.c` and `counterparts.c` in one run, and what is printed of the path of a report; implements `LintVerdict` | `Output` |
| `Output` | the encoding of paths in `cli_output.c`, and reading it back | |
| `CommandLine` | the argument parser of `main.c` | |
| `ConfigFile` | reading a configuration file of the working tree | |
| `PolicyPatterns` | the way of the patterns from file and command line into one policy; composes the parser and the file | `CommandLine`, `ConfigFile` |
| `GitEnvironment` | `git_environment.c` and its two callers | |
| `Release` | `scripts/release.sh` and `.github/workflows/release.yml` | |
| `MCChangeReader`, `MCGlob`, `MCDiscovery`, `MCPolicyPatterns`, `MCGitEnvironment`, `MCRelease` | inputs and reference definitions for TLC | the module of their name |
| `MCCheckRun` | inputs | `CheckRun` |
| `ConfigCapture_proofs`, `ChangeReader_proofs`, `Glob_proofs`, `Discovery_proofs`, `CheckRun_proofs`, `PolicyPatterns_proofs`, `GitEnvironment_proofs`, `Release_proofs` | theorems and proofs; those about `GitPipe` are in `ConfigCapture_proofs` | the module of their name |

Definitions under a comment "Seeded fault" are not part of the model. Each is a
variant of the definition after it, with an error that somebody could make in
that code; `PROJECT.json` names the property that tells the two apart.

### GitPipe and GitQuery

The state is what the two processes and the kernel know of one query: where
fs-lint is in `read_git` (`parent`), what became of the child (`child`), who
holds which end of the pipe (`readers`, `writers`), and the units in the pipe,
written by git and accepted by the reader. A write blocks on a full pipe as
long as anybody holds the read end, *the child itself included*; it kills git
when nobody does; the end of the output is seen when nobody holds the write
end. Descriptors inherited through `fork()` are therefore part of the state, and
the constant `ChildClosesReadEnd` is the one difference between the copy in
`changes.c` (which closes it at line 127) and the one in `config.c` (which does
not).

What the reader makes of the units is left open: at any point it may accept,
refuse or fail. `pipe()`, `fork()`, the setup of the child, `read()` and git
itself may fail too. Several system calls that no other process can observe
between are one action: `Fork` with the descriptors the child inherits, `Exec`
with `dup2()`, `close()`, `chdir()` and `execvp()`. Standard error goes to a
temporary file or to `/dev/null` and cannot block.

`GitQuery` keeps only the question, whether a git runs, and the answer: all of
git's output or none, given when no git is running any more.

### ConfigCapture

Adds `capacity` and `error` to `GitPipe`; `received` is the length of the text in
the buffer. `Grown` is the loop of `grow_output` in closed form: the smallest
doubling of the present capacity, or of the first one, that holds the text and its
NUL. The text is refused when the loop would have to double more than half of the
limit (`CannotGrow`). The limit is assumed to be a doubling of the first capacity, as 1048576 is of
4096: with another one the loop could give up on a text that `append_output` had let
through.

### ChangeReader

One action for each outcome of one `fgetc()`. A stream is a sequence over three
characters: NUL, one that a header recognised by `read_file_mode` begins with,
and any other. A path that was kept is the interval of the stream it was copied
from, so that "the right path" is a statement about places and not about text.
Mode `names` is `cli_changes_read_nul`; mode `raw` is `read_files`, where a header
and a path alternate. What the reader should make of a stream is defined from the
stream alone: `Fields` are the pieces between its NULs, `Kept` those that count, by
the number of NULs before a piece and by the piece before it, and `WellFormed` says
which streams are to be accepted.

### Glob

The scratch arrays `current` and `next` are sets of pattern positions, and
`braceEnds` and `jumps` are functions that hold 0 for "none", as in the code.
`Prepare` is `prepare_pattern` with the first `add_open_state`, `Consume` is one
character of the path, `Decide` the end of `matches_pattern`. The recursive
`add_state` is the closure `Reached`. `GroupCloses` is translated from
`find_brace_group_at` as it stands, with the closing braces it passes over.

What a pattern means is `Described`, without a set of states: index after index of the
pattern, the beginnings of the path that it describes up to there. `TokenAllows` says
for each token of the repository's table of glob syntax what it allows (`*`: nothing with
a separator in it; `**/`: nothing, or whatever ends with a separator), and `Turns` where the reading goes on: behind
the token, or, at a brace or comma of a group, at an alternative or behind the group.
Which brace closes which group is taken from `braceEnds` and `jumps`.

### Discovery

Directories are numbered from "/" (0) to the lint root (`Depth`), and a place is a
directory with one of the `config_names`. Each `lstat()` is an action
(`NameMissing`, `NameFound`, `NameConflicts`), since another process may add or
remove a configuration between two of them; `always` is a history variable with
the places that have been there from the start, the only ones that a search
without a lock can be held to. `DirectoryDecides` and `DirectoryEmpty` end
`find_in_directory`; `Stop`, `ClimbOutside` and `ClimbUnknowing` are what
`find_from_directory` then does: `ClimbUnknowing` is the answer "no" of
`reached_repository_root` when the path of `.git` cannot be allocated, and `unread` is a history
variable with the directories where that happened. After the climb, `Open` and its
failures are `cli_config_load`, and `Track`, `Show` and theirs are
`cli_config_load_staged`, with the index read once by `git ls-files` and once by
`git show`. A run that ends because of what is there (`OpenMissing`, `NotTracked`,
`ShowMissing` and the other steps that `Refuse`) is told apart from one that ends because a
call failed (`OpenFails`, `TrackFails`, `ShowFails` and the others that `Break`): the history
variable `trouble` remembers the second kind, since an answer can be held against
the repository only without it.

### CheckRun and LintVerdict

`step` is the place in `run_checks` and below. A configuration is what the checks
make of it: whether there are patterns, which paths the patterns and the
default deny (the subject of `Glob`), and the counterpart rules as functions from
paths to a target, "no match" or "invalid". The tree is what the run reads:
the changes at `LoadChanges`, the configuration at `LoadConfig`, the targets at
`BeginCounterparts` for git's snapshots or at each rule for a working tree.
A tree that is `shared` may be replaced by another process between any two steps; the
history variable `past` keeps the trees there have been, and its places are the moments
at which a run can have read something. `ReportsHadCause` holds a run on such a
repository to them: its changes are of one moment, its configuration of that or a
later one, and its verdict on the targets of a moment later still.
The kinds "modified" and "deleted" never come from the command line; the library
and the counterpart check handle them, so the model does.

`LintVerdict` says what a run is for: the judgement of one tree, or 2. The
mapping hides a run on a shared tree (`NoTree`, no verdict): it has read several
states of the repository and is the judgement of none of them.

### Output

A text is a sequence of bytes. `Written` is `write_utf8_string` with the escapes
of either format, `SequenceLength` the classification of `utf8_sequence_length`
case by case. The reference reads UTF-8 by what it encodes (`Encodes`: the number,
not overlong, no surrogate, at most U+10FFFF) and takes escapes back (`ReadBack`).
Each of these loops goes over the places of a text and takes one or more bytes in a
step; `Remaining` is what such a loop has yet to print, from each place on, and
`Joined` what it prints in all. `Faithful` says what must hold of the two forms of a
text; `Texts` are the texts TLC looks at, any set of them in the theorems.
Byte arithmetic is done on integers; no byte has to be written as a character.

### CommandLine, ConfigFile and PolicyPatterns

`CommandLine` has one action for each way `parse_arguments` takes a word. A word is
a model value of a set; `Dashed` and `Banged` say which begin with `-` or `!`, which
is all the parser looks at. The growing arrays keep their length and capacity,
since only a full one can fail to grow (`ParserFails`). Next to the parser the module
reads the same command line in another way, without its one pass and its variables:
`Roles` tells the values of options from the other words, and by the first separator
and the first command the places of a line are options, commands and paths; `InOrder` and
`LastGiven` pick out what was said there. `LineAsWritten` compares the two.

`ConfigFile` is the open file while `load_config_data` measures and reads it. A unit
of text is the number of the write it comes from, and `written` and `original` are
history variables. `Grow`, `Shrink` and `Overwrite` are another process.

`PolicyPatterns` goes on to the slots of `owned_allow_patterns`. A slot holds a
pattern, the null pointer of `calloc()`, or what `realloc()` left there (`Garbage`);
`Within` is the unsigned comparison with the limit as the code writes it. Its three
parts run one after another, and only the other process interleaves; parts that are
over are forgotten (`Close`).

### GitEnvironment

The value of a variable is unset, empty, a relative path, an absolute path of the
caller, or a path fs-lint has put into a directory, which is all that decides its
meaning: `Meaning(env, v, d)` is the directory a variable leads to when git starts
in `d`, with the difference between files opened before and after git moves to the
top of the work tree (`OpenedLater`). `WorkTree` and `Repository` are git itself, as
documented, and external. `SetVariables` stands for `git rev-parse --local-env-vars`,
`GIT_PREFIX` for the local variables without a path. A query of git is one step
here: it writes into a temporary file and cannot block. Every call may fail, and
`trouble` remembers that one did.

### Release

A run of the workflow is a process with its place (`phase`), the release it is for
(`version`) and the revision of the tap it works on; a tree of the tap is the version
it packages, since formula, README section and package are committed together.
`Push` is `git push --force-with-lease` from a checkout that knows no remote branch
of that name: it succeeds when there is none. Runs overlap, and each step of each
may fail or be cancelled (`Fail`). The maintainers merge, close, open, amend and
delete, and change other things in the tap. GitHub's and git's side is external:
a release and a pull request exist once, and a merge conflicts unless main still
has what the request replaces, or already has its result.

## What is checked

| Run | Bounds | Shows |
|---|---|---|
| `git_pipe` | pipe of 2 units, outputs of 0 to 5 | every query is answered once, with the whole output of a successful git, no child or descriptor is left, and `GitQuery` is implemented, under every interleaving and failure |
| `config_capture` | limit 8, first capacity 2, reads of up to 2, pipe of 3, outputs of 0 to 12 | the buffer always holds the text and its NUL; a text that is used is whole; a refusal means at least the limit was read; only a refused output larger than the pipe can stay unanswered |
| `config_capture_oversized` | the same | **violated**: see finding 1 |
| `change_reader` | all streams of up to 6 characters, up to 3 raw records, up to 5 paths; paths of up to 2, lists of up to 3 and 2 | no overrun, an accepted list is exactly the fields a reference definition finds, in order, and nothing well formed is refused |
| `glob` | all patterns of up to 5 over `a / * ?` with all paths of up to 3 over `a / \`; up to 3 of 8 pieces with nested, empty and unclosed groups, paths of up to 3; lists of up to 3 of 5 patterns, 2 paths in turn, both defaults | the walk agrees with the documented syntax, at each of its points; brace groups mean the union of their alternatives; the last match decides; nothing left in the scratch arrays has a part in it |
| `check_run` | every tree of up to 2 changes of 3 kinds, up to 2 of 3 rules, 2 targets that exist, are missing or cannot be inspected, all 5 commands; 18 further trees replaced by one another up to twice, one path not normalized; texts of up to 3 of 19 bytes at the borders of UTF-8, and of 4 after a four-byte lead | the reports are exactly the denied additions and the orphans, the exit status agrees with them and both only grow, whoever writes the repository; on a tree nobody writes the exit status is the judgement of the tree or 2; what is said of a repository that somebody writes was so, part by part, at moments of the run in the order of its reads; what is printed of a path is one line of UTF-8 that can be read back |
| `discovery` | 3 directories, 3 names of which one is YAML, one dangling link, up to 2 configurations in the working tree and 1 in the index, no repository, one, or one inside another, one write by another process | the climb ends; it passes by no configuration that is there all the time; it leaves a repository only where the path of `.git` could not be allocated; undisturbed, every run is answered from the nearest directory with a configuration and from no other, also where working tree and index disagree |
| `environment` | the top of a work tree, a directory inside it, another repository and a directory outside Git, in any combination as the caller's and as `--root`; up to 3 of 6 variables set | git is asked about the repository of `--root` only and never in a half-written environment; foreign variables are gone; the caller's keep their meaning; targets are looked for at the top |
| `environment_subdirectory` | the same | **violated**: see finding 2 |
| `invocation` | every command line of up to 4 of 15 words, and lists of up to 4 patterns, with 22 lists in the file of which one is too long; arrays that grow from 2, limits of 4 patterns, 6 bytes, and 3 bytes for each; files of 0 and 2 units and of one above the limit of 2, 2 writes | the parser accepts what the usage text says and hands on what it was given; a file is read whole; both sources share the limits; what is freed is what is held; the patterns are in order |
| `release` | 3 runs, 2 releases, up to 3 revisions of main; symmetric in the runs | nothing in the tap points at assets that are not published, no branch is replaced, an overtaken release does not go back |
| `release_retry` | 2 runs, 1 release, up to 3 revisions of main | **violated**: see finding 3 |

Why the bounds are enough. In `GitPipe` the pipe must fill, drain and fill again,
and git must be left blocked with an output that fits, just fits and does not
fit: 5 units and a pipe of 2 have all of these. In `ConfigCapture` the buffer
doubles twice before it meets the limit (2, 4, 8), texts end one below, at and
above each capacity, and an output can outgrow limit and pipe together. In
`ChangeReader` a path can be one below, at and one above the length limit, the list
grows from 2 to its limit of 3 by a cut doubling, and in mode `raw` the two limits
coincide. In `Glob` five characters hold every pair of wildcards with a neighbour
on either side, and both the empty and the repeated match. In `Discovery` three
directories have a nearest, a middle and a farthest one and a repository root
that is each of these, two configurations can meet in one directory or lie in two,
and one write can come between any two steps. In `CheckRun` two
rules and two targets give each order of hit, miss and error, and two changes
show whether one disturbs the next; the proofs cover longer lists. In
`PolicyPatterns` the file alone can be below, at and above each limit, and so can
file and command line together, a pattern can be empty, fit or be too long by the
`!` of `--deny`, and each array grows from empty and once more; four words hold a
command, an option with its value and one more word in any order, and two writes
a file that grows and shrinks back. In `GitEnvironment` three variables can be a
git directory, a work tree and an index at once, and the proofs cover all
environments. In `Release` three runs are a release, its retry and one
of another release between them, and three revisions a merge and an unrelated
change.

### Fairness

`GitPipe`, `ConfigCapture` and `Discovery` have liveness properties. In
`Discovery` the run is weakly fair in its next step, whatever its outcome: each step
is a system call or an allocation that returns. The other process is not fair.
In the other two each process is
weakly fair in its own steps: the kernel schedules a process that can run, a
read returns when there is data or an end, and git goes on writing while it is
not blocked and exits when it has written all. No failure is relied on: reads
that fail, allocations that fail and a git that breaks off may happen and are
not fair. A weakly fair process is one that is not stopped for ever; nothing
more is assumed, since the code has no timeouts.

Deadlock is checked except in two models. In `ConfigCapture` both processes can stop
for good; the property of `config_capture` says exactly when. In `Release` the runs
end, and main does not grow beyond its bound. `Release`, `PolicyPatterns`,
`GitEnvironment` and `CheckRun` state no liveness: a step of a release may be
cancelled at any time, and the others are loops with a counter in which
each step ends, or fails and gives up.

What of this the prover can do is proved. `StepsLeft` is a number that every step of a query
or of the search makes smaller (`QueryShortens`, `SearchShortens`), so no behaviour
takes steps for ever. That somebody can take one is `QueryNotStuck`: the guards of all
steps are false together only at the end or in `Blocked`, where git is blocked on a pipe
whose last read end is its own. `ReadEndGone`, that git runs without that end in the copy of
`changes.c`, rules it out there, and `OnlyRefusedLargeIsStuck` says when it happens in
the other. What is left to TLC is the last step, from "can" to "does", which is the fairness.

## What is proved

| Theorem | Says |
|---|---|
| `GitPipeInvariant` | the inductive invariant of the pipe protocol |
| `WholeOutput`, `ChildReaped`, `DescriptorsClosed` | the three safety properties, for every capacity, every output and both copies of the code |
| `Refinement` | `GitPipe` implements `GitQuery` |
| `QueryShortens`, `QueryNotStuck` | a query takes at most `8 + 2 * MaxOutput` steps; until it is done one of its two processes can take one, except, in the copy of `config.c` only, when fs-lint waits for a git that is blocked on the full pipe it holds open itself |
| `OnlyRefusedLargeIsStuck` | a capture is stuck only after its text was refused, with an output larger than the pipe |
| `CaptureUsesGitPipe`, `CapturedOutputIsWhole` | `ConfigCapture` is an instance of the protocol, and so inherits them |
| `CaptureInvariant`, `TextFits`, `WholeFile`, `OnlyLargeRefused` | the growing buffer always has room for the text and its NUL within the limit, a captured text is a whole file below it, and only a text that reaches the limit is refused as too large |
| `AddStateIsComplete`, `GlobInvariant`, `ArraysWideEnough`, `StatesBelong` | the nested calls of `add_state` end and miss no state; the scratch arrays are wide enough, and no state of another pattern or path is left in them, for any patterns and paths |
| `MatchedAsDescribed`, `DecidedAsDescribed` | at every point of every walk the pattern is in its last state exactly when it describes what has been walked; a verdict is that of the last pattern that describes the complete path, or the default |
| `GroupsAreAlternatives` | behind a brace group the reading is where one of its alternatives leads, each read from where the group stands as if it stood there alone, for patterns of every length and nesting in which each group closes at its partner |
| `FreshInvariant`, `Fresh` | a verdict is a function of the list, the path and the default alone, whatever the matcher was asked before; the last pattern that accepts the path decides |
| `ChangeReaderInvariant`, `ExactInvariant` | the inductive invariants of the list reader |
| `MemorySafety`, `Tiling` | bounds of buffer and list, and the tiling of the stream by the kept paths, for streams of every length |
| `AcceptedExactly`, `RefusalsJustified` | in both modes an accepted list is exactly the paths of a well-formed stream, in order, and a well-formed stream is refused only by a failed allocation or read |
| `DiscoveryInvariant` | the inductive invariant of the search |
| `NothingLastingMissed`, `StaysInside` | the search passes by no configuration that is there all the time, and leaves a repository only where a path could not be allocated, for any depth, names and repositories and any writes by others |
| `AnsweredNearest` | where nobody writes and no call fails, a run is answered from the nearest directory with a configuration: that one is used, or two in it, an unsupported format, a dangling link or a configuration that is not staged end the run, whatever is in the index elsewhere |
| `SearchShortens` | the search takes at most `(Depth + 1) * (NameCount + 2) + 5` steps, however another process writes |
| `CheckRunInvariant` | the inductive invariant of a run |
| `ExitStatus`, `ReportsKept` | the exit status agrees with the diagnostics at the end, and both only grow, for lists of every length and any writes by others |
| `DenialsInOrder`, `OrphansInOrder` | each denied addition is reported once and in order; a change is reported as an orphan exactly when every matching rule misses its target, with the target of the first of them |
| `CausesWereThere` | where others write, the reports are those of the changes of one moment, the configuration of that or a later one, and targets as they were since: of one moment in git, of the moment of each look in the working tree; for lists of every length and any number of writes |
| `RefinesVerdict` | with nobody else writing, `CheckRun` implements `LintVerdict` |
| `RangesAreUtf8`, `EveryTextIsFaithful`, `PathsPrintedFaithfully` | the ranges of `utf8_sequence_length` are UTF-8 exactly; every text, of any length, is printed on one line, as UTF-8, so that it can be read back, and unchanged where nothing in it needs an escape |
| `PatternsInvariant` | the inductive invariant of parsing, reading, copying and appending |
| `LimitsHold`, `FreesWhatItOwns`, `PatternsInOrder`, `WholeFile` | the shared limits, the ownership of the slots wherever loading fails, the order of the policy, and the whole file or none, for any limits, command lines, lists and writes by others |
| `LineInvariant`, `ParsesAsWritten` | a command line of any length is accepted exactly when it has a form of the usage text, and the arguments are what its words say |
| `EnvironmentInvariant` | the inductive invariant of the preparation |
| `RootRepositoryOnly`, `NeverHalfPrepared`, `ForeignCleared`, `MeaningKept`, `TargetsInPlace` | the five properties of `environment`, for any directories, repositories and variables and any failed call |
| `ReleaseInvariant` | the inductive invariant of the releases |
| `PublishedFirst`, `PushReplacesNothing`, `OvertakenReleasesConflict` | the three properties of `release`, for any number of runs and releases |

The assumptions are the named `ASSUME`s of the modules: capacities and limits are
positive, the limit of a captured configuration is a doubling of the first capacity, inputs have their types, marks such as "no match" or a null pointer are
not themselves paths or patterns, `Words` holds no command and no option of fs-lint, and directories of one repository that a run can
start in share the top of their work tree (a linked work tree has a git directory
of its own).

Each proof module opens with its inductive invariant: the properties a run checks,
and the strengthenings named below, which no run needs. Those that say how far a loop has come are
called ...`SoFar`.

*GitPipe.* The safety properties are about the end of a query and say nothing of
its middle, so none is inductive. `IInv` adds that descriptors follow the
control state of their holder (`EndsFollowControl`), that written units are in the
pipe or accepted as long as fs-lint reads (`UnitsAccounted`), and that an accepted
output was seen to its end, hence after git ended (`AcceptedIsFinished`). The last
follows because an end of file requires that no writer is left, and a running
git is always a writer.

*ChangeReader.* In mode `names` the kept paths tile the stream: the kept intervals follow one another with one NUL between, up to the start of
the field in hand (`ListTilesStream`), whose characters hold no NUL
(`BufferIsFieldSoFar`). `GrowthMakesRoom` is the arithmetic of `grow_changes`: a full
list below its limit gets room for at least one more and never more than the
limit. A tiling says nothing of mode `raw`, where most fields are left out.
`ExactSoFar` compares the list with `Kept` instead: it holds the kept ones among the
fields closed so far (`ListIsKept`), and the reader expects a header exactly when the
number of NULs before it is even (`InStep`). `FieldCloses` and `KeepsTheRightOnes` are
the step: at a NUL the buffer is a field of the stream, no other field closes here,
and it is kept exactly when it should be. Refusals are shown malformed where they
happen, and stay so, since the stream does not change; a path that is too long needs
the first NUL after it, which a terminated stream has (`FirstNul`).

*Discovery.* `NamesSoFar` is the invariant of the two loops: of the names looked
for in the directory in hand none but `found` is lasting, and a directory that is
left behind has no lasting configuration. Places another process writes are not in
`always`, which only shrinks. `AnsweredSoFar` is for a run that nobody disturbs: `always`
is then what there is, an error is about what is in hand, and whether git has the
place is known once it has been asked. The directories between the lint root and the one in hand
are empty by `NamesSoFar`, so the one in hand is the nearest.

*CheckRun.* `ReportsExplainStatus` relates status and reports at every step, not
only at the end; `DenialsReportedSoFar` is the loop invariant of `check_changes`.
`OrphansSoFar` is that of the two loops of the counterpart check: the reports are
the orphans among the changes before this one, the rules before this one have
missed their targets, and `missing` is the target of the first rule that matches.
It needs a snapshot that nobody disturbs, as the property does. For `RefinesVerdict`
`ReadsTheTree` adds that what a run has read of a tree nobody shares is that tree, so
that the verdict at its end is the judgement of it (`Judgement`), and the answer once
given stays (`JudgedStays`). `CausesSoFar` is the invariant behind `ReportsHadCause`: there
are two moments i <= j that changes and configuration were read at (`ReadAt`), and what
has been said since has its cause since j (`CheckedSince`). In git that is one moment for
all changes. In a working tree each change has a view of its own, put together from looks at
different moments; the one in hand has it for the rules gone over (`MissedSoFar`).

*Output.* `RangesAreUtf8` compares the ranges of bytes with the number they encode, one
length at a time; 1114111 and its like are kept in named sets, since one of the
provers cannot take them. A step of the writer prints an escape, one ASCII character
or a whole longer character (`PrintedIs`), so in front of any well-formed rest
it leaves no stray byte and is read as the bytes it took (`StepPrints`). That needs
`LoopsAgree`: behind a token, a loop goes on as it does on the rest alone.
`WrittenSoFar` is the invariant, from the end of the text to its start
(`DownwardInduction`): what is printed from a place on is well formed and is
read back as the text from there. That a whole text is printed unchanged is
the same induction over its characters.

*PolicyPatterns.* The properties look at one moment each; `PolicySoFar` says for every
stage how far copying and appending have come and what is in each slot, so that
`BudgetKept` and `SlotsOwned` hold where a failure can end the run. `ReadSoFar`
compares file and data with the text that was measured, unit by unit, as long as
the file was only extended or only cut.

*CommandLine.* `LineSoFar` says of the words before `index` what `LineAsWritten` says of
all of them: each field of `arguments` is what those words say, the separator is among
them just when `optionsEnded` is set, and the word at `index` is not the value of an
option (`PlaceSoFar`). `RolesUnfold` shows that the recursive `Roles` is defined, and
`WordsFollow` where the next word stands after one that has a value and after one that has not.
`KindIs` is the heart: what the parser takes a word for, by its variables, is what
the word is by its place. A word read adds its place to some of the sets and to
no other (`OptionRead`, `PassedOver`), which a list and a last value follow
(`OrderGrows`, `LastGrows`). At the end, different sources are as many as the
words that give them (`SourcesCount`), so that counting fields judges as the usage
text does (`ArgumentsFit`); and a repeated switch or base is refused at once, which is
right since two sources fit no form (`OptionRefused`).

*GitEnvironment.* An environment in which git may be asked is one of two settled
forms: everything cleared, or every variable as `Preserved` has it (`Settled`).
`EnvironmentInStep` says what it is on the way there, `AnswersTrue` that the answers
of the two queries, where they came, are the repositories of the caller and
of `--root`. That an absolute variable leads to the same place from everywhere, and a
relative one to the same place from where it was written, is the lemma
`PreservedRepository` and its neighbours.

*Release.* `RunsReady` carries what a run has verified along its phases: a run past the
verification is for a published release, and it works on the revision it validated.
`BranchesFromRuns` ties a branch to the run that pushed it. Together they say
what a merge, however late, puts onto main.

*ConfigCapture.* Each of its steps is a step of `GitPipe` or leaves it alone, so
its specification implies that of `GitPipe`, and the invariants carry over. For the
buffer, `CaptureSoFar` adds that the capacity is 0 or a doubling of the first one.
That `Grown` is defined, grows, and stays at or below the limit comes from lemmas on
doublings: they grow (`DoublingsGrow`), two of them are equal or a factor of two apart
(`DoublingsApart`), and a doubling of a doubling is one (`DoublingsCompose`). Hence
the check inside the loop of `grow_output` never refuses a text that
`append_output` has let through.

*Glob.* `Reached` is a number of rounds, each of which adds the followers of what is
there. `FollowersAhead` says that every follower of an index is beyond it, as long as
braces are matched by what `find_brace_group_at` computed; so the rounds end within the
length of the pattern and nothing is missed. `WalkInHand` and `JumpsLeadOn` tie the
arrays to the pattern in hand: without them a jump left over from a longer pattern
could lead outside a shorter one. `VerdictsAreFresh` says what a verdict is with arrays
that nothing was in before (`Accepts`, `Decided`). `FreshSoFar` is its strengthening: the
arrays of the pattern in hand are what preparing computes for that pattern alone
(`ArraysInHand`), the states are those of the characters read so far (`WalkSoFar`),
and `allowed` is what the patterns before this one decide (`DecidedSoFar`). What a
pattern accepts is thus a function of pattern and path.

That this function is what the pattern describes is `AcceptsDescribed`. The states
after n characters are told without the walk by `Live`: an index is a state when the
reading can be there after n characters, or when a star begun there earlier still allows
all that came since (`Begun`). `LiveFirst` and `LiveStep` say that `add_open_state` makes
`Live` and that one character of the path keeps it. The step is two inclusions. Each star under
way and each index the character leads to is entered (`EntersEnough`), and nothing else is
(`EntersOnly`); then add_state closes what was entered to all places where the reading can be
(`StatesAre`, by induction over the pattern) and goes no further (`ReachedLeast`). A
directory wildcard is the delicate case: it stays among the states without being entered
again, so that what follows it is reached behind a separator only, and `Directories`
is therefore kept apart from `Stars`.

*Groups.* That reading follows `braceEnds` and `jumps`, and so far nothing says that these two
arrays make alternatives. `WellNested` is the premise: no closing brace at depth
one of a group comes before the one that closes it, which is false only of `{a}/{b,c}`
and patterns like it (see below). Then of two groups one begins behind the other or lies
within it, and deeper (`GroupsNest`), so a comma or brace delimits one group only (`OneGroup`) and jumps to the
end of that one (`JumpsLead`). The reading enters an alternative only from its
opening brace (`StartEntered`), the place behind a group only from its delimiters
(`EndEntered`), and what lies between from inside the alternative (`InsideEntered`). So what
is read up to a delimiter is `Reading`, which knows nothing of what stands before the
alternative (`ReadAlternative`). Without an opening brace in the pattern there are no groups
(`NoGroups`), and `Described` is the table of tokens alone.

Induction over numbers, which four of these (the buffer, the matcher, the output and the
words of a command line) need, is `NatSetInduction`: a set that holds 0
and every successor holds all numbers. It follows from the well-foundedness of `<`
without instantiating an operator.

Only model-checked: `Terminates`, `Ends` and `OnlyRefusedLargeCanHang` as they stand, since
the prover does not do liveness under fairness (see "Fairness" for what is proved of
them); and `VerdictsFollowSyntax`, whose reference writes a pattern out into all the patterns
without braces it stands for, by recursion over the pattern. `DecidedAsDescribed` and
`GroupsAreAlternatives` say group by group what that expansion says at once; that the two
agree would be an induction over a recursive operator.

## Findings

1. **A staged configuration far over the limit hangs fs-lint**
   (`config_capture_oversized`, `src/src/config.c:196`). When `append_output`
   refuses the text, `capture_git` closes its read end and waits for git. The
   child still holds a read end of its own, so git is blocked on a full pipe
   instead of being ended by SIGPIPE. With a staged configuration of 1,400,000
   bytes `fs-lint check --staged` never ends, where a configuration error should
   be exit status 2. `changes.c:127` has the missing line.
2. **In the hook of a linked work tree, targets below `--root` are not found**
   (`environment_subdirectory`, `src/src/git_environment.c:155`). Git exports
   `GIT_DIR` without `GIT_WORK_TREE` there. fs-lint makes the first absolute and
   leaves the second unset, so git takes the directory it starts in, `--root`, for
   the work tree, and a counterpart that exists at the top is reported missing.
   `README.md` has targets relative to the repository "even when checking from a
   subdirectory". `TargetsPlaced` says when it is so.
3. **A release that failed after its push cannot be retried**
   (`release_retry`, `src/scripts/release.sh:223`). The tap is checked out
   without the refs of its other branches, so the lease asks that the release
   branch does not exist, and the push is rejected whenever an earlier run has
   pushed it. `return_existing_pr` is not reached. The test that expects the request to be
   reused replaces git by a stub.

Other things met while modelling, without a run of their own:

* A staged configuration of exactly 1048576 bytes, the limit of
  `fs-lint.schema.json`, is refused (`config.c:108`: the NUL counts), one in the
  working tree is accepted. `RefusalMeansLarge` says "at least the limit" for this.
* In `{a}/{b,c}` the first brace is closed by the last one and the comma of the
  inner group separates the outer one (`glob.c:119`), so the pattern does not match
  `{a}/b`. `VerdictsFollowSyntax` leaves out these patterns, by a definition that
  names them (`ClosesElsewhere`).
* When the path of `.git` cannot be allocated (`discover.c:38`) the climb goes on
  past the repository root; every other failed allocation of the search is an
  error. It is the exception in `StaysInRepository`.
* A configuration that is staged but removed from the working tree is passed by
  (`config.c:892`), and `check --staged` applies one from a directory above, where
  `README.md:176` speaks of "the staged config". Which directory decides is the working
  tree's to say; `AnsweredFromNearest` states it so, and that nothing is used in
  `check --staged` but what is staged there.
* A relative `GIT_INDEX_FILE` of a caller in a subdirectory is made absolute against
  that directory (`git_environment.c:149`), while git opens it from the top of the
  work tree. It is the exception `AtWorkTree` in `CallersMeaningKept`.
* A failed query passes for another repository (`git_environment.c:136`), and a failed
  git for a directory outside Git (`counterparts.c:216`): hence `trouble` in the
  properties on meaning and on targets.
* In JSON an invalid byte is written as the character of its number
  (`cli_output.c`), so two paths can look the same; in the text format they cannot.

## Not modelled

* The JSON and TOML parsers are vendored. The syntax of the configuration is
  reached only as `LoadConfigFails` and `TextFails`, and so are the checks that
  `config.c` makes of single members of a document.
* `read_empty_tree` of `changes.c`: it forks git like the other queries but reads
  one line instead of the end of the output, so `GitPipe` does not stand for it.
* The path given with `--config` (`resolve_config_path`): it skips the climb of
  `Discovery` and goes on with `ReadFormat`.
* The constant words of diagnostics, of the usage and of version messages; the
  argument lists of git; and the text of counterpart rules (capture and
  substitution of `**`): conversions without a state, of which `CheckRun` keeps the
  results.
* Writing the formula and the README section of the tap (`update-tap-readme`) and
  validating them: they touch only the runner of one job.
* Signals other than SIGPIPE, and the death of fs-lint itself: it keeps nothing
  on disk, so there is nothing to recover.
* `scripts/setup.sh`, CMake and the workflow of continuous integration: sequential
  scripts without state.

## Plan

Done: every component of the table above has its modules, checked and, where the
prover reaches, proved: first the pipe protocol and its two users, the list readers,
the matcher, the discovery and the run; then the parser of the command line, the file
and the limits on patterns, the environment of git, the encoding of diagnostics and
the release. Runs of one component with and without other writers were made one.

The proofs reach every safety property but `VerdictsFollowSyntax`, and of that one both of its
parts: what a pattern describes, and that a group stands for its alternatives. Of the
liveness properties they reach all but the fairness. What remains is the expansion of a
pattern as one theorem, and the parts under "Not modelled".
