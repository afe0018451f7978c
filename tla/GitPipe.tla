-------------------------------- MODULE GitPipe --------------------------------
(***************************************************************************)
(* The two processes behind every git query of the CLI: fs-lint forks a    *)
(* child that becomes git, git writes its standard output into a pipe of   *)
(* bounded capacity, fs-lint reads the pipe to its end, then waits for the *)
(* child.  src/src/changes.c (launch_git ... finish_git) and               *)
(* src/src/config.c (capture_git) each have a copy of this protocol; they  *)
(* differ in one line, the child's close of its read end, which is the     *)
(* constant ChildClosesReadEnd.                                            *)
(*                                                                         *)
(* Who consumes the units is abstract here: the reader may refuse what it  *)
(* reads at any point (a malformed list, a limit, an allocation failure).  *)
(* Standard error is a temporary file or /dev/null, never a pipe, so it    *)
(* cannot block git and is not modelled.                                   *)
(***************************************************************************)
EXTENDS Integers, FiniteSets

CONSTANTS Capacity,           \* units the kernel keeps in the pipe
          MaxOutput,          \* bound: the most units git has to write
          ChildClosesReadEnd  \* TRUE for changes.c, FALSE for config.c

ASSUME CapacityAssumption == Capacity \in Nat \ {0}
ASSUME MaxOutputAssumption == MaxOutput \in Nat
ASSUME ChildClosesReadEndAssumption == ChildClosesReadEnd \in BOOLEAN

VARIABLES parent,    \* where fs-lint is in read_git / capture_git
          child,     \* the forked process
          readers,   \* the processes that hold the read end open
          writers,   \* the processes that hold the write end open
          output,    \* the units git will write if it is not stopped
          written,   \* the units git has written
          pipe,      \* the units in the pipe
          received,  \* the units the reader has accepted
          parsed,    \* the reader saw the end of the output and accepts it
          result     \* what the caller gets

vars == <<parent, child, readers, writers, output, written, pipe, received,
          parsed, result>>

Processes == {"parent", "child"}
ParentStates == {"create", "fork", "forked", "read", "wait", "done"}
Running == {"setup", "git"}
Ended == {"succeeded", "failed", "killed"}

TypeOK ==
  /\ parent \in ParentStates
  /\ child \in {"none"} \cup Running \cup Ended
  /\ readers \subseteq Processes /\ writers \subseteq Processes
  /\ output \in 0..MaxOutput /\ written \in 0..output
  /\ pipe \in 0..Capacity /\ received \in 0..written
  /\ parsed \in BOOLEAN
  /\ result \in {"none", "ok", "failed"}

Init ==
  /\ parent = "create" /\ child = "none"
  /\ readers = {} /\ writers = {}
  /\ output \in 0..MaxOutput
  /\ written = 0 /\ pipe = 0 /\ received = 0
  /\ parsed = FALSE /\ result = "none"

--------------------------------------------------------------------------------
(* fs-lint *)

CreatePipe ==
  /\ parent = "create"
  /\ parent' = "fork"
  /\ readers' = {"parent"} /\ writers' = {"parent"}
  /\ UNCHANGED <<child, output, written, pipe, received, parsed, result>>

\* tmpfile() or pipe() fails.
CreateFails ==
  /\ parent = "create"
  /\ parent' = "done" /\ result' = "failed"
  /\ UNCHANGED <<child, readers, writers, output, written, pipe, received, parsed>>

Fork ==
  /\ parent = "fork"
  /\ parent' = "forked" /\ child' = "setup"
  /\ readers' = Processes /\ writers' = Processes
  /\ UNCHANGED <<output, written, pipe, received, parsed, result>>

\* Seeded fault: the read end stays open when fork() fails.
ForkFailsKeepingReadEnd ==
  /\ parent = "fork"
  /\ parent' = "done" /\ result' = "failed"
  /\ writers' = {}
  /\ UNCHANGED <<child, readers, output, written, pipe, received, parsed>>

ForkFails ==
  /\ parent = "fork"
  /\ parent' = "done" /\ result' = "failed"
  /\ readers' = {} /\ writers' = {}
  /\ UNCHANGED <<child, output, written, pipe, received, parsed>>

\* Seeded fault: the parent keeps its own write end open.
KeepWriteEnd ==
  /\ parent = "forked"
  /\ parent' = "read"
  /\ UNCHANGED <<child, readers, writers, output, written, pipe, received,
                 parsed, result>>

CloseWriteEnd ==
  /\ parent = "forked"
  /\ parent' = "read"
  /\ writers' = writers \ {"parent"}
  /\ UNCHANGED <<child, readers, output, written, pipe, received, parsed, result>>

\* The reader takes n units and goes on.
Accept(n) ==
  /\ parent = "read" /\ n \in 1..pipe
  /\ pipe' = pipe - n /\ received' = received + n
  /\ UNCHANGED <<parent, child, readers, writers, output, written, parsed, result>>

StopReading ==
  /\ parent' = "wait"
  /\ readers' = readers \ {"parent"}

\* Seeded fault: a refused output returns to the caller without waitpid().
RejectAndReturn(n) ==
  /\ parent = "read" /\ n \in 1..pipe
  /\ pipe' = pipe - n
  /\ parent' = "done" /\ result' = "failed"
  /\ readers' = readers \ {"parent"}
  /\ UNCHANGED <<child, writers, output, written, received, parsed>>

\* The reader takes n units, refuses them and closes its end.
Reject(n) ==
  /\ parent = "read" /\ n \in 1..pipe
  /\ pipe' = pipe - n
  /\ StopReading
  /\ UNCHANGED <<child, writers, output, written, received, parsed, result>>

\* fdopen(), fgetc() or read() fails.
ReadFails ==
  /\ parent = "read"
  /\ StopReading
  /\ UNCHANGED <<child, writers, output, written, pipe, received, parsed, result>>

\* Nobody can write any more: the reader accepts the output as a whole, or
\* refuses an output that stops short.
ReadEnd(accepted) ==
  /\ parent = "read" /\ pipe = 0 /\ writers = {}
  /\ parsed' = accepted
  /\ StopReading
  /\ UNCHANGED <<child, writers, output, written, pipe, received, result>>

\* Seeded fault: the exit status of git is not looked at.
ReapIgnoringStatus(waited) ==
  /\ parent = "wait" /\ child \in Ended
  /\ parent' = "done"
  /\ result' = IF parsed /\ waited THEN "ok" ELSE "failed"
  /\ UNCHANGED <<child, readers, writers, output, written, pipe, received, parsed>>

\* waitpid() returns once the child has ended: with its status, or with an
\* error when the status was discarded (SIGCHLD inherited as ignored).
Reap(waited) ==
  /\ parent = "wait" /\ child \in Ended
  /\ parent' = "done"
  /\ result' = IF parsed /\ waited /\ child = "succeeded" THEN "ok" ELSE "failed"
  /\ UNCHANGED <<child, readers, writers, output, written, pipe, received, parsed>>

--------------------------------------------------------------------------------
(* The child, and git in it *)

\* dup2(), close(), chdir() and execvp() succeed: the write end lives on as
\* git's standard output.
Exec ==
  /\ child = "setup"
  /\ child' = "git"
  /\ readers' = IF ChildClosesReadEnd THEN readers \ {"child"} ELSE readers
  /\ UNCHANGED <<parent, writers, output, written, pipe, received, parsed, result>>

EndChild(status) ==
  /\ child' = status
  /\ readers' = readers \ {"child"} /\ writers' = writers \ {"child"}
  /\ UNCHANGED <<parent, output, written, pipe, received, parsed, result>>

SetupFails == child = "setup" /\ EndChild("failed")

\* A write blocks while the pipe is full and anyone could still read it.
Write ==
  /\ child = "git" /\ written < output /\ readers # {}
  /\ pipe < Capacity
  /\ written' = written + 1 /\ pipe' = pipe + 1
  /\ UNCHANGED <<parent, child, readers, writers, output, received, parsed, result>>

\* SIGPIPE: a write to a pipe that has no reader left.
BrokenPipe ==
  /\ child = "git" /\ written < output /\ readers = {}
  /\ EndChild("killed")

Exit == child = "git" /\ written = output /\ EndChild("succeeded")

\* git reports an error after part or all of its output, or is killed.
Fail == child = "git" /\ \E status \in {"failed", "killed"} : EndChild(status)

--------------------------------------------------------------------------------
SetUp == CreatePipe \/ CreateFails \/ Fork \/ ForkFails \/ CloseWriteEnd

ReadStep ==
  \/ \E n \in 1..pipe : Accept(n) \/ Reject(n)
  \/ \E accepted \in BOOLEAN : ReadEnd(accepted)

\* The steps a process takes of its own accord, as opposed to a failing read
\* and a git that breaks off.
ParentProgress == SetUp \/ ReadStep \/ \E waited \in BOOLEAN : Reap(waited)
ChildProgress == Exec \/ SetupFails \/ Write \/ BrokenPipe \/ Exit

ParentStep == ParentProgress \/ ReadFails
ChildStep == ChildProgress \/ Fail

\* The query is over: the process goes on to other work.
Finished == parent = "done" /\ UNCHANGED vars

Next == ParentStep \/ ChildStep \/ Finished

Spec == Init /\ [][Next]_vars

\* Both processes are scheduled, and git makes progress while it can write; no
\* failure is relied on to end a query.
Fairness == WF_vars(ParentProgress) /\ WF_vars(ChildProgress)

FairSpec == Spec /\ Fairness

--------------------------------------------------------------------------------
(* Properties *)

\* An answer the caller may use is never a part of what git had to say, and
\* never the output of a git that failed (finish_git, git_succeeded).
OkMeansWholeOutput ==
  result = "ok" => child = "succeeded" /\ received = output /\ parsed

\* read_git and capture_git return only when their git has ended, on every
\* error path, so that the next query never meets an earlier one.
NoChildOutlivesAnswer == parent = "done" => child \notin Running

\* No path through launch_git, read_git_output or capture_git leaves an end of
\* the pipe open in fs-lint.
NoDescriptorLeak == parent = "done" => "parent" \notin readers \cup writers

\* The protocol gives its caller what GitQuery promises.
answer == IF result = "ok" THEN received ELSE 0
Query == INSTANCE GitQuery WITH Outputs <- 0..MaxOutput,
                                running <- child \in Running
ImplementsGitQuery == Query!Spec

\* Every git query is answered, whatever the reader makes of the output.
Terminates == <>(parent = "done")

================================================================================
