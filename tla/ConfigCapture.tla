----------------------------- MODULE ConfigCapture -----------------------------
(***************************************************************************)
(* The staged configuration: src/src/config.c reads what git show prints   *)
(* into one growing buffer (read_git_descriptor, append_output,            *)
(* grow_output).  The processes and their pipe are those of GitPipe, whose *)
(* received is the length field of captured_output; this module says what  *)
(* the reader makes of what it reads.                                      *)
(***************************************************************************)
EXTENDS GitPipe, FiniteSetsExt

CONSTANTS Limit,          \* CLI_MAX_CONFIG_BYTES
          FirstCapacity,  \* the 4096 bytes of the first allocation
          ReadSize        \* the size of the buffer given to read()

\* The capacities that the loop of grow_output goes through from c on, in order
\* and as a set.
DoubledFrom(c) ==
  LET doubled[k \in 0..Limit] == IF k = 0 THEN c ELSE 2 * doubled[k - 1]
  IN  doubled

Doublings(c) == {DoubledFrom(c)[k] : k \in 0..Limit}

ASSUME FirstCapacityAssumption == FirstCapacity \in Nat \ {0}
\* As in the code: 1048576 is 4096 doubled eight times.
ASSUME LimitAssumption == Limit \in Nat \ {0} /\ Limit \in Doublings(FirstCapacity)
ASSUME ReadSizeAssumption == ReadSize \in Nat \ {0}

VARIABLES capacity,  \* bytes allocated; 0 stands for data = NULL
          error      \* "none", "exceeds" (the limit) or "other"

captureVars == <<capacity, error>>
allVars == <<vars, captureVars>>

InitCapture == Init /\ capacity = 0 /\ error = "none"

--------------------------------------------------------------------------------
(* append_output and grow_output *)

\* Seeded fault: a text that fills the buffer to the last byte does not fit.
FitsWithSpare(n) == n < Limit - received - 1

Fits(n) == n <= Limit - received - 1

Needed(n) == received + n + 1
MustGrow(n) == capacity = 0 \/ Needed(n) > capacity

Start == IF capacity = 0 THEN FirstCapacity ELSE capacity

\* The loop doubles until the capacity is large enough.
Grown(n) == Min({c \in Doublings(Start) : c >= Needed(n)})

\* ... unless it meets a capacity above half of the limit that is too small.
CannotGrow(n) == Grown(n) > Start /\ Grown(n) \div 2 > Limit \div 2

\* Seeded fault: the capacity is taken for the length of the text in it.
CapacityAfterByLength(n) == IF MustGrow(n) THEN received + n ELSE capacity

CapacityAfter(n) == IF MustGrow(n) THEN Grown(n) ELSE capacity

Refused(n) == ~Fits(n) \/ (MustGrow(n) /\ CannotGrow(n))

--------------------------------------------------------------------------------
(* capture_git *)

Chunks == 1..pipe \cap 1..ReadSize

AppendChunk(n) ==
  /\ n \in Chunks /\ ~Refused(n)
  /\ Accept(n)
  /\ capacity' = CapacityAfter(n) /\ UNCHANGED error

\* Seeded fault: a text over the limit is cut to what fits.
RefuseChunkByCutting(n) ==
  /\ n \in Chunks /\ Refused(n)
  /\ parent = "read" /\ pipe' = pipe - n /\ parsed' = TRUE
  /\ StopReading
  /\ UNCHANGED <<child, writers, output, written, received, result, captureVars>>

\* The descriptor is closed, and capture_git goes on to wait for git.
RefuseChunk(n) ==
  /\ n \in Chunks /\ Refused(n)
  /\ Reject(n)
  /\ error' = "exceeds" /\ UNCHANGED capacity

AllocationFails(n) ==
  /\ n \in Chunks /\ ~Refused(n) /\ MustGrow(n)
  /\ Reject(n)
  /\ error' = "other" /\ UNCHANGED capacity

ReadingFails == ReadFails /\ error' = "other" /\ UNCHANGED capacity

\* An empty configuration still gets a buffer with a NUL in it.
EndOfOutput ==
  /\ ReadEnd(TRUE)
  /\ capacity' = Start
  /\ UNCHANGED error

EmptyAllocationFails ==
  /\ capacity = 0 /\ ReadEnd(FALSE)
  /\ error' = "other" /\ UNCHANGED capacity

Capture ==
  \/ \E n \in Chunks : AppendChunk(n) \/ RefuseChunk(n) \/ AllocationFails(n)
  \/ EndOfOutput \/ EmptyAllocationFails

LintProgress ==
  \/ Capture
  \/ (SetUp \/ \E waited \in BOOLEAN : Reap(waited)) /\ UNCHANGED captureVars

GitProgress == ChildProgress /\ UNCHANGED captureVars

NextCapture ==
  \/ LintProgress \/ ReadingFails
  \/ GitProgress
  \/ (Fail \/ Finished) /\ UNCHANGED captureVars

SpecCapture == InitCapture /\ [][NextCapture]_allVars

\* As in GitPipe: no failure is relied on to end a capture.
FairSpecCapture == SpecCapture /\ WF_allVars(LintProgress) /\ WF_allVars(GitProgress)

--------------------------------------------------------------------------------
(* Properties *)

\* The text and the NUL that ends it always lie inside the allocation, the
\* allocation never exceeds the limit, and Limit - length - 1, which is
\* unsigned in append_output, never wraps.
BufferHoldsText ==
  /\ capacity = 0 => received = 0
  /\ capacity # 0 => received < capacity
  /\ capacity <= Limit
  /\ received <= Limit - 1

\* A configuration that is used is the whole staged file: a file over the limit
\* is never cut to it, and a failing git show never passes for an empty file.
CapturedWhole ==
  result = "ok" =>
    /\ received = output /\ output < Limit /\ capacity > output
    /\ error = "none" /\ child = "succeeded"

\* Only the reader's own limit is reported as the limit: every refusal was
\* preceded by at least as many bytes as the limit leaves room for.
RefusalMeansLarge == error = "exceeds" => written >= Limit

\* A capture is left unanswered only where the reader stopped early on an output
\* that the pipe cannot hold; everything else is answered, without any failure.
OnlyRefusedLargeCanHang == <>(parent = "done" \/ (error # "none" /\ output > Capacity))

\* A staged configuration over the limit is answered: "The CLI also checks ...
\* byte limits: 1048576 bytes per config" (fs-lint.schema.json:4), and a
\* configuration error is exit status 2 (README.md:370).
OverLimitAnswered == error = "exceeds" ~> parent = "done"

================================================================================
