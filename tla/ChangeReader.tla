------------------------------ MODULE ChangeReader ------------------------------
(***************************************************************************)
(* The reader of NUL-terminated lists in src/src/changes.c.  In mode       *)
(* "names" (cli_changes_read_nul) every field is the path of an addition;  *)
(* in mode "raw" (read_files) a header field and a path field alternate,   *)
(* and only the paths after the header of a regular file or symbolic link  *)
(* are kept.                                                               *)
(*                                                                         *)
(* A stream is a sequence over NUL, FileMark and Other: of the characters  *)
(* of a field only one thing matters, that a header whose first character  *)
(* is FileMark is one that read_file_mode recognises.  A path is kept as   *)
(* the interval of the stream it was copied from.                          *)
(***************************************************************************)
EXTENDS Integers, Sequences, FiniteSets

CONSTANTS MaxPath,        \* FS_LINT_MAX_PATH_LENGTH
          FirstCapacity,  \* 16, the first allocation of grow_changes
          NamesLimit,     \* CLI_MAX_CHANGES
          RawLimit,       \* SIZE_MAX / sizeof(fs_lint_change)
          Streams         \* the inputs

NUL == "nul"
FileMark == "file"
Other == "other"
Characters == {NUL, FileMark, Other}

ASSUME MaxPathAssumption == MaxPath \in Nat \ {0}
ASSUME CapacityAssumption == FirstCapacity \in Nat \ {0}
ASSUME LimitAssumption == NamesLimit \in Nat \ {0} /\ RawLimit \in Nat \ {0}
ASSUME StreamsAssumption == Streams \subseteq Seq(Characters)

VARIABLES mode,      \* "names" or "raw"
          stream,    \* what the pipe or standard input will deliver
          position,  \* characters taken from the stream
          length,    \* characters in read_path's buffer
          field,     \* what the current field is: "name", "header", "file", "skip"
          items,     \* changes->items[0 .. count - 1]
          capacity,  \* changes->capacity
          status,    \* "reading", "read" or "failed"
          error      \* what changes->error is about

vars == <<mode, stream, position, length, field, items, capacity, status, error>>

Intervals == [first : Nat \ {0}, last : Nat]
Errors == {"none", "empty path", "long path", "not terminated",
           "missing path", "limit", "memory", "stream"}

TypeOK ==
  /\ mode \in {"names", "raw"} /\ stream \in Seq(Characters)
  /\ position \in 0..Len(stream) /\ length \in 0..MaxPath
  /\ field \in {"name", "header", "file", "skip"}
  /\ items \in Seq(Intervals) /\ capacity \in Nat
  /\ status \in {"reading", "read", "failed"} /\ error \in Errors

FirstField(m) == IF m = "names" THEN "name" ELSE "header"
Limit(m) == IF m = "names" THEN NamesLimit ELSE RawLimit

Init ==
  /\ mode \in {"names", "raw"} /\ stream \in Streams
  /\ position = 0 /\ length = 0 /\ field = FirstField(mode)
  /\ items = <<>> /\ capacity = 0
  /\ status = "reading" /\ error = "none"

Fail(what) ==
  /\ status' = "failed" /\ error' = what
  /\ UNCHANGED <<mode, stream, length, field, items, capacity>>

--------------------------------------------------------------------------------
(* The list *)

\* Seeded fault: the doubled capacity is not cut at the limit.
GrownCapacityUncut(current, limit) ==
  IF current = 0 THEN FirstCapacity ELSE current * 2

GrownCapacity(current, limit) ==
  LET doubled == IF current > limit \div 2 THEN limit ELSE current * 2
      grown == IF current = 0 THEN FirstCapacity ELSE doubled
  IN  IF grown > limit THEN limit ELSE grown

\* The characters of the field that ends at the NUL just taken.
Path == [first |-> position - length + 1, last |-> position]

\* Seeded fault: a list that is not empty loses its last path when it grows.
AppendPathOverLast(limit) ==
  /\ Len(items) # limit
  /\ IF Len(items) = capacity /\ capacity > 0
     THEN items' = [items EXCEPT ![Len(items)] = Path]
     ELSE items' = Append(items, Path)
  /\ capacity' = IF Len(items) = capacity THEN GrownCapacity(capacity, limit) ELSE capacity

\* append_path, when it succeeds.
AppendPath(limit) ==
  /\ Len(items) # limit
  /\ items' = Append(items, Path)
  /\ capacity' = IF Len(items) = capacity THEN GrownCapacity(capacity, limit) ELSE capacity

--------------------------------------------------------------------------------
(* One call of fgetc() *)

Reading == status = "reading"
AtEnd == position = Len(stream)
NextCharacter == stream[position + 1]

TakeCharacter ==
  /\ Reading /\ ~AtEnd /\ NextCharacter # NUL
  /\ length < MaxPath
  /\ position' = position + 1 /\ length' = length + 1
  /\ UNCHANGED <<mode, stream, field, items, capacity, status, error>>

\* Seeded fault: a path of exactly MaxPath characters is refused.
RefuseLongPathEarly ==
  /\ Reading /\ ~AtEnd /\ NextCharacter # NUL
  /\ length + 1 = MaxPath
  /\ position' = position + 1
  /\ Fail("long path")

RefuseLongPath ==
  /\ Reading /\ ~AtEnd /\ NextCharacter # NUL
  /\ length = MaxPath
  /\ position' = position + 1
  /\ Fail("long path")

RefuseEmptyPath ==
  /\ Reading /\ ~AtEnd /\ NextCharacter = NUL
  /\ length = 0
  /\ position' = position + 1
  /\ Fail("empty path")

\* A NUL after at least one character, where the copy of the path and, for a
\* kept path, the room in the list can be had.
EndOfField ==
  /\ Reading /\ ~AtEnd /\ NextCharacter = NUL
  /\ length > 0
  /\ position' = position + 1 /\ length' = 0

EndOfKept ==
  /\ EndOfField
  /\ field \in {"name", "file"}
  /\ AppendPath(Limit(mode))
  /\ field' = FirstField(mode)
  /\ UNCHANGED <<mode, stream, status, error>>

\* Seeded fault: the entry after a skipped one is taken for a path.
EndOfSkippedOutOfStep ==
  /\ EndOfField
  /\ field = "skip"
  /\ field' = "file"
  /\ UNCHANGED <<mode, stream, items, capacity, status, error>>

EndOfSkipped ==
  /\ EndOfField
  /\ field = "skip"
  /\ field' = "header"
  /\ UNCHANGED <<mode, stream, items, capacity, status, error>>

EndOfHeader ==
  /\ EndOfField
  /\ field = "header"
  /\ field' = IF stream[position - length + 1] = FileMark THEN "file" ELSE "skip"
  /\ UNCHANGED <<mode, stream, items, capacity, status, error>>

RefuseOverLimit ==
  /\ Reading /\ ~AtEnd /\ NextCharacter = NUL /\ length > 0
  /\ field \in {"name", "file"} /\ Len(items) = Limit(mode)
  /\ position' = position + 1
  /\ Fail("limit")

\* malloc() of the path, or realloc() of the list.
AllocationFails ==
  /\ Reading /\ ~AtEnd /\ NextCharacter = NUL /\ length > 0
  /\ position' = position + 1
  /\ Fail("memory")

StreamFails ==
  /\ Reading
  /\ position' = position
  /\ Fail("stream")

\* Seeded fault: the end of the stream ends a path as a NUL would.
EndOfStreamAnywhere ==
  /\ Reading /\ AtEnd
  /\ field \in {"name", "header"}
  /\ status' = "read"
  /\ UNCHANGED <<mode, stream, position, length, field, items, capacity, error>>

EndOfStream ==
  /\ Reading /\ AtEnd
  /\ length = 0 /\ field \in {"name", "header"}
  /\ status' = "read"
  /\ UNCHANGED <<mode, stream, position, length, field, items, capacity, error>>

RefuseUnterminated ==
  /\ Reading /\ AtEnd
  /\ length > 0
  /\ position' = position
  /\ Fail("not terminated")

RefuseMissingPath ==
  /\ Reading /\ AtEnd
  /\ length = 0 /\ field \in {"file", "skip"}
  /\ position' = position
  /\ Fail("missing path")

Finished == status # "reading" /\ UNCHANGED vars

TakeField == EndOfKept \/ EndOfSkipped \/ EndOfHeader

Refuse ==
  \/ RefuseLongPath \/ RefuseEmptyPath \/ RefuseOverLimit
  \/ RefuseUnterminated \/ RefuseMissingPath

Fault == AllocationFails \/ StreamFails

Next == TakeCharacter \/ TakeField \/ EndOfStream \/ Refuse \/ Fault \/ Finished

Spec == Init /\ [][Next]_vars

--------------------------------------------------------------------------------
(* Properties *)

\* No write outside the buffer of read_path (length is also the index of the
\* terminating NUL) or outside the allocation of the list, and no allocation
\* above the limit, whatever the length of the list.
MemoryBounded ==
  /\ length <= MaxPath
  /\ Len(items) <= capacity
  /\ capacity <= Limit(mode)

IsField(interval) ==
  /\ interval.first <= interval.last /\ interval.last < Len(stream)
  /\ \A i \in interval.first..interval.last : stream[i] # NUL
  /\ stream[interval.last + 1] = NUL

\* The place after the k-th path of the list and its NUL.
After(k) == IF k = 0 THEN 0 ELSE items[k].last + 1

\* In mode "names" the list tiles the characters taken so far: every path is
\* one whole field, they follow one another in order, and none is left out.
ListTilesStream ==
  mode = "names" =>
    /\ \A k \in 1..Len(items) : /\ items[k].first = After(k - 1) + 1
                                /\ IsField(items[k])
    /\ status # "failed" => After(Len(items)) + length = position

--------------------------------------------------------------------------------
(* What a stream says, by its NULs alone *)

NulsBefore(s, end) == {i \in 1..end : s[i] = NUL}

\* The pieces of s between its NULs.
Fields(s) ==
  {f \in [first : 1..Len(s), last : 0..Len(s)] :
     /\ f.first = 1 \/ s[f.first - 1] = NUL
     /\ f.first <= f.last + 1 /\ f.last < Len(s)
     /\ \A i \in f.first..f.last : s[i] # NUL
     /\ s[f.last + 1] = NUL}

\* The field that ends before place is the header of a file.
AfterFileHeader(s, place) ==
  \E h \in Fields(s) : h.last + 1 = place /\ s[h.first] = FileMark

\* Every second field of a raw stream is a path.
IsAddedFile(s, f) ==
  /\ Cardinality(NulsBefore(s, f.last)) % 2 = 1
  /\ AfterFileHeader(s, f.first - 1)

Kept(m, s) == {f \in Fields(s) : m = "names" \/ IsAddedFile(s, f)}

Sized(f) == f.last + 1 - f.first \in 1..MaxPath

WellFormed(m, s) ==
  /\ s # <<>> => s[Len(s)] = NUL
  /\ \A f \in Fields(s) : Sized(f)
  /\ m = "raw" => Cardinality(NulsBefore(s, Len(s))) % 2 = 0
  /\ Cardinality(Kept(m, s)) <= Limit(m)

Listed == {items[k] : k \in 1..Len(items)}
InOrder == \A j, k \in 1..Len(items) : j < k => items[j].last < items[k].first

\* What cli_changes_read_nul and read_files accept is well formed, and the list
\* holds exactly the fields it should, in the order of the stream.
AcceptsExactlyTheFields ==
  status = "read" =>
    WellFormed(mode, stream) /\ Listed = Kept(mode, stream) /\ InOrder

\* They refuse nothing else: a failure that is not the system's is the stream's.
RefusesOnlyMalformed ==
  status = "failed" /\ error \notin {"memory", "stream"} => ~WellFormed(mode, stream)

================================================================================
