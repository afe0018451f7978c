------------------------------- MODULE ConfigFile -------------------------------
(***************************************************************************)
(* Reading a configuration from the working tree (src/src/config.c         *)
(* load_config_data): the file is opened, measured, and read up to the     *)
(* measured length and one character beyond it.  Another process may write *)
(* the open file meanwhile.  (A file that is replaced by rename() is not   *)
(* the open one any more.)                                                 *)
(*                                                                         *)
(* A text is a sequence of units; a unit is the number of the write it     *)
(* comes from.                                                             *)
(***************************************************************************)
EXTENDS Integers, Sequences

CONSTANTS MaxFile,       \* CLI_MAX_CONFIG_BYTES
          FileLengths,   \* the lengths of the file when it is opened
          MaxWrites      \* bound: writes by the other process

ASSUME FileAssumption ==
  MaxFile \in Nat /\ FileLengths \subseteq Nat /\ MaxWrites \in Nat

VARIABLES reading,    \* where load_config_data is
          file,       \* the text in the file
          measured,   \* the length that ftell() gave
          data,       \* what was read of it
          original,   \* history: the text that was measured
          written,    \* history: how the file was written since
          writes      \* the number of writes since

fileVars == <<reading, file, measured, data, original, written, writes>>

Kinds == {"grown", "shrunk", "overwritten"}

InitFile ==
  /\ reading = "closed" /\ file = <<>> /\ measured = 0 /\ data = <<>>
  /\ original = <<>> /\ written = {} /\ writes = 0

Enter(next) == reading' = next /\ UNCHANGED <<file, measured, data, original, written, writes>>

Open ==
  /\ reading = "closed" /\ reading' = "open"
  /\ \E length \in FileLengths : file' = [n \in 1..length |-> 0]
  /\ UNCHANGED <<measured, data, original, written, writes>>

OpenFails == reading = "closed" /\ Enter("failed")

Measure ==
  /\ reading = "open" /\ Len(file) <= MaxFile
  /\ reading' = "reading" /\ measured' = Len(file) /\ original' = file /\ written' = {}
  /\ UNCHANGED <<file, data, writes>>

\* The text is too large, or fseek(), ftell() or malloc() fails.
MeasureFails == reading = "open" /\ Enter("failed")

ReadUnit ==
  /\ reading = "reading" /\ Len(data) < measured /\ Len(data) < Len(file)
  /\ data' = Append(data, file[Len(data) + 1])
  /\ UNCHANGED <<reading, file, measured, original, written, writes>>

\* fread() comes to the end of the file too soon, or fails.
ReadFails == reading = "reading" /\ Enter("failed")

\* Seeded fault: the text ends where it was measured to end.
ReadEndsAtOnce ==
  /\ reading = "reading" /\ Len(data) = measured
  /\ Enter("read")

\* fgetc() after the text finds nothing.
ReadEnds ==
  /\ reading = "reading" /\ Len(data) = measured /\ Len(file) <= measured
  /\ Enter("read")

\* fclose() and free(): nothing of the file is left.
Close ==
  /\ reading' = "done" /\ file' = <<>> /\ measured' = 0 /\ data' = <<>>
  /\ original' = <<>> /\ written' = {} /\ writes' = 0

ReadFile == Open \/ OpenFails \/ Measure \/ MeasureFails \/ ReadUnit \/ ReadFails \/ ReadEnds

--------------------------------------------------------------------------------
(* Another process *)

WriteAs(kind, text) ==
  /\ reading = "reading" /\ writes < MaxWrites
  /\ file' = text /\ written' = written \cup {kind} /\ writes' = writes + 1
  /\ UNCHANGED <<reading, measured, data, original>>

Grow == WriteAs("grown", Append(file, writes + 1))
Shrink == file # <<>> /\ WriteAs("shrunk", SubSeq(file, 1, Len(file) - 1))
Overwrite == \E n \in DOMAIN file : WriteAs("overwritten", [file EXCEPT ![n] = writes + 1])

WriteFile == Grow \/ Shrink \/ Overwrite

--------------------------------------------------------------------------------
(* Properties *)

FileTypeOK ==
  /\ reading \in {"closed", "open", "reading", "read", "failed", "done"}
  /\ file \in Seq(Nat) /\ data \in Seq(Nat) /\ original \in Seq(Nat)
  /\ measured \in Nat /\ writes \in Nat /\ written \subseteq Kinds

\* A file that somebody appends to while it is read is read as it is at the
\* end of the reading, or refused; one that is cut short is read as it was
\* measured, or refused (read_config_data).  A text of the same length that is
\* written over the old one goes unnoticed.
FileReadWhole ==
  reading = "read" =>
    /\ written \subseteq {"grown"} => data = original /\ data = file
    /\ written \subseteq {"shrunk"} => data = original

================================================================================
