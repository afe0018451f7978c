----------------------------- MODULE PolicyPatterns -----------------------------
(***************************************************************************)
(* From the command line to the patterns of the policy: the parser of      *)
(* main.c (CommandLine), the file of the configuration (ConfigFile) or its *)
(* staged text (ConfigCapture), the patterns copied out of it, and those   *)
(* of --allow and --deny appended under the same limits                    *)
(* (src/src/config.c read_allow, cli_config_append_patterns).              *)
(***************************************************************************)
EXTENDS CommandLine, ConfigFile

CONSTANTS MaxPatterns,   \* CLI_MAX_ALLOW_PATTERNS
          MaxBytes,      \* CLI_MAX_ALLOW_PATTERN_BYTES
          MaxLength,     \* FS_LINT_MAX_PATTERN_LENGTH
          Size,          \* the length of each word
          AllowLists     \* what newFiles.allow may hold

\* A pattern that begins with '!' is a denied word, as from the command line.
Patterns == Overrides
Mark(word) == [word |-> word, denied |-> FALSE]
NotAString == Mark("not a string")
Null == Mark("null")
Garbage == Mark("garbage")
Entries == Patterns \cup {NotAString}

ASSUME LimitsAssumption ==
  MaxPatterns \in Nat /\ MaxBytes \in Nat /\ MaxLength \in Nat
ASSUME SizeAssumption == Size \in [Tokens -> Nat]
ASSUME AllowAssumption == AllowLists \subseteq Seq(Entries)
\* An entry that is none, and what is in a slot before a pattern is.
ASSUME MarksAssumption == {"not a string", "null", "garbage"} \cap Tokens = {}

VARIABLES stage,     \* where load_config and run_checks are
          allow,     \* newFiles.allow of the text
          slots,     \* owned_allow_patterns
          count,     \* allow_pattern_count
          total,     \* the bytes counted against the limit
          bytes,     \* the bytes of the patterns held
          cursor     \* the next entry to copy or append

patternVars == <<stage, allow, slots, count, total, bytes, cursor>>
vars == <<lineVars, fileVars, patternVars>>

Init ==
  /\ InitLine /\ InitFile
  /\ stage = "text" /\ allow = <<>> /\ slots = <<>> /\ count = 0
  /\ total = 0 /\ bytes = 0 /\ cursor = 1

Move(next) == stage' = next /\ UNCHANGED <<allow, slots, count, total, bytes, cursor>>
Fails == Move("failed")

Length(pattern) == Size[pattern.word] + IF pattern.denied THEN 1 ELSE 0

\* extra > limit - used, on unsigned numbers: beyond the limit anything fits.
Within(limit, used, extra) == used > limit \/ extra <= limit - used

Counts(pattern) ==
  Length(pattern) <= MaxLength /\ Within(MaxBytes, total, Length(pattern))

--------------------------------------------------------------------------------
(* read_allow *)

Staged == "--staged" \in arguments.switches
Loading == phase = "parsed" /\ stage = "text"

\* The staged text comes whole or not at all (ConfigCapture).
HasText == IF Staged THEN reading = "closed" ELSE reading = "read"

AllocatePatterns ==
  /\ Loading /\ HasText
  /\ \E list \in {some \in AllowLists : Len(some) <= MaxPatterns} :
       /\ allow' = list /\ count' = Len(list)
       /\ slots' = [n \in 1..Len(list) |-> Null]
  /\ stage' = "copy" /\ total' = 0 /\ cursor' = 1 /\ UNCHANGED bytes
  /\ Close

\* No text, one the parser refuses, too many patterns, or no memory.
TextFails == Loading /\ Fails /\ Close

CopyPattern ==
  /\ stage = "copy" /\ cursor <= Len(allow)
  /\ allow[cursor] \in Patterns /\ Counts(allow[cursor])
  /\ slots' = [slots EXCEPT ![cursor] = allow[cursor]]
  /\ total' = total + Length(allow[cursor])
  /\ bytes' = bytes + Length(allow[cursor])
  /\ cursor' = cursor + 1
  /\ UNCHANGED <<stage, allow, count>>

\* The entry is no string, it is too long or too much, or malloc() fails.
CopyFails == stage = "copy" /\ cursor <= Len(allow) /\ Fails

CopyEnds == stage = "copy" /\ cursor > Len(allow) /\ Move("loaded")

--------------------------------------------------------------------------------
(* cli_config_append_patterns *)

Extra == arguments.overrides

NothingToAppend == stage = "loaded" /\ Extra = <<>> /\ Move("ready")

\* Seeded fault: the limits begin anew with the command line.
GrowPatternsAnew ==
  /\ stage = "loaded" /\ Extra # <<>> /\ Within(MaxPatterns, count, Len(Extra))
  /\ slots' = slots \o [n \in 1..Len(Extra) |-> Garbage]
  /\ total' = 0 /\ cursor' = 1 /\ stage' = "append"
  /\ UNCHANGED <<allow, count, bytes>>

GrowPatterns ==
  /\ stage = "loaded" /\ Extra # <<>> /\ Within(MaxPatterns, count, Len(Extra))
  /\ slots' = slots \o [n \in 1..Len(Extra) |-> Garbage]
  /\ total' = bytes /\ cursor' = 1 /\ stage' = "append"
  /\ UNCHANGED <<allow, count, bytes>>

\* There are too many, or realloc() fails.
GrowFails == stage = "loaded" /\ Extra # <<>> /\ Fails

\* Seeded fault: the patterns of the command line begin at the first slot.
AppendPatternFromFirst ==
  /\ stage = "append" /\ cursor <= Len(Extra) /\ Counts(Extra[cursor])
  /\ slots' = [slots EXCEPT ![cursor] = Extra[cursor]]
  /\ count' = count + 1 /\ cursor' = cursor + 1
  /\ total' = total + Length(Extra[cursor])
  /\ bytes' = bytes + Length(Extra[cursor])
  /\ UNCHANGED <<stage, allow>>

AppendPattern ==
  /\ stage = "append" /\ cursor <= Len(Extra) /\ Counts(Extra[cursor])
  /\ slots' = [slots EXCEPT ![count + 1] = Extra[cursor]]
  /\ count' = count + 1 /\ cursor' = cursor + 1
  /\ total' = total + Length(Extra[cursor])
  /\ bytes' = bytes + Length(Extra[cursor])
  /\ UNCHANGED <<stage, allow>>

\* Seeded fault: the pattern counts before it is there.
AppendFailsCounting ==
  /\ stage = "append" /\ cursor <= Len(Extra)
  /\ stage' = "failed" /\ count' = count + 1
  /\ UNCHANGED <<allow, slots, total, bytes, cursor>>

\* The pattern is too long or too much, or malloc() fails.
AppendFails == stage = "append" /\ cursor <= Len(Extra) /\ Fails

AppendEnds == stage = "append" /\ cursor > Len(Extra) /\ Move("ready")

\* After the checks, or the report of the failure.
Destroy ==
  /\ stage \in {"ready", "failed"} /\ stage' = "destroyed"
  /\ allow' = <<>> /\ slots' = <<>> /\ count' = 0 /\ bytes' = 0 /\ total' = 0 /\ cursor' = 1

--------------------------------------------------------------------------------

ParseLine == Parse /\ UNCHANGED <<fileVars, patternVars>>

LoadFile ==
  Loading /\ ~Staged /\ ReadFile /\ UNCHANGED <<lineVars, patternVars>>

LoadText == (AllocatePatterns \/ TextFails) /\ UNCHANGED lineVars

ReadAllow ==
  /\ CopyPattern \/ CopyFails \/ CopyEnds
  /\ UNCHANGED <<lineVars, fileVars>>

AppendPatterns ==
  /\ \/ NothingToAppend \/ GrowPatterns \/ GrowFails
     \/ AppendPattern \/ AppendFails \/ AppendEnds \/ Destroy
  /\ UNCHANGED <<lineVars, fileVars>>

Ended == phase \in {"help", "refused", "no memory"} \/ stage = "destroyed"

Run == ParseLine \/ LoadFile \/ LoadText \/ ReadAllow \/ AppendPatterns
Other == WriteFile /\ UNCHANGED <<lineVars, patternVars>>
Finished == Ended /\ UNCHANGED vars

Next == Run \/ Other \/ Finished

Spec == Init /\ [][Next]_vars

--------------------------------------------------------------------------------
(* Properties *)

Slots == Patterns \cup {Null, Garbage}

TypeOK ==
  /\ LineTypeOK /\ FileTypeOK
  /\ stage \in {"text", "copy", "loaded", "append", "ready", "failed", "destroyed"}
  /\ allow \in Seq(Entries) /\ slots \in Seq(Slots)
  /\ count \in Nat /\ total \in Nat /\ bytes \in Nat /\ cursor \in Nat \ {0}

\* The parser accepts the command lines of the usage text and no others, and
\* hands on what they say: of options that repeat the last one, of patterns and
\* paths all in their order, and after "--" nothing but paths.
ParsedAsWritten == stage = "text" /\ reading = "closed" => LineAsWritten

\* The patterns of the file and of the command line together stay within the
\* limits on their number and their bytes, and no limit is ever subtracted from
\* something larger (add_pattern_size, valid_extra_pattern_count).
BudgetKept ==
  /\ count <= MaxPatterns /\ bytes <= MaxBytes
  /\ stage \in {"copy", "append"} => total = bytes

\* Whenever the run may have to give up, the slots that cli_config_destroy frees
\* are exactly those that hold a pattern or a null pointer.
SlotsOwned ==
  /\ count <= Len(slots)
  /\ \A n \in DOMAIN slots : IF n <= count THEN slots[n] # Garbage
                             ELSE slots[n] \notin Patterns

\* The policy that is checked has the patterns of the file, all of them, and
\* then those of the command line in their order: the last match decides.
PolicyInOrder ==
  stage = "ready" =>
    /\ count = Len(allow) + Len(Extra)
    /\ \A n \in 1..Len(allow) : slots[n] = allow[n]
    /\ \A n \in 1..Len(Extra) : slots[Len(allow) + n] = Extra[n]

================================================================================
