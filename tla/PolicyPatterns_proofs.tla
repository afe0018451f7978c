-------------------------- MODULE PolicyPatterns_proofs --------------------------
(***************************************************************************)
(* For command lines, files and lists of patterns of every length: the     *)
(* command line is read as it is written, the limits are kept, every slot  *)
(* that is freed is owned, the policy is the file's patterns and then the  *)
(* command line's, and a file that only grows or only shrinks while it is  *)
(* read is read whole or refused.                                          *)
(***************************************************************************)
EXTENDS PolicyPatterns, SequenceTheorems, FiniteSetTheorems, NaturalsInduction,
        WellFoundedInduction, TLAPS

--------------------------------------------------------------------------------
(* The inductive invariant *)

\* The words before index have been read for what they are.
Read == 1..(index - 1)

PlaceSoFar ==
  /\ index <= Len(argv) + 1 /\ optionsEnded \in BOOLEAN
  /\ IF optionsEnded THEN Separators(argv) \cap Read # {}
     ELSE Separators(argv) \cap Read = {} /\ (index <= Len(argv) => index \in TokenWords(argv))

CommandSoFar ==
  \/ CommandWords(argv) \cap Read = {} /\ arguments.command = "config"
  \/ \E n \in FirstCommand(argv) \cap Read : arguments.command = argv[n]

ListsSoFar ==
  /\ InOrder(arguments.paths, PathWords(argv) \cap Read, argv)
  /\ InOrder(arguments.overrides, PatternWords(argv) \cap Read, PatternsGiven(argv))

ValuesSoFar ==
  /\ LastGiven(argv, Given(argv, {"--root"}) \cap Read, ".", arguments.root)
  /\ LastGiven(argv, Given(argv, {"--config"}) \cap Read, NoWord, arguments.config)
  /\ LastGiven(argv, Given(argv, {"--format"}) \cap Read, "text", arguments.format)
  /\ LastGiven(argv, Given(argv, {"--base"}) \cap Read, NoWord, arguments.base)

SourcesSoFar ==
  /\ arguments.switches = {argv[n] : n \in SwitchWords(argv) \cap Read}
  /\ \A m, n \in SourceWords(argv) \cap Read : argv[m] = argv[n] => m = n

SenseSoFar ==
  /\ \A n \in OptionWords(argv) \cap Read :
       argv[n] \in Switches \cup Valued /\ (argv[n] \in Valued => n < Len(argv))
  /\ \A n \in Given(argv, {"--format"}) \cap Read : argv[n + 1] \in {"text", "json"}
  /\ \A n \in PatternWords(argv) \cap Read : argv[n + 1] \notin Banged

LineSoFar ==
  /\ PlaceSoFar
  /\ CommandSoFar
  /\ ListsSoFar
  /\ ValuesSoFar
  /\ SourcesSoFar
  /\ SenseSoFar

\* What has been read, and what is there to be read.
ReadSoFar ==
  /\ measured = Len(original) /\ measured <= MaxFile /\ Len(data) <= measured
  /\ reading = "read" => Len(data) = measured /\ Len(file) <= measured
  /\ written \subseteq {"grown"} =>
       /\ Len(file) >= measured
       /\ \A n \in 1..measured : file[n] = original[n]
  /\ written \subseteq {"shrunk"} =>
       /\ Len(file) <= measured
       /\ \A n \in 1..Len(file) : file[n] = original[n]
  /\ written \subseteq {"grown"} \/ written \subseteq {"shrunk"} =>
       \A n \in 1..Len(data) : data[n] = original[n]

FileSoFar ==
  /\ reading \in {"closed", "open"} => data = <<>>
  /\ reading \in {"reading", "read"} => ReadSoFar

\* How far copying and appending have come.
PolicySoFar ==
  /\ stage # "text" => phase = "parsed"
  /\ stage \in {"text", "destroyed"} => slots = <<>> /\ count = 0 /\ bytes = 0
  /\ stage = "copy" =>
       /\ count = Len(allow) /\ Len(slots) = count /\ cursor <= count + 1
       /\ \A n \in 1..(cursor - 1) : slots[n] = allow[n]
       /\ \A n \in cursor..count : slots[n] = Null
  /\ stage = "loaded" =>
       /\ count = Len(allow) /\ Len(slots) = count
       /\ \A n \in 1..count : slots[n] = allow[n]
  /\ stage = "append" =>
       /\ count = Len(allow) + cursor - 1 /\ cursor <= Len(Extra) + 1
       /\ Len(slots) = Len(allow) + Len(Extra) /\ Len(slots) <= MaxPatterns
       /\ \A n \in 1..Len(allow) : slots[n] = allow[n]
       /\ \A n \in 1..(cursor - 1) : slots[Len(allow) + n] = Extra[n]
       /\ \A n \in (count + 1)..Len(slots) : slots[n] = Garbage

IInv ==
  /\ TypeOK
  /\ BudgetKept
  /\ SlotsOwned
  /\ PolicySoFar
  /\ PolicyInOrder
  /\ FileSoFar

--------------------------------------------------------------------------------
LEMMA MarksAreNoPatterns ==
  /\ Null \notin Patterns /\ Garbage \notin Patterns /\ NotAString \notin Patterns
  /\ Null # Garbage
BY MarksAssumption DEF Null, Garbage, NotAString, Mark, Patterns, Overrides

LEMMA LengthType == ASSUME NEW p \in Patterns PROVE Length(p) \in Nat
BY SizeAssumption DEF Length, Patterns, Overrides

\* Within never has to subtract from something smaller, and then says what it should.
LEMMA WithinMeansFits ==
  ASSUME NEW limit \in Nat, NEW used \in Nat, NEW extra \in Nat,
         used <= limit, Within(limit, used, extra)
  PROVE  used + extra <= limit
BY DEF Within

LEMMA InitIInv == Init => IInv
<1> SUFFICES ASSUME Init PROVE IInv
  OBVIOUS
<1> USE DEF Init, InitLine, InitFile
<1>1. Defaults \in Arguments
  BY DEF Defaults, Arguments
<1>2. LineTypeOK
  BY <1>1, CommandLinesAssumption DEF LineTypeOK
<1>3. FileTypeOK /\ FileSoFar
  BY DEF FileTypeOK, FileSoFar, Kinds
<1>4. TypeOK
  BY <1>2, <1>3 DEF TypeOK
<1>5. BudgetKept /\ SlotsOwned /\ PolicySoFar /\ PolicyInOrder
  BY LimitsAssumption DEF BudgetKept, SlotsOwned, PolicySoFar, PolicyInOrder
<1> QED  BY <1>3, <1>4, <1>5 DEF IInv

--------------------------------------------------------------------------------
(* The parser *)

LEMMA LenType == ASSUME NEW S, NEW s \in Seq(S) PROVE Len(s) \in Nat
OBVIOUS

LEMMA GrownType ==
  ASSUME NEW n \in Nat, NEW c \in Nat PROVE Grown(n, c) \in Nat
BY CapacityAssumption DEF Grown

LEMMA NextIndex ==
  ASSUME NEW i \in Nat \ {0}, NEW step \in {1, 2} PROVE i + step \in Nat \ {0}
OBVIOUS

LEMMA ParseType ==
  ASSUME LineTypeOK, Parse PROVE LineTypeOK'
<1> USE DEF LineTypeOK
<1>1. ASSUME NEW outcome \in {"parsed", "refused", "no memory", "help"}, Stop(outcome)
      PROVE  LineTypeOK'
  BY <1>1 DEF Stop
<1>2. ASSUME NEW step \in {1, 2}, NEW said \in Arguments, Consume(step, said)
      PROVE  LineTypeOK'
  <2>1. /\ index' = index + step /\ arguments' = said
        /\ UNCHANGED <<argv, phase>>
    BY <1>2 DEF Consume
  <2>2. index' \in Nat \ {0}
    BY <2>1, NextIndex
  <2> HIDE DEF LineTypeOK
  <2>3. argv \in Seq(Tokens) /\ phase \in {"parsing", "parsed", "refused", "no memory", "help"}
    BY DEF LineTypeOK
  <2> QED  BY <2>1, <2>2, <2>3, Zenon DEF LineTypeOK
<1>3. CASE Parsing
  <2>1. Token \in Tokens /\ (HasValue => Value \in Tokens)
    BY <1>3 DEF Parsing, Token, HasValue, Value
  <2>2. CASE ReadSeparator
    <3>1. index' = index + 1 /\ UNCHANGED <<argv, arguments, phase>>
      BY <2>2 DEF ReadSeparator
    <3>2. index' \in Nat \ {0}
      BY <3>1, NextIndex
    <3> QED  BY <3>1, <3>2, Zenon
  <2>3. CASE ReadCommand
    <3>1. [arguments EXCEPT !.command = Token] \in Arguments
      BY <2>3 DEF ReadCommand, IsCommand, Arguments
    <3> QED  BY <1>2, <2>3, <3>1 DEF ReadCommand
  <2>4. CASE ReadSwitch
    <3>1. [arguments EXCEPT !.switches = @ \cup {Token}] \in Arguments
      BY <2>4 DEF ReadSwitch, Arguments
    <3> QED  BY <1>2, <2>4, <3>1 DEF ReadSwitch
  <2>5. CASE ReadString
    <3>0. Value \in Tokens
      BY <2>1, <2>5 DEF ReadString
    <3>1. /\ [arguments EXCEPT !.root = Value] \in Arguments
          /\ [arguments EXCEPT !.config = Value] \in Arguments
          /\ Value \in {"text", "json"} => [arguments EXCEPT !.format = Value] \in Arguments
          /\ [arguments EXCEPT !.base = Value] \in Arguments
      BY <3>0 DEF Arguments
    <3> QED  BY <1>2, <2>5, <3>1 DEF ReadString
  <2>6. CASE ReadPattern
    <3> DEFINE new == [word |-> Value, denied |-> Token = "--deny"]
    <3>1. new \in Overrides
      BY <2>1, <2>6 DEF ReadPattern, Overrides
    <3>2. arguments \in Arguments /\ arguments.overrides \in Seq(Overrides)
          /\ arguments.overrideCapacity \in Nat
      BY DEF Arguments
    <3>3. Append(arguments.overrides, new) \in Seq(Overrides)
      BY <3>1, <3>2, AppendProperties
    <3>4. Grown(Len(arguments.overrides), arguments.overrideCapacity) \in Nat
      <4>1. Len(arguments.overrides) \in Nat
        BY <3>2, LenType
      <4> QED  BY <3>2, <4>1, GrownType
    <3>5. [arguments EXCEPT
             !.overrides = Append(@, new),
             !.overrideCapacity = Grown(Len(arguments.overrides), @)] \in Arguments
      BY <3>2, <3>3, <3>4 DEF Arguments
    <3> QED  BY <1>2, <2>6, <3>5 DEF ReadPattern
  <2>7. CASE ReadPath
    <3>1. arguments \in Arguments /\ arguments.paths \in Seq(Tokens)
          /\ arguments.pathCapacity \in Nat
      BY DEF Arguments
    <3>2. Append(arguments.paths, Token) \in Seq(Tokens)
      BY <2>1, <3>1, AppendProperties
    <3>3. Grown(Len(arguments.paths), arguments.pathCapacity) \in Nat
      <4>1. Len(arguments.paths) \in Nat
        BY <3>1, LenType
      <4> QED  BY <3>1, <4>1, GrownType
    <3>4. [arguments EXCEPT
             !.paths = Append(@, Token),
             !.pathCapacity = Grown(Len(arguments.paths), @)] \in Arguments
      BY <3>1, <3>2, <3>3 DEF Arguments
    <3> QED  BY <1>2, <2>7, <3>4 DEF ReadPath
  <2>8. CASE RefuseOption
    BY <1>1, <2>8 DEF RefuseOption
  <2>9. CASE ParserFails
    BY <1>1, <2>9 DEF ParserFails
  <2>10. CASE Help \/ AcceptArguments \/ RefuseArguments
    BY <1>1, <2>10 DEF Help, AcceptArguments, RefuseArguments
  <2> QED  BY <2>2, <2>3, <2>4, <2>5, <2>6, <2>7, <2>8, <2>9, <2>10 DEF Parse
<1>4. CASE ~Parsing
  <2>1. Help \/ AcceptArguments \/ RefuseArguments
    BY <1>4 DEF Parse, ReadSeparator, ReadCommand, ReadSwitch, ReadString, ReadPattern,
                ReadPath, RefuseOption, ParserFails
  <2> QED  BY <1>1, <2>1 DEF Help, AcceptArguments, RefuseArguments
<1> QED  BY <1>3, <1>4

\* The parser is over before anything is loaded.
LEMMA ParseWhileParsing == Parse => phase = "parsing"
BY DEF Parse, Help, ReadSeparator, ReadCommand, ReadSwitch, ReadString, ReadPattern,
       ReadPath, RefuseOption, ParserFails, AcceptArguments, RefuseArguments, Parsing

LEMMA ParseIInv == IInv /\ ParseLine => IInv'
<1> SUFFICES ASSUME IInv, ParseLine PROVE IInv'
  OBVIOUS
<1>1. phase = "parsing" /\ stage = "text" /\ stage' = "text"
  BY ParseWhileParsing DEF IInv, PolicySoFar, ParseLine, patternVars
<1>2. UNCHANGED <<fileVars, patternVars>>
  BY DEF ParseLine
<1>3. LineTypeOK'
  BY ParseType DEF ParseLine, IInv, TypeOK
<1>4. TypeOK'
  BY <1>2, <1>3 DEF IInv, TypeOK, FileTypeOK, fileVars, patternVars
<1>5. FileSoFar'
  BY <1>2 DEF IInv, FileSoFar, ReadSoFar, fileVars
<1>6. BudgetKept' /\ SlotsOwned' /\ PolicySoFar' /\ PolicyInOrder'
  BY <1>1, <1>2 DEF IInv, BudgetKept, SlotsOwned, PolicySoFar, PolicyInOrder, patternVars
<1> QED  BY <1>4, <1>5, <1>6 DEF IInv

--------------------------------------------------------------------------------
(* The file *)

\* Nothing but the file changes.
LEMMA FileOnly ==
  ASSUME IInv, UNCHANGED <<lineVars, patternVars>>, FileTypeOK', FileSoFar'
  PROVE  IInv'
<1>1. TypeOK'
  BY DEF IInv, TypeOK, LineTypeOK, lineVars, patternVars
<1>2. BudgetKept' /\ SlotsOwned' /\ PolicySoFar' /\ PolicyInOrder'
  BY DEF IInv, BudgetKept, SlotsOwned, PolicySoFar, PolicyInOrder, Extra,
         lineVars, patternVars
<1> QED  BY <1>1, <1>2 DEF IInv

LEMMA ReadFileInv ==
  ASSUME FileTypeOK, FileSoFar, ReadFile
  PROVE  FileTypeOK' /\ FileSoFar'
<1> USE DEF FileTypeOK
<1>1. CASE Open
  <2>1. file' \in Seq(Nat)
    BY <1>1, FileAssumption DEF Open
  <2> QED  BY <1>1, <2>1 DEF Open, FileSoFar
<1>2. CASE OpenFails \/ MeasureFails \/ ReadFails
  BY <1>2 DEF OpenFails, MeasureFails, ReadFails, Enter, FileSoFar
<1>3. CASE Measure
  <2> USE <1>3 DEF Measure
  <2>1. data = <<>> /\ Len(file) \in Nat
    BY DEF FileSoFar
  <2>2. ReadSoFar'
    BY <2>1 DEF ReadSoFar
  <2> QED  BY <2>2 DEF FileSoFar
<1>4. CASE ReadUnit
  <2> USE <1>4 DEF ReadUnit
  <2>0. ReadSoFar /\ Len(data) \in Nat /\ Len(data) < measured /\ Len(data) < Len(file)
    BY DEF FileSoFar
  <2>1. /\ data' \in Seq(Nat) /\ Len(data') = Len(data) + 1
        /\ data'[Len(data) + 1] = file[Len(data) + 1]
        /\ \A n \in 1..Len(data) : data'[n] = data[n]
    BY <2>0
  <2>2. written \subseteq {"grown"} \/ written \subseteq {"shrunk"} =>
          file[Len(data) + 1] = original[Len(data) + 1]
    BY <2>0 DEF ReadSoFar
  <2>3. written \subseteq {"grown"} \/ written \subseteq {"shrunk"} =>
          \A n \in 1..Len(data') : data'[n] = original[n]
    BY <2>0, <2>1, <2>2, SMTT(30) DEF ReadSoFar
  <2>4. ReadSoFar'
    BY <2>0, <2>1, <2>3, SMTT(30) DEF ReadSoFar
  <2> QED  BY <2>1, <2>4 DEF FileSoFar
<1>5. CASE ReadEnds
  BY <1>5 DEF ReadEnds, Enter, FileSoFar, ReadSoFar
<1> QED  BY <1>1, <1>2, <1>3, <1>4, <1>5 DEF ReadFile

\* What another process has done so far, one kind of write at a time.
LEMMA WriteKinds ==
  ASSUME FileTypeOK, NEW kind \in Kinds, NEW text, WriteAs(kind, text)
  PROVE  /\ written' \subseteq Kinds /\ kind \in written'
         /\ \A one : written' \subseteq {one} => written \subseteq {one} /\ one = kind
         /\ reading = "reading" /\ file' = text /\ writes' = writes + 1
         /\ UNCHANGED <<reading, measured, data, original>>
BY DEF WriteAs, FileTypeOK

LEMMA WriteFileInv ==
  ASSUME FileTypeOK, FileSoFar, WriteFile
  PROVE  FileTypeOK' /\ FileSoFar'
<1> USE DEF FileTypeOK
<1>1. CASE Grow
  <2>1. /\ written' \subseteq Kinds /\ ~(written' \subseteq {"shrunk"})
        /\ written' \subseteq {"grown"} => written \subseteq {"grown"}
        /\ reading = "reading" /\ file' = Append(file, writes + 1) /\ writes' = writes + 1
        /\ UNCHANGED <<reading, measured, data, original>>
    BY <1>1, WriteKinds DEF Grow, Kinds
  <2>2. /\ file' \in Seq(Nat) /\ Len(file') = Len(file) + 1 /\ Len(file) \in Nat
        /\ \A n \in 1..Len(file) : file'[n] = file[n]
    BY <2>1
  <2>3. ReadSoFar
    BY <2>1 DEF FileSoFar
  <2>4. ReadSoFar'
    BY <2>1, <2>2, <2>3 DEF ReadSoFar
  <2> QED  BY <2>1, <2>2, <2>4 DEF FileSoFar
<1>2. CASE Shrink
  <2>1. /\ written' \subseteq Kinds /\ ~(written' \subseteq {"grown"})
        /\ written' \subseteq {"shrunk"} => written \subseteq {"shrunk"}
        /\ reading = "reading" /\ writes' = writes + 1
        /\ file' = SubSeq(file, 1, Len(file) - 1)
        /\ UNCHANGED <<reading, measured, data, original>>
    BY <1>2, WriteKinds DEF Shrink, Kinds
  <2>2. Len(file) \in Nat /\ Len(file) >= 1
    BY <1>2 DEF Shrink
  <2>3. /\ file' \in Seq(Nat) /\ Len(file') = Len(file) - 1
        /\ \A n \in 1..(Len(file) - 1) : file'[n] = file[n]
    <3> DEFINE last == Len(file) - 1
    <3>1. last \in Int /\ \A n \in 1..last : file[n] \in Nat
      BY <2>2
    <3>2. /\ SubSeq(file, 1, last) \in Seq(Nat)
          /\ Len(SubSeq(file, 1, last)) = IF 1 <= last THEN last - 1 + 1 ELSE 0
          /\ \A n \in 1..(last - 1 + 1) : SubSeq(file, 1, last)[n] = file[1 + n - 1]
      <4> HIDE DEF last
      <4> QED  BY <3>1, SubSeqProperties
    <3>3. Len(file') = last
      <4>1. Len(file') = IF 1 <= last THEN last - 1 + 1 ELSE 0
        BY <2>1, <3>2
      <4>2. last \in Nat
        BY <2>2
      <4>3. \A m \in Nat : (IF 1 <= m THEN m - 1 + 1 ELSE 0) = m
        OBVIOUS
      <4> HIDE DEF last
      <4> QED  BY <4>1, <4>2, <4>3
    <3>4. \A n \in 1..last : file'[n] = file[n]
      BY <2>1, <3>1, <3>2
    <3> QED  BY <2>1, <3>2, <3>3, <3>4
  <2>4. ReadSoFar
    BY <2>1 DEF FileSoFar
  <2>5. /\ measured' = Len(original') /\ measured' <= MaxFile /\ Len(data') <= measured'
        /\ (reading' = "read" => Len(data') = measured' /\ Len(file') <= measured')
    BY <2>1, <2>4, Zenon DEF ReadSoFar
  <2>6. written' \subseteq {"shrunk"} =>
          /\ Len(file') <= measured'
          /\ \A n \in 1..Len(file') : file'[n] = original'[n]
    <3> SUFFICES ASSUME written' \subseteq {"shrunk"} PROVE
          /\ Len(file') <= measured'
          /\ \A n \in 1..Len(file') : file'[n] = original'[n]
      OBVIOUS
    <3>1. Len(file) <= measured /\ \A n \in 1..Len(file) : file[n] = original[n]
      BY <2>1, <2>4 DEF ReadSoFar
    <3> QED  BY <2>1, <2>2, <2>3, <3>1
  <2>7. written' \subseteq {"grown"} \/ written' \subseteq {"shrunk"} =>
          \A n \in 1..Len(data') : data'[n] = original'[n]
    BY <2>1, <2>4 DEF ReadSoFar
  <2>8. ReadSoFar'
    BY <2>1, <2>5, <2>6, <2>7, Zenon DEF ReadSoFar
  <2> QED  BY <2>1, <2>3, <2>8 DEF FileSoFar
<1>3. CASE Overwrite
  <2> PICK n \in DOMAIN file : WriteAs("overwritten", [file EXCEPT ![n] = writes + 1])
    BY <1>3 DEF Overwrite
  <2>1. /\ written' \subseteq Kinds
        /\ ~(written' \subseteq {"shrunk"}) /\ ~(written' \subseteq {"grown"})
        /\ reading = "reading" /\ writes' = writes + 1
        /\ file' = [file EXCEPT ![n] = writes + 1]
        /\ UNCHANGED <<reading, measured, data, original>>
    BY WriteKinds DEF Kinds
  <2>2. file' \in Seq(Nat)
    BY <2>1
  <2>3. ReadSoFar'
    BY <2>1 DEF FileSoFar, ReadSoFar
  <2> QED  BY <2>1, <2>2, <2>3 DEF FileSoFar
<1> QED  BY <1>1, <1>2, <1>3 DEF WriteFile

--------------------------------------------------------------------------------
(* The patterns *)

LEMMA CloseInv == FileTypeOK /\ Close => FileTypeOK' /\ FileSoFar'
BY DEF Close, FileTypeOK, FileSoFar, Kinds

\* What giving up leaves behind is what was owned before.
LEMMA FailsInv ==
  ASSUME IInv, Fails, UNCHANGED lineVars, stage # "ready", phase = "parsed",
         FileTypeOK', FileSoFar'
  PROVE  IInv'
<1> USE DEF Fails, Move, lineVars
<1>1. TypeOK'
  BY DEF IInv, TypeOK, LineTypeOK
<1>2. BudgetKept' /\ SlotsOwned' /\ PolicySoFar' /\ PolicyInOrder'
  BY DEF IInv, BudgetKept, SlotsOwned, PolicySoFar, PolicyInOrder
<1> QED  BY <1>1, <1>2 DEF IInv

LEMMA LoadTextIInv == IInv /\ LoadText => IInv'
<1> SUFFICES ASSUME IInv, LoadText PROVE IInv'
  OBVIOUS
<1>1. Close
  BY DEF LoadText, AllocatePatterns, TextFails
<1>2. FileTypeOK' /\ FileSoFar'
  BY <1>1, CloseInv DEF IInv, TypeOK
<1>3. CASE TextFails
  BY <1>2, <1>3, FailsInv DEF LoadText, TextFails, Loading
<1>4. CASE AllocatePatterns
  <2> USE <1>4 DEF AllocatePatterns, Loading
  <2> PICK list \in AllowLists :
        /\ Len(list) <= MaxPatterns /\ allow' = list /\ count' = Len(list)
        /\ slots' = [n \in 1..Len(list) |-> Null]
    OBVIOUS
  <2> HIDE DEF AllocatePatterns
  <2>1. list \in Seq(Entries) /\ Len(list) \in Nat
    BY AllowAssumption
  <2>2. /\ stage = "text" /\ stage' = "copy" /\ total' = 0 /\ cursor' = 1
        /\ bytes' = bytes /\ bytes = 0 /\ phase = "parsed" /\ UNCHANGED lineVars
    BY DEF AllocatePatterns, LoadText, IInv, PolicySoFar
  <2>3. slots' \in Seq(Slots) /\ Len(slots') = Len(list)
    BY <2>1 DEF Slots
  <2>4. TypeOK'
    BY <1>2, <2>1, <2>2, <2>3 DEF IInv, TypeOK, LineTypeOK, lineVars
  <2>5. BudgetKept'
    BY <2>1, <2>2, LimitsAssumption DEF BudgetKept
  <2>6. SlotsOwned'
    BY <2>1, <2>3, MarksAreNoPatterns DEF SlotsOwned
  <2>7. PolicySoFar' /\ PolicyInOrder'
    BY <2>1, <2>2, <2>3 DEF PolicySoFar, PolicyInOrder, lineVars
  <2> QED  BY <1>2, <2>4, <2>5, <2>6, <2>7 DEF IInv
<1> QED  BY <1>3, <1>4 DEF LoadText

\* The steps that touch neither the command line nor the file.
LEMMA QuietLine ==
  ASSUME IInv, UNCHANGED <<lineVars, fileVars>>
  PROVE  /\ LineTypeOK' /\ FileTypeOK' /\ FileSoFar'
         /\ Extra' = Extra /\ Extra \in Seq(Patterns) /\ Len(Extra) \in Nat
<1>1. arguments \in Arguments
  BY DEF IInv, TypeOK, LineTypeOK
<1>2. Extra \in Seq(Patterns)
  BY <1>1 DEF Extra, Arguments, Patterns
<1>3. UNCHANGED <<argv, index, arguments, phase>>
  BY DEF lineVars
<1>4. Extra' = Extra /\ LineTypeOK'
  BY <1>3 DEF IInv, TypeOK, LineTypeOK, Extra
<1>5. FileTypeOK' /\ FileSoFar'
  BY DEF IInv, TypeOK, FileTypeOK, FileSoFar, ReadSoFar, fileVars
<1> QED  BY <1>2, <1>4, <1>5

LEMMA CopyPatternIInv ==
  ASSUME IInv, CopyPattern, UNCHANGED <<lineVars, fileVars>> PROVE IInv'
<1> USE DEF CopyPattern
<1> DEFINE p == allow[cursor]
<1>0. /\ stage = "copy" /\ stage' = "copy" /\ cursor <= Len(allow) /\ allow' = allow
      /\ p \in Patterns /\ count' = count /\ cursor' = cursor + 1
      /\ slots' = [slots EXCEPT ![cursor] = p]
      /\ total' = total + Length(p) /\ bytes' = bytes + Length(p)
      /\ Within(MaxBytes, total, Length(p))
  BY DEF Counts
<1> HIDE DEF CopyPattern
<1>1. /\ count = Len(allow) /\ Len(slots) = count /\ (\A n \in 1..(cursor - 1) : slots[n] = allow[n])
      /\ \A n \in cursor..count : slots[n] = Null
      /\ total = bytes /\ bytes <= MaxBytes /\ count <= MaxPatterns
      /\ slots \in Seq(Slots) /\ allow \in Seq(Entries) /\ phase = "parsed"
      /\ count \in Nat /\ total \in Nat /\ bytes \in Nat /\ cursor \in Nat \ {0}
  BY <1>0 DEF IInv, TypeOK, PolicySoFar, BudgetKept
<1>2. Length(p) \in Nat
  BY <1>0, LengthType
<1>3. bytes' <= MaxBytes
  BY <1>0, <1>1, <1>2, WithinMeansFits, LimitsAssumption
<1>4. p \in Slots
  BY <1>0 DEF Slots
<1> HIDE DEF p
<1>5. /\ slots' \in Seq(Slots) /\ Len(slots') = Len(slots)
      /\ slots'[cursor] = p
      /\ \A n \in 1..Len(slots) : n # cursor => slots'[n] = slots[n]
  BY <1>0, <1>1, <1>4
<1>6. TypeOK'
  BY <1>0, <1>1, <1>2, <1>5, QuietLine DEF IInv, TypeOK
<1>7. BudgetKept'
  BY <1>0, <1>1, <1>2, <1>3 DEF BudgetKept
<1>8. SlotsOwned'
  BY <1>0, <1>1, <1>5, MarksAreNoPatterns DEF IInv, SlotsOwned
<1>9. \A n \in 1..cursor : slots'[n] = allow[n]
  BY <1>0, <1>1, <1>5 DEF p
<1>10. PolicySoFar' /\ PolicyInOrder'
  <2>1. phase' = "parsed"
    BY <1>1 DEF lineVars
  <2>2. cursor' - 1 = cursor /\ cursor' <= count' + 1
    BY <1>0, <1>1
  <2>3. \A n \in cursor'..count' : slots'[n] = Null
    BY <1>0, <1>1, <1>5
  <2>4. \A n \in 1..(cursor' - 1) : slots'[n] = allow'[n]
    BY <1>0, <1>9, <2>2
  <2> QED  BY <1>0, <1>1, <1>5, <2>1, <2>2, <2>3, <2>4 DEF PolicySoFar, PolicyInOrder
<1> QED  BY <1>6, <1>7, <1>8, <1>10, QuietLine DEF IInv

LEMMA ReadAllowIInv == IInv /\ ReadAllow => IInv'
<1> SUFFICES ASSUME IInv, ReadAllow PROVE IInv'
  OBVIOUS
<1>1. UNCHANGED <<lineVars, fileVars>>
  BY DEF ReadAllow
<1>2. CASE CopyPattern
  BY <1>1, <1>2, CopyPatternIInv
<1>3. CASE CopyFails
  <2>1. stage = "copy" /\ phase = "parsed"
    BY <1>3 DEF CopyFails, IInv, PolicySoFar
  <2> QED  BY <1>1, <1>3, <2>1, FailsInv, QuietLine DEF CopyFails
<1>4. CASE CopyEnds
  <2> USE <1>4 DEF CopyEnds, Move
  <2>1. /\ stage = "copy" /\ phase = "parsed" /\ count = Len(allow) /\ Len(slots) = count
        /\ cursor - 1 = count /\ (\A n \in 1..(cursor - 1) : slots[n] = allow[n])
    BY DEF IInv, TypeOK, PolicySoFar
  <2>2. TypeOK'
    BY <1>1, QuietLine DEF IInv, TypeOK
  <2>3. BudgetKept' /\ SlotsOwned' /\ PolicyInOrder'
    BY DEF IInv, BudgetKept, SlotsOwned, PolicyInOrder
  <2>4. PolicySoFar'
    BY <1>1, <2>1 DEF PolicySoFar, lineVars
  <2> QED  BY <1>1, <2>2, <2>3, <2>4, QuietLine DEF IInv
<1> QED  BY <1>2, <1>3, <1>4 DEF ReadAllow

LEMMA GrowPatternsIInv ==
  ASSUME IInv, GrowPatterns, UNCHANGED <<lineVars, fileVars>> PROVE IInv'
<1> USE DEF GrowPatterns
<1> DEFINE more == [n \in 1..Len(Extra) |-> Garbage]
<1>0. /\ stage = "loaded" /\ stage' = "append" /\ cursor' = 1 /\ total' = bytes
      /\ slots' = slots \o more /\ UNCHANGED <<allow, count, bytes>>
      /\ Within(MaxPatterns, count, Len(Extra))
  OBVIOUS
<1> HIDE DEF GrowPatterns
<1>1. /\ count = Len(allow) /\ Len(slots) = count /\ (\A n \in 1..count : slots[n] = allow[n]) /\ phase = "parsed"
      /\ slots \in Seq(Slots) /\ count \in Nat /\ bytes \in Nat
      /\ count <= MaxPatterns /\ bytes <= MaxBytes
  BY <1>0 DEF IInv, TypeOK, PolicySoFar, BudgetKept
<1>2. Extra' = Extra /\ Len(Extra) \in Nat
  BY QuietLine
<1>3. count + Len(Extra) <= MaxPatterns
  BY <1>0, <1>1, <1>2, WithinMeansFits, LimitsAssumption
<1>4. more \in Seq(Slots) /\ Len(more) = Len(Extra) /\ \A n \in 1..Len(Extra) : more[n] = Garbage
  BY <1>2 DEF Slots
<1> HIDE DEF more
<1>5. /\ slots' \in Seq(Slots) /\ Len(slots') = Len(slots) + Len(Extra)
      /\ \A n \in 1..Len(slots) : slots'[n] = slots[n]
      /\ \A n \in (Len(slots) + 1)..Len(slots') : slots'[n] = Garbage
  <2>1. /\ slots \o more \in Seq(Slots)
        /\ Len(slots \o more) = Len(slots) + Len(more)
        /\ \A n \in 1..(Len(slots) + Len(more)) :
             (slots \o more)[n] = IF n <= Len(slots) THEN slots[n] ELSE more[n - Len(slots)]
    BY <1>1, <1>4, ConcatProperties
  <2> QED  BY <1>0, <1>1, <1>2, <1>4, <2>1
<1>6. TypeOK'
  BY <1>0, <1>1, <1>5, QuietLine DEF IInv, TypeOK
<1>7. BudgetKept' /\ PolicyInOrder'
  BY <1>0, <1>1 DEF BudgetKept, PolicyInOrder
<1>8. SlotsOwned'
  BY <1>0, <1>1, <1>2, <1>5, MarksAreNoPatterns DEF IInv, SlotsOwned
<1>9. \A n \in 1..count : slots'[n] = allow[n]
  BY <1>0, <1>1, <1>5
<1>10. PolicySoFar'
  BY <1>0, <1>1, <1>2, <1>3, <1>5, <1>9 DEF PolicySoFar, lineVars
<1> QED  BY <1>6, <1>7, <1>8, <1>10, QuietLine DEF IInv

LEMMA AppendPatternIInv ==
  ASSUME IInv, AppendPattern, UNCHANGED <<lineVars, fileVars>> PROVE IInv'
<1> USE DEF AppendPattern
<1> DEFINE p == Extra[cursor]
<1>0. /\ stage = "append" /\ stage' = "append" /\ cursor <= Len(Extra) /\ allow' = allow
      /\ count' = count + 1 /\ cursor' = cursor + 1
      /\ slots' = [slots EXCEPT ![count + 1] = p]
      /\ total' = total + Length(p) /\ bytes' = bytes + Length(p)
      /\ Within(MaxBytes, total, Length(p))
  BY DEF Counts
<1> HIDE DEF AppendPattern
<1>1. /\ count = Len(allow) + cursor - 1 /\ Len(slots) = Len(allow) + Len(Extra)
      /\ Len(slots) <= MaxPatterns /\ (\A n \in 1..Len(allow) : slots[n] = allow[n]) /\ phase = "parsed"
      /\ \A n \in 1..(cursor - 1) : slots[Len(allow) + n] = Extra[n]
      /\ \A n \in (count + 1)..Len(slots) : slots[n] = Garbage
      /\ total = bytes /\ bytes <= MaxBytes
      /\ slots \in Seq(Slots) /\ Len(allow) \in Nat
      /\ count \in Nat /\ total \in Nat /\ bytes \in Nat /\ cursor \in Nat \ {0}
  BY <1>0 DEF IInv, TypeOK, PolicySoFar, BudgetKept
<1>2. Extra' = Extra /\ Len(Extra) \in Nat /\ p \in Patterns
  BY <1>0, <1>1, QuietLine
<1>3. Length(p) \in Nat
  BY <1>2, LengthType
<1>4. bytes' <= MaxBytes
  BY <1>0, <1>1, <1>3, WithinMeansFits, LimitsAssumption
<1>5. p \in Slots /\ p # Garbage
  BY <1>2, MarksAreNoPatterns DEF Slots
<1> HIDE DEF p
<1>6. count + 1 \in 1..Len(slots)
  BY <1>0, <1>1, <1>2
<1>7. /\ slots' \in Seq(Slots) /\ Len(slots') = Len(slots)
      /\ slots'[count + 1] = p
      /\ \A n \in 1..Len(slots) : n # count + 1 => slots'[n] = slots[n]
  BY <1>0, <1>1, <1>5, <1>6
<1>8. TypeOK'
  BY <1>0, <1>1, <1>3, <1>7, QuietLine DEF IInv, TypeOK
<1>9. BudgetKept' /\ PolicyInOrder'
  BY <1>0, <1>1, <1>2, <1>3, <1>4, <1>6, LimitsAssumption DEF BudgetKept, PolicyInOrder
<1>10. SlotsOwned'
  BY <1>0, <1>1, <1>5, <1>6, <1>7 DEF IInv, SlotsOwned
<1>11. \A n \in 1..Len(allow) : slots'[n] = allow[n]
  BY <1>0, <1>1, <1>6, <1>7
<1>12. \A n \in 1..cursor : slots'[Len(allow) + n] = Extra[n]
  <2> TAKE n \in 1..cursor
  <2>1. CASE n = cursor
    BY <1>1, <1>7, <2>1 DEF p
  <2>2. CASE n # cursor
    BY <1>1, <1>6, <1>7, <2>2
  <2> QED  BY <2>1, <2>2
<1>13. PolicySoFar'
  <2>1. \A n \in (count' + 1)..Len(slots') : slots'[n] = Garbage
    BY <1>0, <1>1, <1>7
  <2>2. cursor' - 1 = cursor /\ count' = Len(allow) + cursor' - 1 /\ cursor' <= Len(Extra) + 1
    BY <1>0, <1>1, <1>2
  <2>3. \A n \in 1..(cursor' - 1) : slots'[Len(allow) + n] = Extra[n]
    BY <1>12, <2>2
  <2>4. Len(slots') = Len(allow) + Len(Extra) /\ Len(slots') <= MaxPatterns
    BY <1>1, <1>7
  <2>5. \A n \in 1..Len(allow') : slots'[n] = allow'[n]
    BY <1>0, <1>11
  <2>6. phase' = "parsed"
    BY <1>1 DEF lineVars
  <2> QED  BY <1>0, <1>2, <2>1, <2>2, <2>3, <2>4, <2>5, <2>6 DEF PolicySoFar
<1> QED  BY <1>8, <1>9, <1>10, <1>13, QuietLine DEF IInv

LEMMA AppendPatternsIInv == IInv /\ AppendPatterns => IInv'
<1> SUFFICES ASSUME IInv, AppendPatterns PROVE IInv'
  OBVIOUS
<1>1. UNCHANGED <<lineVars, fileVars>> /\ Extra' = Extra /\ Len(Extra) \in Nat
  BY QuietLine DEF AppendPatterns
<1>2. CASE GrowPatterns
  BY <1>1, <1>2, GrowPatternsIInv
<1>3. CASE AppendPattern
  BY <1>1, <1>3, AppendPatternIInv
<1>4. CASE GrowFails \/ AppendFails
  <2>1. stage \in {"loaded", "append"} /\ phase = "parsed" /\ Fails
    BY <1>4 DEF GrowFails, AppendFails, IInv, PolicySoFar
  <2> QED  BY <1>1, <2>1, FailsInv, QuietLine
<1>5. CASE NothingToAppend \/ AppendEnds
  <2>1. /\ stage \in {"loaded", "append"} /\ phase = "parsed" /\ stage' = "ready"
        /\ UNCHANGED <<allow, slots, count, total, bytes, cursor>>
    BY <1>5 DEF NothingToAppend, AppendEnds, Move, IInv, PolicySoFar
  <2>2. TypeOK'
    BY <1>1, <2>1, QuietLine DEF IInv, TypeOK
  <2>3. BudgetKept' /\ SlotsOwned'
    BY <2>1 DEF IInv, BudgetKept, SlotsOwned
  <2>4. PolicySoFar'
    BY <1>1, <2>1 DEF PolicySoFar, lineVars
  <2>5. /\ count = Len(allow) + Len(Extra)
        /\ \A n \in 1..Len(allow) : slots[n] = allow[n]
        /\ \A n \in 1..Len(Extra) : slots[Len(allow) + n] = Extra[n]
    <3>1. CASE NothingToAppend
      <4>1. Len(Extra) = 0 /\ count = Len(allow) /\ (\A n \in 1..count : slots[n] = allow[n])
        BY <3>1 DEF NothingToAppend, IInv, PolicySoFar
      <4> QED  BY <4>1 DEF IInv, TypeOK
    <3>2. CASE AppendEnds
      <4>1. /\ count = Len(allow) + cursor - 1 /\ cursor <= Len(Extra) + 1
            /\ cursor > Len(Extra) /\ (\A n \in 1..Len(allow) : slots[n] = allow[n]) /\ cursor \in Nat
            /\ \A n \in 1..(cursor - 1) : slots[Len(allow) + n] = Extra[n]
        BY <3>2 DEF AppendEnds, IInv, PolicySoFar, TypeOK
      <4>2. cursor - 1 = Len(Extra)
        BY <1>1, <4>1
      <4>3. count = Len(allow) + Len(Extra)
        BY <1>1, <4>1, <4>2 DEF IInv, TypeOK
      <4> QED  BY <4>1, <4>2, <4>3
    <3> QED  BY <1>5, <3>1, <3>2
  <2>6. PolicyInOrder'
    BY <1>1, <2>1, <2>5 DEF PolicyInOrder
  <2> QED  BY <1>1, <2>2, <2>3, <2>4, <2>6, QuietLine DEF IInv
<1>6. CASE Destroy
  <2> USE <1>6 DEF Destroy
  <2>0. phase = "parsed"
    BY DEF IInv, PolicySoFar
  <2>1. TypeOK'
    BY <1>1, QuietLine DEF IInv, TypeOK
  <2>2. BudgetKept' /\ SlotsOwned' /\ PolicyInOrder'
    BY LimitsAssumption DEF BudgetKept, SlotsOwned, PolicyInOrder
  <2>3. PolicySoFar'
    BY <1>1, <2>0 DEF PolicySoFar, lineVars
  <2> QED  BY <1>1, <2>1, <2>2, <2>3, QuietLine DEF IInv
<1> QED  BY <1>2, <1>3, <1>4, <1>5, <1>6 DEF AppendPatterns

--------------------------------------------------------------------------------
(* The words of a command line *)

\* A set of natural numbers that contains 0 and each successor contains them all.
LEMMA NatSetInduction ==
  ASSUME NEW S, 0 \in S, \A n \in Nat : n \in S => n + 1 \in S
  PROVE  Nat \subseteq S
<1> DEFINE rest == Nat \ S
           below == OpToRel(<, Nat)
<1>1. IsWellFoundedOn(below, Nat)
  BY NatLessThanWellFounded
<1>2. \A x, y \in Nat : y < x => <<y, x>> \in below
  BY DEF OpToRel
<1>3. SUFFICES ASSUME rest # {} PROVE FALSE
  OBVIOUS
<1> HIDE DEF below
<1>4. PICK x \in rest : \A y \in rest : ~(<<y, x>> \in below)
  <2>1. rest \subseteq Nat
    OBVIOUS
  <2> HIDE DEF rest
  <2> QED  BY <1>1, <1>3, <2>1, WFMin
<1>5. x # 0 /\ x - 1 \in Nat /\ x - 1 < x
  OBVIOUS
<1>6. x - 1 \in S
  BY <1>2, <1>4, <1>5
<1>7. (x - 1) + 1 \in S
  BY <1>5, <1>6
<1> QED  BY <1>4, <1>5, <1>7


\* The role of a word by that of the word before it.
LEMMA RolesUnfold ==
  ASSUME NEW line \in Seq(Tokens), NEW n \in 1..Len(line)
  PROVE  Roles(line)[n] = IF n > 1 /\ line[n - 1] \in Valued /\ Roles(line)[n - 1] = "token"
                          THEN "value" ELSE "token"
<1> DEFINE Body(d, k) == IF k > 1 /\ line[k - 1] \in Valued /\ d[k - 1] = "token"
                         THEN "value" ELSE "token"
           Solves(d, m) == d = [k \in 1..m |-> Body(d, k)]
           solved == {m \in Nat : \E d : Solves(d, m)}
<1>1. 0 \in solved
  <2>1. Solves([k \in 1..0 |-> "token"], 0)
    OBVIOUS
  <2> HIDE DEF Solves
  <2> QED  BY <2>1
<1>2. ASSUME NEW m \in Nat, m \in solved PROVE m + 1 \in solved
  <2>1. PICK d : Solves(d, m)
    BY <1>2
  <2> DEFINE e == [k \in 1..(m + 1) |-> Body(d, k)]
  <2>2. \A k \in 1..m : d[k] = Body(d, k)
    BY <2>1
  <2>3. \A k \in 1..(m + 1) : e[k] = Body(d, k)
    OBVIOUS
  <2>4. e = [k \in 1..(m + 1) |-> e[k]]
    OBVIOUS
  <2> HIDE DEF e
  <2>5. \A k \in 1..m : e[k] = d[k]
    BY <2>2, <2>3
  <2>6. ASSUME NEW k \in 1..(m + 1) PROVE e[k] = Body(e, k)
    <3>1. k > 1 => e[k - 1] = d[k - 1]
      BY <2>5
    <3> QED  BY <2>3, <3>1
  <2>7. Solves(e, m + 1)
    <3> HIDE DEF Body
    <3> QED  BY <2>4, <2>6
  <2> HIDE DEF Solves
  <2> QED  BY <2>7
<1>3. \E d : Solves(d, Len(line))
  <2>1. Len(line) \in Nat
    BY LenType
  <2> HIDE DEF solved
  <2>2. Nat \subseteq solved
    BY <1>1, <1>2, NatSetInduction
  <2>3. Len(line) \in solved
    BY <2>1, <2>2
  <2> QED  BY <2>3 DEF solved
<1> DEFINE it == Roles(line)
<1>4. it = CHOOSE d : Solves(d, Len(line))
  BY DEF Roles
<1> HIDE DEF it
<1>5. it = [k \in 1..Len(line) |-> Body(it, k)]
  BY <1>3, <1>4
<1>6. it[n] = Body(it, n)
  BY <1>5
<1> QED  BY <1>6 DEF it

\* A line begins with a token; what follows a token is one, unless it is its value.
LEMMA WordsFollow ==
  ASSUME NEW line \in Seq(Tokens)
  PROVE  /\ 1 <= Len(line) => 1 \in TokenWords(line)
         /\ \A n \in TokenWords(line) :
              /\ n \in 1..Len(line)
              /\ line[n] \notin Valued /\ n + 1 <= Len(line) => n + 1 \in TokenWords(line)
              /\ line[n] \in Valued =>
                   n + 1 \notin TokenWords(line) /\ (n + 2 <= Len(line) => n + 2 \in TokenWords(line))
<1>1. Len(line) \in Nat /\ DOMAIN line = 1..Len(line)
  BY LenType
<1>2. \A n \in 1..Len(line) : n \in TokenWords(line) <=> Roles(line)[n] = "token"
  BY <1>1 DEF TokenWords
<1>3. TokenWords(line) \subseteq 1..Len(line)
  BY <1>1 DEF TokenWords
<1>4. ASSUME 1 <= Len(line) PROVE 1 \in TokenWords(line)
  <2>1. 1 \in 1..Len(line)
    BY <1>1, <1>4
  <2> QED  BY <1>2, <2>1, RolesUnfold
<1>5. ASSUME NEW n \in TokenWords(line), line[n] \notin Valued, n + 1 <= Len(line)
      PROVE  n + 1 \in TokenWords(line)
  <2>1. n + 1 \in 1..Len(line) /\ (n + 1) - 1 = n
    BY <1>1, <1>3, <1>5
  <2>2. Roles(line)[n + 1] = "token"
    BY <1>5, <2>1, RolesUnfold
  <2> QED  BY <1>2, <2>1, <2>2
<1>6. ASSUME NEW n \in TokenWords(line), line[n] \in Valued, n + 1 <= Len(line)
      PROVE  n + 1 \in 1..Len(line) /\ Roles(line)[n + 1] = "value"
  <2>1. n + 1 \in 1..Len(line) /\ (n + 1) - 1 = n /\ n + 1 > 1
    BY <1>1, <1>3, <1>6
  <2>2. Roles(line)[n] = "token"
    BY <1>2, <1>3
  <2> QED  BY <1>6, <2>1, <2>2, RolesUnfold
<1>7. ASSUME NEW n \in TokenWords(line), line[n] \in Valued
      PROVE  n + 1 \notin TokenWords(line)
  <2>1. CASE n + 1 <= Len(line)
    BY <1>2, <1>6, <1>7, <2>1
  <2>2. CASE ~(n + 1 <= Len(line))
    BY <1>1, <1>3, <2>2
  <2> QED  BY <2>1, <2>2
<1>8. ASSUME NEW n \in TokenWords(line), line[n] \in Valued, n + 2 <= Len(line)
      PROVE  n + 2 \in TokenWords(line)
  <2>1. /\ n + 2 \in 1..Len(line) /\ (n + 2) - 1 = n + 1 /\ n + 1 <= Len(line)
    BY <1>1, <1>3, <1>8
  <2>2. Roles(line)[n + 1] # "token"
    BY <1>6, <1>8, <2>1
  <2>3. Roles(line)[n + 2] = "token"
    BY <2>1, <2>2, RolesUnfold
  <2> QED  BY <1>2, <2>1, <2>3
<1> QED  BY <1>3, <1>4, <1>5, <1>7, <1>8

\* The next place is added.
LEMMA OrderGrows ==
  ASSUME NEW S, NEW list \in Seq(S), NEW places, NEW what, NEW i \in Nat,
         places \subseteq 1..(i - 1), InOrder(list, places, what), NEW next \in S, what[i] = next
  PROVE  InOrder(Append(list, next), places \cup {i}, what)
<1> DEFINE more == Append(list, next)
           upto(set, n) == {m \in set : m <= n}
<1>1. IsFiniteSet(places) /\ i \notin places
  <2>1. IsFiniteSet(1..(i - 1))
    BY FS_Interval
  <2>2. IsFiniteSet(places)
    BY <2>1, FS_Subset
  <2>3. i \notin 1..(i - 1)
    OBVIOUS
  <2> QED  BY <2>2, <2>3
<1>2. /\ Cardinality(places \cup {i}) = Cardinality(places) + 1
      /\ Len(list) = Cardinality(places) /\ Len(list) \in Nat
  <2>1. Len(list) = Cardinality(places)
    BY DEF InOrder
  <2>2. Cardinality(places \cup {i}) = Cardinality(places) + 1
    BY <1>1, FS_AddElement
  <2> QED  BY <2>1, <2>2, LenType
<1>3. /\ more \in Seq(S) /\ Len(more) = Len(list) + 1 /\ more[Len(list) + 1] = next
      /\ \A k \in 1..Len(list) : more[k] = list[k]
  BY AppendProperties
<1> HIDE DEF more
<1>4. ASSUME NEW n \in places PROVE more[Cardinality(upto(places \cup {i}, n))] = what[n]
  <2>1. upto(places \cup {i}, n) = upto(places, n)
    OBVIOUS
  <2>2. Cardinality(upto(places, n)) \in 1..Len(list)
    <3>1. upto(places, n) \in SUBSET places /\ n \in upto(places, n)
      OBVIOUS
    <3> HIDE DEF upto
    <3>2. IsFiniteSet(upto(places, n)) /\ Cardinality(upto(places, n)) <= Cardinality(places)
      BY <1>1, <3>1, FS_Subset
    <3>3. Cardinality(upto(places, n)) \in Nat /\ Cardinality(upto(places, n)) # 0
      BY <3>1, <3>2, FS_CardinalityType, FS_EmptySet
    <3> QED  BY <1>2, <3>2, <3>3
  <2>3. list[Cardinality(upto(places, n))] = what[n]
    BY DEF InOrder
  <2> QED  BY <1>3, <2>1, <2>2, <2>3
<1>5. more[Cardinality(upto(places \cup {i}, i))] = what[i]
  <2>1. \A m \in places \cup {i} : m <= i
    OBVIOUS
  <2>2. upto(places \cup {i}, i) = places \cup {i}
    BY <2>1
  <2> QED  BY <1>2, <1>3, <2>2
<1>6. \A n \in places \cup {i} : more[Cardinality(upto(places \cup {i}, n))] = what[n]
  BY <1>4, <1>5
<1> QED  BY <1>2, <1>3, <1>6 DEF InOrder, more

\* An option is given once more.
LEMMA LastGrows ==
  ASSUME NEW line, NEW places, NEW i \in Nat, places \subseteq 1..(i - 1), NEW default
  PROVE  LastGiven(line, places \cup {i}, default, line[i + 1])
<1>1. \A m \in places \cup {i} : m <= i
  OBVIOUS
<1> QED  BY <1>1 DEF LastGiven

\* What has been read, one or two words further on.
LEMMA ReadOn ==
  ASSUME index \in Nat \ {0}, NEW places,
         \/ index' = index + 1
         \/ index' = index + 2 /\ index + 1 \notin places
  PROVE  /\ index \in places => places \cap Read' = (places \cap Read) \cup {index}
         /\ index \notin places => places \cap Read' = places \cap Read
         /\ places \cap Read \subseteq 1..(index - 1)
<1>1. CASE index' = index + 1
  <2>1. Read' = Read \cup {index}
    BY <1>1 DEF Read
  <2> QED  BY <2>1 DEF Read
<1>2. CASE index' = index + 2 /\ index + 1 \notin places
  <2>1. Read' = Read \cup {index, index + 1}
    BY <1>2 DEF Read
  <2> QED  BY <1>2, <2>1 DEF Read
<1> QED  BY <1>1, <1>2

LEMMA WordTypes ==
  ASSUME LineTypeOK, Parsing
  PROVE  /\ index \in Nat \ {0} /\ Len(argv) \in Nat /\ DOMAIN argv = 1..Len(argv)
         /\ index \in 1..Len(argv) /\ argv[index] \in Tokens
         /\ HasValue => argv[index + 1] \in Tokens
BY DEF LineTypeOK, Parsing, HasValue

\* The options, the commands and the rest of the words are different words.
LEMMA WordsDiffer ==
  /\ Commands \cap {w \in Tokens : IsDashed(w)} = {}
  /\ "--" \notin Commands \cup Switches \cup Valued
  /\ \A w \in Switches \cup Valued : IsDashed(w)
  /\ Switches \cap Valued = {}
<1>1. Commands \cap Dashed = {}
  BY WordsAssumption
<1> QED  BY <1>1 DEF Commands, Switches, Valued, IsDashed

\* Where the word at index is: it is the separator, before it or after it.
LEMMA PlaceIs ==
  ASSUME LineTypeOK, PlaceSoFar, Parsing
  PROVE  /\ optionsEnded => index \in After(argv) /\ index \notin Before(argv)
         /\ IsSeparator => /\ index \in Separators(argv) /\ index \notin Before(argv)
                           /\ index \notin After(argv)
         /\ ~optionsEnded /\ Token # "--" =>
              /\ index \in Before(argv) /\ index \notin After(argv)
              /\ index \notin Separators(argv)
<1>1. /\ index \in Nat \ {0} /\ Len(argv) \in Nat /\ DOMAIN argv = 1..Len(argv)
      /\ index \in 1..Len(argv)
  BY WordTypes
<1>2. Separators(argv) \subseteq 1..Len(argv)
  BY <1>1 DEF Separators, TokenWords
<1>3. ASSUME optionsEnded PROVE index \in After(argv) /\ index \notin Before(argv)
  <2>1. PICK m \in Separators(argv) : m \in Read
    BY <1>3, Zenon DEF PlaceSoFar
  <2>2. m < index /\ ~(index < m)
    BY <1>1, <2>1 DEF Read
  <2> QED  BY <1>1, <2>1, <2>2, Zenon DEF After, Before
<1>4. ASSUME ~optionsEnded
      PROVE  /\ index \in TokenWords(argv) /\ index \notin After(argv)
             /\ \A m \in Separators(argv) : index <= m
  <2>1. Separators(argv) \cap Read = {} /\ (index <= Len(argv) => index \in TokenWords(argv))
    BY <1>4, Zenon DEF PlaceSoFar
  <2>2. \A m \in Separators(argv) : index <= m /\ ~(m < index)
    BY <1>1, <1>2, <2>1 DEF Read
  <2>3. index \in TokenWords(argv)
    BY <1>1, <2>1
  <2>4. index \notin After(argv)
    BY <2>2, Zenon DEF After
  <2> QED  BY <2>2, <2>3, <2>4
<1>5. ASSUME IsSeparator PROVE /\ index \in Separators(argv) /\ index \notin Before(argv)
                               /\ index \notin After(argv)
  <2>1. ~optionsEnded /\ argv[index] = "--"
    BY <1>5, Zenon DEF IsSeparator, Token
  <2>2. index \in Separators(argv)
    BY <1>4, <2>1, Zenon DEF Separators
  <2>3. ~(index < index)
    BY <1>1
  <2> QED  BY <1>4, <2>1, <2>2, <2>3, Zenon DEF Before
<1>6. ASSUME ~optionsEnded, Token # "--"
      PROVE  /\ index \in Before(argv) /\ index \notin After(argv)
             /\ index \notin Separators(argv)
  <2>1. index \notin Separators(argv)
    BY <1>6, Zenon DEF Separators, Token
  <2>2. \A m \in Separators(argv) : index < m
    BY <1>1, <1>2, <1>4, <1>6, <2>1
  <2> QED  BY <1>4, <1>6, <2>1, <2>2, Zenon DEF Before
<1> QED  BY <1>3, <1>5, <1>6, Zenon

\* What the word at index is.
LEMMA KindIs ==
  ASSUME LineTypeOK, PlaceSoFar, CommandSoFar, Parsing
  PROVE  /\ IsSeparator => /\ index \notin OptionWords(argv) /\ index \notin CommandWords(argv)
                           /\ index \notin PathWords(argv)
         /\ IsCommand => /\ index \in FirstCommand(argv) /\ index \notin OptionWords(argv)
                         /\ index \notin PathWords(argv)
         /\ IsOption => /\ index \in OptionWords(argv) /\ index \notin CommandWords(argv)
                        /\ index \notin PathWords(argv)
         /\ IsPath => /\ index \in PathWords(argv) /\ index \notin OptionWords(argv)
                      /\ index \in CommandWords(argv) => CommandWords(argv) \cap Read # {}
<1>1. /\ index \in Nat \ {0} /\ Len(argv) \in Nat /\ DOMAIN argv = 1..Len(argv)
      /\ index \in 1..Len(argv) /\ argv[index] \in Tokens
  BY WordTypes
<1>2. /\ optionsEnded => index \in After(argv) /\ index \notin Before(argv)
      /\ IsSeparator => index \notin Before(argv) /\ index \notin After(argv)
      /\ ~optionsEnded /\ Token # "--" => index \in Before(argv) /\ index \notin After(argv)
  BY PlaceIs, Zenon
<1>3. CommandWords(argv) \subseteq 1..Len(argv)
  BY <1>1 DEF CommandWords, Before, TokenWords
<1>4. ASSUME IsSeparator PROVE /\ index \notin OptionWords(argv) /\ index \notin CommandWords(argv)
                               /\ index \notin PathWords(argv)
  BY <1>2, <1>4, Zenon DEF OptionWords, CommandWords, PathWords
<1>5. ASSUME IsCommand PROVE /\ index \in FirstCommand(argv) /\ index \notin OptionWords(argv)
                             /\ index \notin PathWords(argv)
  <2>1. ~optionsEnded /\ argv[index] \in Commands /\ arguments.command = "config"
    BY <1>5, Zenon DEF IsCommand, Token
  <2>2. argv[index] # "--" /\ ~IsDashed(argv[index])
    BY <1>1, <2>1, WordsDiffer
  <2>3. index \in Before(argv) /\ index \notin After(argv)
    BY <1>2, <2>1, <2>2, Zenon DEF Token
  <2>4. index \in CommandWords(argv)
    BY <2>1, <2>3, Zenon DEF CommandWords
  <2>5. "config" \notin Commands
    BY DEF Commands
  <2>6. CommandWords(argv) \cap Read = {}
    BY <2>1, <2>5, Zenon DEF CommandSoFar, FirstCommand, CommandWords
  <2>7. \A m \in CommandWords(argv) : index <= m
    BY <1>1, <1>3, <2>6 DEF Read
  <2>8. index \in FirstCommand(argv)
    BY <2>4, <2>7, Zenon DEF FirstCommand
  <2> QED  BY <2>2, <2>3, <2>8, Zenon DEF OptionWords, PathWords
<1>6. ASSUME IsOption PROVE /\ index \in OptionWords(argv) /\ index \notin CommandWords(argv)
                            /\ index \notin PathWords(argv)
  <2>1. ~optionsEnded /\ IsDashed(argv[index]) /\ Token # "--"
    BY <1>6, Zenon DEF IsOption, IsSeparator, Token
  <2>2. index \in Before(argv) /\ index \notin After(argv)
    BY <1>2, <2>1, Zenon
  <2>3. argv[index] \notin Commands
    BY <1>1, <2>1, WordsDiffer
  <2> QED  BY <2>1, <2>2, <2>3, Zenon DEF OptionWords, PathWords, CommandWords
<1>7. ASSUME IsPath PROVE /\ index \in PathWords(argv) /\ index \notin OptionWords(argv)
                          /\ index \in CommandWords(argv) => CommandWords(argv) \cap Read # {}
  <2>1. CASE optionsEnded
    BY <1>2, <2>1, Zenon DEF PathWords, OptionWords, CommandWords
  <2>2. CASE ~optionsEnded
    <3>1. Token # "--" /\ ~IsDashed(argv[index])
      BY <1>7, <2>2, Zenon DEF IsPath, IsSeparator, IsOption, Token
    <3>2. index \in Before(argv)
      BY <1>2, <2>2, <3>1, Zenon
    <3>3. index \in CommandWords(argv) => arguments.command # "config"
      BY <1>7, <2>2, Zenon DEF IsPath, IsCommand, CommandWords, Token
    <3>4. index \in CommandWords(argv) => CommandWords(argv) \cap Read # {}
      BY <3>3, Zenon DEF CommandSoFar, FirstCommand
    <3>5. index \notin FirstCommand(argv)
      <4>1. ASSUME index \in FirstCommand(argv) PROVE FALSE
        <5>1. PICK m \in CommandWords(argv) : m \in Read
          BY <3>4, <4>1, Zenon DEF FirstCommand
        <5>2. ~(index <= m)
          BY <1>1, <1>3, <5>1 DEF Read
        <5> QED  BY <4>1, <5>2, Zenon DEF FirstCommand
      <4> QED  BY <4>1
    <3> QED  BY <3>1, <3>2, <3>4, <3>5, Zenon DEF PathWords, OptionWords
  <2> QED  BY <2>1, <2>2
<1> QED  BY <1>4, <1>5, <1>6, <1>7, Zenon

\* The word after an option is its value and nothing else.
LEMMA ValueIs ==
  ASSUME LineTypeOK, PlaceSoFar, Parsing, IsOption, Token \in Valued
  PROVE  /\ index + 1 \notin OptionWords(argv) /\ index + 1 \notin CommandWords(argv)
         /\ index + 1 \notin PathWords(argv) /\ index + 1 \notin Separators(argv)
<1>1. /\ index \in Nat \ {0} /\ Len(argv) \in Nat /\ DOMAIN argv = 1..Len(argv)
      /\ index \in 1..Len(argv) /\ argv \in Seq(Tokens)
  BY WordTypes DEF LineTypeOK
<1>2. ~optionsEnded /\ Token # "--"
  BY Zenon DEF IsOption, IsSeparator
<1>3. index \in Before(argv) /\ index \notin Separators(argv)
  BY <1>2, PlaceIs, Zenon
<1>4. index \in TokenWords(argv) /\ argv[index] \in Valued
  BY <1>3, Zenon DEF Before, Token
<1>5. index + 1 \notin TokenWords(argv)
  BY <1>1, <1>4, WordsFollow
<1>6. index + 1 \notin Separators(argv) /\ index + 1 \notin Before(argv)
  BY <1>5, Zenon DEF Separators, Before
<1>7. index + 1 \notin After(argv)
  <2>1. ASSUME NEW m \in Separators(argv), m < index + 1 PROVE FALSE
    <3>1. Separators(argv) \cap Read = {}
      BY <1>2, Zenon DEF PlaceSoFar
    <3>2. m \in 1..Len(argv)
      BY <1>1 DEF Separators, TokenWords
    <3>3. m = index
      BY <1>1, <2>1, <3>1, <3>2 DEF Read
    <3> QED  BY <1>3, <3>3
  <2> QED  BY <2>1, Zenon DEF After
<1> QED  BY <1>6, <1>7, Zenon DEF OptionWords, CommandWords, PathWords

\* The parser goes on to the next word it has not taken.
LEMMA PlaceNext ==
  ASSUME LineTypeOK, PlaceSoFar, Parsing, argv' = argv,
         \/ IsSeparator /\ index' = index + 1 /\ optionsEnded' = TRUE
         \/ /\ optionsEnded' = optionsEnded /\ ~IsSeparator
            /\ optionsEnded \/ Token \notin Valued
            /\ index' = index + 1
         \/ /\ optionsEnded' = optionsEnded
            /\ IsOption /\ Token \in Valued /\ HasValue /\ index' = index + 2
  PROVE  PlaceSoFar'
<1>1. /\ index \in Nat \ {0} /\ Len(argv) \in Nat /\ DOMAIN argv = 1..Len(argv)
      /\ index \in 1..Len(argv) /\ argv \in Seq(Tokens)
  BY WordTypes DEF LineTypeOK
<1>2. CASE IsSeparator /\ index' = index + 1 /\ optionsEnded' = TRUE
  <2>1. index \in Separators(argv)
    BY <1>2, PlaceIs, Zenon
  <2>2. index' <= Len(argv) + 1 /\ index \in Read'
    BY <1>1, <1>2 DEF Read
  <2> QED  BY <1>2, <2>1, <2>2, Zenon DEF PlaceSoFar
<1>3. CASE optionsEnded /\ optionsEnded' = optionsEnded /\ index' = index + 1
  <2>1. Separators(argv) \cap Read # {}
    BY <1>3, Zenon DEF PlaceSoFar
  <2>2. Read \subseteq Read' /\ index' <= Len(argv) + 1
    BY <1>1, <1>3 DEF Read
  <2> QED  BY <1>3, <2>1, <2>2, Zenon DEF PlaceSoFar
<1>4. CASE ~optionsEnded /\ optionsEnded' = optionsEnded /\ ~IsSeparator
           /\ Token \notin Valued /\ index' = index + 1
  <2>1. Token # "--"
    BY <1>4, Zenon DEF IsSeparator
  <2>2. index \in Before(argv) /\ index \notin Separators(argv)
    BY <1>4, <2>1, PlaceIs, Zenon
  <2>3. Separators(argv) \cap Read = {}
    BY <1>4, Zenon DEF PlaceSoFar
  <2>4. Separators(argv) \cap Read' = {}
    BY <1>1, <1>4, <2>2, <2>3, ReadOn
  <2>5. index \in TokenWords(argv) /\ argv[index] \notin Valued
    BY <1>4, <2>2, Zenon DEF Before, Token
  <2>6. index' <= Len(argv) + 1 /\ (index' <= Len(argv) => index' \in TokenWords(argv))
    BY <1>1, <1>4, <2>5, WordsFollow
  <2>7. ~optionsEnded' /\ optionsEnded' \in BOOLEAN
    BY <1>4, Zenon DEF PlaceSoFar
  <2> QED  BY <2>4, <2>6, <2>7, Zenon DEF PlaceSoFar
<1>5. CASE optionsEnded' = optionsEnded /\ IsOption /\ Token \in Valued /\ HasValue
           /\ index' = index + 2
  <2>1. ~optionsEnded /\ Token # "--"
    BY <1>5, Zenon DEF IsOption, IsSeparator
  <2>2. index \in Before(argv) /\ index \notin Separators(argv)
    BY <2>1, PlaceIs, Zenon
  <2>3. Separators(argv) \cap Read = {}
    BY <2>1, Zenon DEF PlaceSoFar
  <2>4. index + 1 \notin Separators(argv)
    BY <1>5, ValueIs, Zenon
  <2>5. Separators(argv) \cap Read' = {}
    BY <1>1, <1>5, <2>2, <2>3, <2>4, ReadOn
  <2>6. index \in TokenWords(argv) /\ argv[index] \in Valued
    BY <1>5, <2>2, Zenon DEF Before, Token
  <2>7. index < Len(argv)
    BY <1>5 DEF HasValue
  <2>8. index' <= Len(argv) + 1 /\ (index' <= Len(argv) => index' \in TokenWords(argv))
    BY <1>1, <1>5, <2>6, <2>7, WordsFollow
  <2>9. ~optionsEnded' /\ optionsEnded' \in BOOLEAN
    BY <1>5, <2>1, Zenon DEF PlaceSoFar
  <2> QED  BY <2>5, <2>8, <2>9, Zenon DEF PlaceSoFar
<1> QED  BY <1>2, <1>3, <1>4, <1>5, Zenon

\* The next word, or two, are none of these places.
Passed(places) ==
  \/ index' = index + 1 /\ index \notin places
  \/ index' = index + 2 /\ index \notin places /\ index + 1 \notin places

LEMMA PassedOver ==
  ASSUME index \in Nat \ {0}, NEW places, Passed(places), NEW some \in SUBSET places
  PROVE  some \cap Read' = some \cap Read
<1>1. CASE index' = index + 1 /\ index \notin places
  BY <1>1, ReadOn
<1>2. CASE index' = index + 2 /\ index \notin places /\ index + 1 \notin places
  BY <1>2, ReadOn
<1> QED  BY <1>1, <1>2 DEF Passed

\* The sets of options are sets of options.
LEMMA OptionsAre ==
  ASSUME NEW line
  PROVE  /\ \A options : Given(line, options) \subseteq OptionWords(line)
         /\ SwitchWords(line) \subseteq OptionWords(line)
         /\ SourceWords(line) \subseteq OptionWords(line)
         /\ PatternWords(line) \subseteq OptionWords(line)
BY Zenon DEF Given, SwitchWords, SourceWords, PatternWords

LEMMA CommandKept ==
  ASSUME LineTypeOK, CommandSoFar, Parsing, argv' = argv,
         arguments'.command = arguments.command,
         \/ Passed(CommandWords(argv))
         \/ index' = index + 1 /\ CommandWords(argv) \cap Read # {}
  PROVE  CommandSoFar'
<1>0. index \in Nat \ {0}
  BY WordTypes
<1>1. CASE CommandWords(argv) \cap Read = {} /\ arguments.command = "config"
  <2>1. CommandWords(argv) \cap Read' = {}
    BY <1>0, <1>1, PassedOver
  <2> QED  BY <1>1, <2>1, Zenon DEF CommandSoFar
<1>2. CASE \E n \in FirstCommand(argv) \cap Read : arguments.command = argv[n]
  <2>1. Read \subseteq Read'
    BY <1>0 DEF Read, Passed
  <2> QED  BY <1>2, <2>1, Zenon DEF CommandSoFar
<1> QED  BY <1>1, <1>2, Zenon DEF CommandSoFar

\* No option was read.
LEMMA OptionsKept ==
  ASSUME LineTypeOK, ValuesSoFar, SourcesSoFar, SenseSoFar, Parsing, argv' = argv,
         Passed(OptionWords(argv)),
         arguments'.root = arguments.root, arguments'.config = arguments.config,
         arguments'.format = arguments.format, arguments'.base = arguments.base,
         arguments'.switches = arguments.switches
  PROVE  ValuesSoFar' /\ SourcesSoFar' /\ SenseSoFar'
<1>1. \A some \in SUBSET OptionWords(argv) : some \cap Read' = some \cap Read
  BY WordTypes, PassedOver
<1>2. /\ \A options : Given(argv, options) \cap Read' = Given(argv, options) \cap Read
      /\ SwitchWords(argv) \cap Read' = SwitchWords(argv) \cap Read
      /\ SourceWords(argv) \cap Read' = SourceWords(argv) \cap Read
      /\ PatternWords(argv) \cap Read' = PatternWords(argv) \cap Read
      /\ OptionWords(argv) \cap Read' = OptionWords(argv) \cap Read
  BY <1>1, OptionsAre
<1>3. ValuesSoFar'
  BY <1>2, Zenon DEF ValuesSoFar
<1>4. SourcesSoFar'
  <2>1. arguments.switches = {argv[n] : n \in SwitchWords(argv) \cap Read}
    BY DEF SourcesSoFar
  <2>2. \A m, n \in SourceWords(argv) \cap Read : argv[m] = argv[n] => m = n
    BY DEF SourcesSoFar
  <2>3. arguments'.switches = {argv'[n] : n \in SwitchWords(argv) \cap Read'}
    BY <1>2, <2>1
  <2>4. \A m, n \in SourceWords(argv) \cap Read' : argv'[m] = argv'[n] => m = n
    BY <1>2, <2>2
  <2> QED  BY <2>3, <2>4, Zenon DEF SourcesSoFar
<1>5. SenseSoFar'
  BY <1>2, Zenon DEF SenseSoFar
<1> QED  BY <1>3, <1>4, <1>5

LEMMA PathsKept ==
  ASSUME LineTypeOK, Parsing, argv' = argv, Passed(PathWords(argv)),
         InOrder(arguments.paths, PathWords(argv) \cap Read, argv),
         arguments'.paths = arguments.paths
  PROVE  InOrder(arguments.paths, PathWords(argv) \cap Read, argv)'
<1>1. PathWords(argv) \cap Read' = PathWords(argv) \cap Read
  BY WordTypes, PassedOver
<1> QED  BY <1>1

LEMMA PatternsKept ==
  ASSUME LineTypeOK, Parsing, argv' = argv, Passed(PatternWords(argv)),
         InOrder(arguments.overrides, PatternWords(argv) \cap Read, PatternsGiven(argv)),
         arguments'.overrides = arguments.overrides
  PROVE  InOrder(arguments.overrides, PatternWords(argv) \cap Read, PatternsGiven(argv))'
<1>1. PatternWords(argv) \cap Read' = PatternWords(argv) \cap Read
  BY WordTypes, PassedOver
<1> QED  BY <1>1

\* The words of an option with a value have been read.
LEMMA OptionRead ==
  ASSUME LineTypeOK, PlaceSoFar, CommandSoFar, Parsing, argv' = argv,
         IsOption, Token \in Valued, HasValue, index' = index + 2
  PROVE  /\ \A options : IF Token \in options
              THEN Given(argv, options) \cap Read' = (Given(argv, options) \cap Read) \cup {index}
              ELSE Given(argv, options) \cap Read' = Given(argv, options) \cap Read
         /\ SwitchWords(argv) \cap Read' = SwitchWords(argv) \cap Read
         /\ IF Token = "--base"
              THEN SourceWords(argv) \cap Read' = (SourceWords(argv) \cap Read) \cup {index}
              ELSE SourceWords(argv) \cap Read' = SourceWords(argv) \cap Read
         /\ OptionWords(argv) \cap Read' = (OptionWords(argv) \cap Read) \cup {index}
         /\ Passed(PathWords(argv)) /\ Passed(CommandWords(argv))
         /\ \A options : Given(argv, options) \cap Read \subseteq 1..(index - 1)
<1>1. index \in Nat \ {0}
  BY WordTypes
<1>2. /\ index \in OptionWords(argv) /\ index \notin CommandWords(argv)
      /\ index \notin PathWords(argv)
  BY KindIs, Zenon
<1>3. /\ index + 1 \notin OptionWords(argv) /\ index + 1 \notin CommandWords(argv)
      /\ index + 1 \notin PathWords(argv)
  BY ValueIs, Zenon
<1>4. Passed(PathWords(argv)) /\ Passed(CommandWords(argv))
  BY <1>2, <1>3, Zenon DEF Passed
<1>5. \A options : index \in Given(argv, options) <=> Token \in options
  BY <1>2, Zenon DEF Given, HasValue, Token
<1>6. index \in SourceWords(argv) <=> Token = "--base"
  BY <1>2, WordsDiffer DEF SourceWords, Token
<1>7. index \notin SwitchWords(argv)
  BY WordsDiffer DEF SwitchWords, Token
<1>8. \A options : index + 1 \notin Given(argv, options)
  BY <1>3, Zenon DEF Given
<1>9. index + 1 \notin SwitchWords(argv) /\ index + 1 \notin SourceWords(argv)
  BY <1>3, Zenon DEF SwitchWords, SourceWords
<1>10. ASSUME NEW options
       PROVE  /\ IF Token \in options
                 THEN Given(argv, options) \cap Read' = (Given(argv, options) \cap Read) \cup {index}
                 ELSE Given(argv, options) \cap Read' = Given(argv, options) \cap Read
              /\ Given(argv, options) \cap Read \subseteq 1..(index - 1)
  BY <1>1, <1>5, <1>8, ReadOn
<1>11. SwitchWords(argv) \cap Read' = SwitchWords(argv) \cap Read
  BY <1>1, <1>7, <1>9, ReadOn
<1>12. IF Token = "--base"
       THEN SourceWords(argv) \cap Read' = (SourceWords(argv) \cap Read) \cup {index}
       ELSE SourceWords(argv) \cap Read' = SourceWords(argv) \cap Read
  BY <1>1, <1>6, <1>9, ReadOn
<1>13. OptionWords(argv) \cap Read' = (OptionWords(argv) \cap Read) \cup {index}
  BY <1>1, <1>2, <1>3, ReadOn
<1> QED  BY <1>4, <1>10, <1>11, <1>12, <1>13, Zenon

\* A sensible option keeps what has been read sensible.
LEMMA SenseKept ==
  ASSUME LineTypeOK, PlaceSoFar, CommandSoFar, SenseSoFar, Parsing, argv' = argv,
         IsOption, Token \in Valued, HasValue, index' = index + 2,
         Token = "--format" => Value \in {"text", "json"},
         Token \in {"--allow", "--deny"} => Value \notin Banged
  PROVE  SenseSoFar'
<1>1. /\ \A options : IF Token \in options
           THEN Given(argv, options) \cap Read' = (Given(argv, options) \cap Read) \cup {index}
           ELSE Given(argv, options) \cap Read' = Given(argv, options) \cap Read
      /\ OptionWords(argv) \cap Read' = (OptionWords(argv) \cap Read) \cup {index}
  BY OptionRead, Zenon
<1>2. \A n \in OptionWords(argv) \cap Read' :
        argv[n] \in Switches \cup Valued /\ (argv[n] \in Valued => n < Len(argv))
  <2>1. argv[index] \in Valued /\ index < Len(argv)
    BY DEF Token, HasValue
  <2> QED  BY <1>1, <2>1, Zenon DEF SenseSoFar
<1>3. \A n \in Given(argv, {"--format"}) \cap Read' : argv[n + 1] \in {"text", "json"}
  <2>1. CASE Token = "--format"
    BY <1>1, <2>1, Zenon DEF SenseSoFar, Value
  <2>2. CASE Token # "--format"
    BY <1>1, <2>2, Zenon DEF SenseSoFar
  <2> QED  BY <2>1, <2>2
<1>4. \A n \in PatternWords(argv) \cap Read' : argv[n + 1] \notin Banged
  <2>1. CASE Token \in {"--allow", "--deny"}
    BY <1>1, <2>1, Zenon DEF SenseSoFar, Value, PatternWords
  <2>2. CASE Token \notin {"--allow", "--deny"}
    BY <1>1, <2>2, Zenon DEF SenseSoFar, PatternWords
  <2> QED  BY <2>1, <2>2
<1> QED  BY <1>2, <1>3, <1>4, Zenon DEF SenseSoFar

\* The separator says nothing but that it is there.
LEMMA SeparatorRead ==
  ASSUME LineTypeOK, LineSoFar, Parsing, ReadSeparator PROVE LineSoFar'
<1> USE DEF LineSoFar, ListsSoFar
<1>1. /\ IsSeparator /\ index' = index + 1 /\ optionsEnded' = TRUE
      /\ argv' = argv /\ arguments' = arguments
  BY DEF ReadSeparator
<1>2. PlaceSoFar'
  BY <1>1, PlaceNext, Zenon
<1>3. /\ index \notin OptionWords(argv) /\ index \notin CommandWords(argv)
      /\ index \notin PathWords(argv)
  BY <1>1, KindIs, Zenon
<1>4. Passed(OptionWords(argv)) /\ Passed(PathWords(argv)) /\ Passed(PatternWords(argv))
  BY <1>1, <1>3, OptionsAre, Zenon DEF Passed
<1>5. CommandSoFar'
  <2>1. Passed(CommandWords(argv)) /\ arguments'.command = arguments.command
    BY <1>1, <1>3, Zenon DEF Passed
  <2> QED  BY <1>1, <2>1, CommandKept, Zenon
<1>6. ValuesSoFar' /\ SourcesSoFar' /\ SenseSoFar'
  BY <1>1, <1>4, OptionsKept, Zenon
<1>7. ListsSoFar'
  BY <1>1, <1>4, PathsKept, PatternsKept, Zenon
<1> QED  BY <1>2, <1>5, <1>6, <1>7, Zenon

\* The first command is the one that counts.
LEMMA CommandRead ==
  ASSUME LineTypeOK, LineSoFar, Parsing, ReadCommand PROVE LineSoFar'
<1> USE DEF LineSoFar, ListsSoFar
<1>1. /\ IsCommand /\ index' = index + 1 /\ optionsEnded' = optionsEnded /\ argv' = argv
      /\ arguments' = [arguments EXCEPT !.command = argv[index]]
  BY DEF ReadCommand, Consume, Token
<1>2. /\ arguments'.command = argv[index] /\ arguments'.paths = arguments.paths
      /\ arguments'.overrides = arguments.overrides /\ arguments'.switches = arguments.switches
      /\ arguments'.root = arguments.root /\ arguments'.config = arguments.config
      /\ arguments'.format = arguments.format /\ arguments'.base = arguments.base
  BY <1>1 DEF LineTypeOK, Arguments
<1>3. ~IsSeparator /\ Token \notin Valued
  BY <1>1, WordsDiffer, WordTypes DEF IsCommand, IsSeparator, Token
<1>4. PlaceSoFar'
  BY <1>1, <1>3, PlaceNext, Zenon
<1>5. /\ index \in FirstCommand(argv) /\ index \notin OptionWords(argv)
      /\ index \notin PathWords(argv)
  BY <1>1, KindIs, Zenon
<1>6. Passed(OptionWords(argv)) /\ Passed(PathWords(argv)) /\ Passed(PatternWords(argv))
  BY <1>1, <1>5, OptionsAre, Zenon DEF Passed
<1>7. CommandSoFar'
  <2>1. index \in Read'
    BY <1>1, WordTypes DEF Read
  <2> QED  BY <1>1, <1>2, <1>5, <2>1, Zenon DEF CommandSoFar
<1>8. ValuesSoFar' /\ SourcesSoFar' /\ SenseSoFar'
  BY <1>1, <1>2, <1>6, OptionsKept, Zenon
<1>9. ListsSoFar'
  BY <1>1, <1>2, <1>6, PathsKept, PatternsKept, Zenon
<1> QED  BY <1>4, <1>7, <1>8, <1>9, Zenon

\* A switch is given once.
LEMMA SwitchRead ==
  ASSUME LineTypeOK, LineSoFar, Parsing, ReadSwitch PROVE LineSoFar'
<1> USE DEF LineSoFar, ListsSoFar
<1>0. /\ index \in Nat \ {0} /\ index \in 1..Len(argv) /\ argv[index] \in Tokens
  BY WordTypes
<1>1. /\ IsOption /\ Token \in Switches /\ Token \notin arguments.switches
      /\ index' = index + 1 /\ optionsEnded' = optionsEnded /\ argv' = argv
      /\ arguments' = [arguments EXCEPT !.switches = @ \cup {Token}]
  BY DEF ReadSwitch, Consume
<1>2. /\ arguments'.command = arguments.command /\ arguments'.paths = arguments.paths
      /\ arguments'.overrides = arguments.overrides
      /\ arguments'.switches = arguments.switches \cup {Token}
      /\ arguments'.root = arguments.root /\ arguments'.config = arguments.config
      /\ arguments'.format = arguments.format /\ arguments'.base = arguments.base
  BY <1>1 DEF LineTypeOK, Arguments
<1>3. ~IsSeparator /\ Token \notin Valued
  BY <1>1, WordsDiffer DEF IsOption
<1>4. PlaceSoFar'
  BY <1>1, <1>3, PlaceNext, Zenon
<1>5. /\ index \in OptionWords(argv) /\ index \notin CommandWords(argv)
      /\ index \notin PathWords(argv)
  BY <1>1, KindIs, Zenon
<1>6. /\ index \in SwitchWords(argv) /\ index \in SourceWords(argv)
      /\ \A options \in SUBSET Valued : index \notin Given(argv, options)
  BY <1>1, <1>3, <1>5, Zenon DEF SwitchWords, SourceWords, Given, Token
<1>7. /\ SwitchWords(argv) \cap Read' = (SwitchWords(argv) \cap Read) \cup {index}
      /\ SourceWords(argv) \cap Read' = (SourceWords(argv) \cap Read) \cup {index}
      /\ OptionWords(argv) \cap Read' = (OptionWords(argv) \cap Read) \cup {index}
      /\ \A options \in SUBSET Valued : Given(argv, options) \cap Read' = Given(argv, options) \cap Read
  BY <1>0, <1>1, <1>5, <1>6, ReadOn
<1>8. {"--root"} \in SUBSET Valued /\ {"--config"} \in SUBSET Valued /\ {"--base"} \in SUBSET Valued
      /\ {"--format"} \in SUBSET Valued /\ {"--allow", "--deny"} \in SUBSET Valued
  BY DEF Valued
<1>9. index \notin PatternWords(argv)
  BY <1>6, <1>8, Zenon DEF PatternWords
<1>10. Passed(PathWords(argv)) /\ Passed(PatternWords(argv))
  BY <1>1, <1>5, <1>9, Zenon DEF Passed
<1>11. CommandSoFar'
  <2>1. Passed(CommandWords(argv))
    BY <1>1, <1>5, Zenon DEF Passed
  <2> QED  BY <1>1, <1>2, <2>1, CommandKept, Zenon
<1>12. ListsSoFar'
  BY <1>1, <1>2, <1>10, PathsKept, PatternsKept, Zenon
<1>13. ValuesSoFar'
  BY <1>1, <1>2, <1>7, <1>8, Zenon DEF ValuesSoFar
<1>14. SenseSoFar'
  <2>1. \A n \in OptionWords(argv) \cap Read' :
          argv[n] \in Switches \cup Valued /\ (argv[n] \in Valued => n < Len(argv))
    BY <1>1, <1>3, <1>7, Zenon DEF SenseSoFar, Token
  <2> QED  BY <1>1, <1>7, <1>8, <2>1, Zenon DEF SenseSoFar, PatternWords
<1>15. SourcesSoFar'
  <2>1. arguments.switches = {argv[n] : n \in SwitchWords(argv) \cap Read}
    BY DEF SourcesSoFar
  <2>2. arguments'.switches = {argv'[n] : n \in SwitchWords(argv) \cap Read'}
    BY <1>1, <1>2, <1>7, <2>1 DEF Token
  <2>3. ASSUME NEW n \in SourceWords(argv) \cap Read PROVE argv[n] # argv[index]
    <3>1. ASSUME argv[n] = argv[index] PROVE n \in SwitchWords(argv) \cap Read
      BY <1>1, <3>1, Zenon DEF SourceWords, SwitchWords, Token
    <3> QED  BY <1>1, <2>1, <3>1 DEF Token
  <2>4. \A m, n \in SourceWords(argv) \cap Read : argv[m] = argv[n] => m = n
    BY DEF SourcesSoFar
  <2>5. \A m, n \in SourceWords(argv) \cap Read' : argv'[m] = argv'[n] => m = n
    BY <1>1, <1>7, <2>3, <2>4, Zenon
  <2> QED  BY <1>1, <2>2, <2>5, Zenon DEF SourcesSoFar
<1> QED  BY <1>4, <1>11, <1>12, <1>13, <1>14, <1>15, Zenon


LEMMA WordsAreTokens ==
  ASSUME LineTypeOK, NEW n \in 1..Len(argv) PROVE argv[n] \in Tokens
<1>1. argv \in Seq(Tokens)
  BY DEF LineTypeOK
<1> QED  BY <1>1

\* What an option with a value leaves alone.
LEMMA ValueLeaves ==
  ASSUME LineTypeOK, LineSoFar, Parsing, argv' = argv, optionsEnded' = optionsEnded,
         IsOption, Token \in Valued, HasValue, index' = index + 2,
         arguments'.command = arguments.command, arguments'.paths = arguments.paths
  PROVE  /\ PlaceSoFar' /\ CommandSoFar'
         /\ InOrder(arguments.paths, PathWords(argv) \cap Read, argv)'
<1> USE DEF LineSoFar, ListsSoFar
<1>1. Passed(PathWords(argv)) /\ Passed(CommandWords(argv))
  BY OptionRead, Zenon
<1>2. PlaceSoFar'
  BY PlaceNext, Zenon
<1>3. CommandSoFar'
  BY <1>1, CommandKept, Zenon
<1>4. InOrder(arguments.paths, PathWords(argv) \cap Read, argv)'
  BY <1>1, PathsKept, Zenon
<1> QED  BY <1>2, <1>3, <1>4

\* The value that one option gives is the last of them so far.
LEMMA LastRead ==
  ASSUME LineTypeOK, PlaceSoFar, CommandSoFar, Parsing, argv' = argv,
         IsOption, Token \in Valued, HasValue, index' = index + 2, NEW default, NEW option,
         NEW old, LastGiven(argv, Given(argv, {option}) \cap Read, default, old)
  PROVE  LastGiven(argv, Given(argv, {option}) \cap Read', default,
                   IF Token = option THEN Value ELSE old)
<1>1. /\ IF Token \in {option}
           THEN Given(argv, {option}) \cap Read' = (Given(argv, {option}) \cap Read) \cup {index}
           ELSE Given(argv, {option}) \cap Read' = Given(argv, {option}) \cap Read
      /\ Given(argv, {option}) \cap Read \subseteq 1..(index - 1)
  BY OptionRead, Zenon
<1>2. CASE Token = option
  <2>1. index \in Nat
    BY WordTypes
  <2>2. LastGiven(argv, (Given(argv, {option}) \cap Read) \cup {index}, default, argv[index + 1])
    BY <1>1, <2>1, LastGrows, Zenon
  <2> QED  BY <1>1, <1>2, <2>2, Zenon DEF Value
<1>3. CASE Token # option
  BY <1>1, <1>3, Zenon
<1> QED  BY <1>2, <1>3

\* The options whose value is kept as it is.
LEMMA StringRead ==
  ASSUME LineTypeOK, LineSoFar, Parsing, ReadString PROVE LineSoFar'
<1> USE DEF LineSoFar, ListsSoFar
<1>1. /\ IsOption /\ HasValue /\ index' = index + 2 /\ argv' = argv
      /\ optionsEnded' = optionsEnded /\ Token \in {"--root", "--config", "--format", "--base"}
  BY DEF ReadString, Consume
<1>2. Token \in Valued /\ Token \notin {"--allow", "--deny"}
  BY <1>1 DEF Valued
<1>3. /\ arguments'.command = arguments.command /\ arguments'.paths = arguments.paths
      /\ arguments'.overrides = arguments.overrides /\ arguments'.switches = arguments.switches
      /\ arguments'.root = IF Token = "--root" THEN Value ELSE arguments.root
      /\ arguments'.config = IF Token = "--config" THEN Value ELSE arguments.config
      /\ arguments'.format = IF Token = "--format" THEN Value ELSE arguments.format
      /\ arguments'.base = IF Token = "--base" THEN Value ELSE arguments.base
      /\ Token = "--format" => Value \in {"text", "json"}
      /\ Token = "--base" => arguments.base = NoWord
  <2>1. \/ Token = "--root" /\ arguments' = [arguments EXCEPT !.root = Value]
        \/ Token = "--config" /\ arguments' = [arguments EXCEPT !.config = Value]
        \/ /\ Token = "--format" /\ Value \in {"text", "json"}
           /\ arguments' = [arguments EXCEPT !.format = Value]
        \/ /\ Token = "--base" /\ arguments.base = NoWord
           /\ arguments' = [arguments EXCEPT !.base = Value]
    BY Zenon DEF ReadString, Consume
  <2>2. arguments \in Arguments
    BY DEF LineTypeOK
  <2>3. CASE Token = "--root" /\ arguments' = [arguments EXCEPT !.root = Value]
    BY <2>2, <2>3 DEF Arguments
  <2>4. CASE Token = "--config" /\ arguments' = [arguments EXCEPT !.config = Value]
    BY <2>2, <2>4 DEF Arguments
  <2>5. CASE /\ Token = "--format" /\ Value \in {"text", "json"}
             /\ arguments' = [arguments EXCEPT !.format = Value]
    BY <2>2, <2>5 DEF Arguments
  <2>6. CASE /\ Token = "--base" /\ arguments.base = NoWord
             /\ arguments' = [arguments EXCEPT !.base = Value]
    BY <2>2, <2>6 DEF Arguments
  <2> QED  BY <2>1, <2>3, <2>4, <2>5, <2>6, Zenon
<1>4. /\ PlaceSoFar' /\ CommandSoFar'
      /\ InOrder(arguments.paths, PathWords(argv) \cap Read, argv)'
  BY <1>1, <1>2, <1>3, ValueLeaves, Zenon
<1>5. /\ \A options : IF Token \in options
           THEN Given(argv, options) \cap Read' = (Given(argv, options) \cap Read) \cup {index}
           ELSE Given(argv, options) \cap Read' = Given(argv, options) \cap Read
      /\ SwitchWords(argv) \cap Read' = SwitchWords(argv) \cap Read
      /\ IF Token = "--base"
           THEN SourceWords(argv) \cap Read' = (SourceWords(argv) \cap Read) \cup {index}
           ELSE SourceWords(argv) \cap Read' = SourceWords(argv) \cap Read
  BY <1>1, <1>2, OptionRead, Zenon
<1>6. PatternWords(argv) \cap Read' = PatternWords(argv) \cap Read
  BY <1>2, <1>5, Zenon DEF PatternWords
<1>7. InOrder(arguments.overrides, PatternWords(argv) \cap Read, PatternsGiven(argv))'
  BY <1>1, <1>3, <1>6, Zenon
<1>8. SenseSoFar'
  BY <1>1, <1>2, <1>3, SenseKept, Zenon
<1>9. ValuesSoFar'
  <2>1. LastGiven(argv, Given(argv, {"--root"}) \cap Read', ".", arguments'.root)
    BY <1>1, <1>2, <1>3, LastRead, Zenon DEF ValuesSoFar
  <2>2. LastGiven(argv, Given(argv, {"--config"}) \cap Read', NoWord, arguments'.config)
    BY <1>1, <1>2, <1>3, LastRead, Zenon DEF ValuesSoFar
  <2>3. LastGiven(argv, Given(argv, {"--format"}) \cap Read', "text", arguments'.format)
    BY <1>1, <1>2, <1>3, LastRead, Zenon DEF ValuesSoFar
  <2>4. LastGiven(argv, Given(argv, {"--base"}) \cap Read', NoWord, arguments'.base)
    BY <1>1, <1>2, <1>3, LastRead, Zenon DEF ValuesSoFar
  <2> QED  BY <1>1, <2>1, <2>2, <2>3, <2>4, Zenon DEF ValuesSoFar
<1>10. SourcesSoFar'
  <2>1. arguments'.switches = {argv'[n] : n \in SwitchWords(argv') \cap Read'}
    BY <1>1, <1>3, <1>5 DEF SourcesSoFar
  <2>2. \A m, n \in SourceWords(argv) \cap Read : argv[m] = argv[n] => m = n
    BY Zenon DEF SourcesSoFar
  <2>3. CASE Token # "--base"
    BY <1>1, <1>5, <2>1, <2>2, <2>3, Zenon DEF SourcesSoFar
  <2>4. CASE Token = "--base"
    <3>1. arguments.base = NoWord
      BY <1>3, <2>4
    <3>2. Given(argv, {"--base"}) \cap Read = {}
      <4>1. ASSUME NEW n \in Given(argv, {"--base"}), NoWord = argv[n + 1] PROVE FALSE
        <5>1. n \in 1..Len(argv) /\ n + 1 \in 1..Len(argv)
          BY WordTypes DEF Given, OptionWords, Before, TokenWords
        <5>2. argv[n + 1] \in Tokens
          BY <5>1, WordsAreTokens
        <5> QED  BY <4>1, <5>2, WordsAssumption
      <4> QED  BY <3>1, <4>1, Zenon DEF ValuesSoFar, LastGiven
    <3>3. ASSUME NEW n \in SourceWords(argv) \cap Read PROVE argv[n] # argv[index]
      <4>1. ASSUME argv[n] = "--base" PROVE n \in Given(argv, {"--base"})
        <5>1. n \in OptionWords(argv) \cap Read /\ argv[n] \in Valued
          BY <4>1, <2>4, <1>2, Zenon DEF SourceWords
        <5>2. n < Len(argv)
          BY <5>1, Zenon DEF SenseSoFar
        <5> QED  BY <4>1, <5>1, <5>2, Zenon DEF Given
      <4> QED  BY <2>4, <3>2, <4>1, Zenon DEF Token
    <3>4. \A m, n \in SourceWords(argv) \cap Read' : argv[m] = argv[n] => m = n
      BY <1>5, <2>2, <2>4, <3>3, Zenon
    <3> QED  BY <1>1, <2>1, <3>4, Zenon DEF SourcesSoFar
  <2> QED  BY <2>3, <2>4
<1> QED  BY <1>4, <1>7, <1>8, <1>9, <1>10, Zenon

\* A pattern is added at the end of the list.
LEMMA PatternRead ==
  ASSUME LineTypeOK, LineSoFar, Parsing, ReadPattern PROVE LineSoFar'
<1> DEFINE new == [word |-> Value, denied |-> Token = "--deny"]
<1> USE DEF LineSoFar, ListsSoFar
<1>1. /\ IsOption /\ HasValue /\ index' = index + 2 /\ argv' = argv
      /\ optionsEnded' = optionsEnded /\ Token \in {"--allow", "--deny"} /\ Value \notin Banged
      /\ arguments' = [arguments EXCEPT
           !.overrides = Append(@, new),
           !.overrideCapacity = Grown(Len(arguments.overrides), @)]
  BY DEF ReadPattern, Consume
<1>2. Token \in Valued /\ Token \notin {"--root", "--config", "--format", "--base"}
  BY <1>1 DEF Valued
<1>3. /\ arguments'.command = arguments.command /\ arguments'.paths = arguments.paths
      /\ arguments'.switches = arguments.switches
      /\ arguments'.root = arguments.root /\ arguments'.config = arguments.config
      /\ arguments'.format = arguments.format /\ arguments'.base = arguments.base
      /\ arguments'.overrides = Append(arguments.overrides, new)
      /\ arguments.overrides \in Seq(Overrides)
  <2> HIDE DEF new
  <2> QED  BY <1>1 DEF LineTypeOK, Arguments
<1>4. new \in Overrides
  BY <1>1, WordTypes DEF Overrides, Value
<1>5. /\ PlaceSoFar' /\ CommandSoFar'
      /\ InOrder(arguments.paths, PathWords(argv) \cap Read, argv)'
  BY <1>1, <1>2, <1>3, ValueLeaves, Zenon
<1>6. /\ \A options : IF Token \in options
           THEN Given(argv, options) \cap Read' = (Given(argv, options) \cap Read) \cup {index}
           ELSE Given(argv, options) \cap Read' = Given(argv, options) \cap Read
      /\ SwitchWords(argv) \cap Read' = SwitchWords(argv) \cap Read
      /\ IF Token = "--base"
           THEN SourceWords(argv) \cap Read' = (SourceWords(argv) \cap Read) \cup {index}
           ELSE SourceWords(argv) \cap Read' = SourceWords(argv) \cap Read
      /\ \A options : Given(argv, options) \cap Read \subseteq 1..(index - 1)
  BY <1>1, <1>2, OptionRead, Zenon
<1>7. /\ PatternWords(argv) \cap Read' = (PatternWords(argv) \cap Read) \cup {index}
      /\ PatternWords(argv) \cap Read \subseteq 1..(index - 1)
  BY <1>1, <1>6, Zenon DEF PatternWords
<1>8. PatternsGiven(argv)[index] = new
  <2>1. index \in PatternWords(argv)
    BY <1>7
  <2> QED  BY <2>1, Zenon DEF PatternsGiven, Token, Value
<1>9. InOrder(arguments.overrides, PatternWords(argv) \cap Read, PatternsGiven(argv))'
  <2>1. index \in Nat
    BY WordTypes
  <2> HIDE DEF new
  <2>2. InOrder(Append(arguments.overrides, new), (PatternWords(argv) \cap Read) \cup {index},
                PatternsGiven(argv))
    BY <1>3, <1>4, <1>7, <1>8, <2>1, OrderGrows, Zenon
  <2> QED  BY <1>1, <1>3, <1>7, <2>2, Zenon
<1>10. SenseSoFar'
  BY <1>1, <1>2, SenseKept, Zenon
<1>11. ValuesSoFar'
  BY <1>1, <1>2, <1>3, <1>6, Zenon DEF ValuesSoFar
<1>12. SourcesSoFar'
  <2>1. arguments'.switches = {argv'[n] : n \in SwitchWords(argv') \cap Read'}
    BY <1>1, <1>3, <1>6 DEF SourcesSoFar
  <2>2. SourceWords(argv) \cap Read' = SourceWords(argv) \cap Read
    BY <1>2, <1>6, Zenon
  <2>3. \A m, n \in SourceWords(argv) \cap Read : argv[m] = argv[n] => m = n
    BY Zenon DEF SourcesSoFar
  <2> QED  BY <1>1, <2>1, <2>2, <2>3, Zenon DEF SourcesSoFar
<1> QED  BY <1>5, <1>9, <1>10, <1>11, <1>12, Zenon

\* Anything else is a path.
LEMMA PathRead ==
  ASSUME LineTypeOK, LineSoFar, Parsing, ReadPath PROVE LineSoFar'
<1> USE DEF LineSoFar, ListsSoFar
<1>0. index \in Nat \ {0} /\ argv[index] \in Tokens
  BY WordTypes
<1>1. /\ IsPath /\ index' = index + 1 /\ argv' = argv /\ optionsEnded' = optionsEnded
      /\ arguments' = [arguments EXCEPT
           !.paths = Append(@, argv[index]),
           !.pathCapacity = Grown(Len(arguments.paths), @)]
  BY DEF ReadPath, Consume, Token
<1>2. /\ arguments'.command = arguments.command
      /\ arguments'.overrides = arguments.overrides /\ arguments'.switches = arguments.switches
      /\ arguments'.root = arguments.root /\ arguments'.config = arguments.config
      /\ arguments'.format = arguments.format /\ arguments'.base = arguments.base
      /\ arguments'.paths = Append(arguments.paths, argv[index])
      /\ arguments.paths \in Seq(Tokens)
  BY <1>1 DEF LineTypeOK, Arguments
<1>3. ~IsSeparator /\ (optionsEnded \/ Token \notin Valued)
  <2>1. ~IsSeparator /\ (optionsEnded \/ ~IsDashed(Token))
    BY <1>1, Zenon DEF IsPath, IsOption
  <2>2. IsDashed(Token) \/ Token \notin Valued
    BY WordsDiffer
  <2> QED  BY <2>1, <2>2, Zenon
<1>4. PlaceSoFar'
  BY <1>1, <1>3, PlaceNext, Zenon
<1>5. /\ index \in PathWords(argv) /\ index \notin OptionWords(argv)
      /\ index \in CommandWords(argv) => CommandWords(argv) \cap Read # {}
  BY <1>1, KindIs, Zenon
<1>6. Passed(OptionWords(argv)) /\ Passed(PatternWords(argv))
  BY <1>1, <1>5, OptionsAre, Zenon DEF Passed
<1>7. CommandSoFar'
  <2>1. \/ Passed(CommandWords(argv))
        \/ index' = index + 1 /\ CommandWords(argv) \cap Read # {}
    BY <1>1, <1>5, Zenon DEF Passed
  <2> QED  BY <1>1, <1>2, <2>1, CommandKept, Zenon
<1>8. ValuesSoFar' /\ SourcesSoFar' /\ SenseSoFar'
  BY <1>1, <1>2, <1>6, OptionsKept, Zenon
<1>9. InOrder(arguments.overrides, PatternWords(argv) \cap Read, PatternsGiven(argv))'
  BY <1>1, <1>2, <1>6, PatternsKept, Zenon
<1>10. InOrder(arguments.paths, PathWords(argv) \cap Read, argv)'
  <2>1. /\ PathWords(argv) \cap Read' = (PathWords(argv) \cap Read) \cup {index}
        /\ PathWords(argv) \cap Read \subseteq 1..(index - 1)
    BY <1>0, <1>1, <1>5, ReadOn
  <2>2. InOrder(Append(arguments.paths, argv[index]), (PathWords(argv) \cap Read) \cup {index}, argv)
    BY <1>0, <1>2, <2>1, OrderGrows, Zenon
  <2> QED  BY <1>1, <1>2, <2>1, <2>2, Zenon
<1> QED  BY <1>4, <1>7, <1>8, <1>9, <1>10, Zenon


\* The places of a line.
LEMMA LinePlaces ==
  ASSUME LineTypeOK
  PROVE  index \in Nat \ {0} /\ Len(argv) \in Nat /\ DOMAIN argv = 1..Len(argv)
<1>1. argv \in Seq(Tokens) /\ index \in Nat \ {0}
  BY DEF LineTypeOK
<1> QED  BY <1>1, LenType

\* A line gives one command.
LEMMA OneCommand ==
  ASSUME LineTypeOK, NEW one, NEW other, CommandGiven(argv, one), CommandGiven(argv, other)
  PROVE  one = other
<1>1. CASE CommandWords(argv) = {}
  BY <1>1, Zenon DEF CommandGiven, FirstCommand
<1>2. CASE CommandWords(argv) # {}
  <2>1. PICK m \in FirstCommand(argv) : one = argv[m]
    BY <1>2, Zenon DEF CommandGiven
  <2>2. PICK n \in FirstCommand(argv) : other = argv[n]
    BY <1>2, Zenon DEF CommandGiven
  <2>3. m <= n /\ n <= m
    BY Zenon DEF FirstCommand
  <2>4. FirstCommand(argv) \subseteq 1..Len(argv)
    <3>1. FirstCommand(argv) \subseteq DOMAIN argv
      BY Zenon DEF FirstCommand, CommandWords, Before, TokenWords
    <3> QED  BY <3>1, LinePlaces
  <2>5. m = n
    BY <2>3, <2>4, LinePlaces
  <2> QED  BY <2>1, <2>2, <2>5
<1> QED  BY <1>1, <1>2

\* Different sources are as many as the words that give them.
LEMMA SourcesCount ==
  ASSUME NEW line, NEW places, IsFiniteSet(places),
         {line[n] : n \in places} \subseteq {"--stdin0", "--staged", "--base"},
         \A m, n \in places : line[m] = line[n] => m = n
  PROVE  LET sources == {line[n] : n \in places}
         IN  /\ Cardinality(sources) \in Nat
             /\ Cardinality(sources) = 0 <=> places = {}
             /\ Cardinality(sources) = 1 <=> Cardinality(places) = 1
<1> DEFINE sources == {line[n] : n \in places}
<1>1. IsFiniteSet(sources)
  <2>1. IsFiniteSet({"--stdin0", "--staged", "--base"})
    <3>1. {"--stdin0", "--staged", "--base"} = ({"--stdin0"} \cup {"--staged"}) \cup {"--base"}
      OBVIOUS
    <3>2. IsFiniteSet({"--stdin0"})
      BY FS_Singleton
    <3>3. IsFiniteSet({"--stdin0"} \cup {"--staged"})
      BY <3>2, FS_AddElement
    <3> QED  BY <3>1, <3>3, FS_AddElement
  <2> QED  BY <2>1, FS_Subset
<1>2. Cardinality(sources) \in Nat /\ (Cardinality(sources) = 0 <=> sources = {})
  BY <1>1, FS_CardinalityType, FS_EmptySet
<1>3. sources = {} <=> places = {}
  OBVIOUS
<1>4. /\ Cardinality(sources) = 1 <=> \E x : sources = {x}
      /\ Cardinality(places) = 1 <=> \E x : places = {x}
  BY <1>1, FS_Singleton
<1>5. ASSUME NEW x, places = {x} PROVE sources = {line[x]}
  BY <1>5
<1>6. ASSUME NEW x, sources = {x} PROVE \E n : places = {n}
  <2>1. PICK n \in places : line[n] = x
    BY <1>6
  <2>2. \A m \in places : line[m] = x
    BY <1>6
  <2>3. places = {n}
    BY <2>1, <2>2
  <2> QED  BY <2>3
<1> QED  BY <1>2, <1>3, <1>4, <1>5, <1>6

\* Once all words are read, what was read is what the line says.
LEMMA AllRead ==
  ASSUME LineTypeOK, LineSoFar, index > Len(argv)
  PROVE  /\ CommandGiven(argv, arguments.command)
         /\ InOrder(arguments.paths, PathWords(argv), argv)
         /\ InOrder(arguments.overrides, PatternWords(argv), PatternsGiven(argv))
         /\ arguments.switches = {argv[n] : n \in SwitchWords(argv)}
         /\ LastGiven(argv, Given(argv, {"--root"}), ".", arguments.root)
         /\ LastGiven(argv, Given(argv, {"--config"}), NoWord, arguments.config)
         /\ LastGiven(argv, Given(argv, {"--format"}), "text", arguments.format)
         /\ LastGiven(argv, Given(argv, {"--base"}), NoWord, arguments.base)
         /\ \A m, n \in SourceWords(argv) : argv[m] = argv[n] => m = n
         /\ \A n \in OptionWords(argv) :
              argv[n] \in Switches \cup Valued /\ (argv[n] \in Valued => n < Len(argv))
         /\ \A n \in Given(argv, {"--format"}) : argv[n + 1] \in {"text", "json"}
         /\ \A n \in PatternWords(argv) : argv[n + 1] \notin Banged
<1>1. /\ index \in Nat \ {0} /\ Len(argv) \in Nat /\ DOMAIN argv = 1..Len(argv)
  BY LinePlaces
<1>2. \A places \in SUBSET (1..Len(argv)) : places \cap Read = places
  <2>1. 1..Len(argv) \subseteq Read
    BY <1>1 DEF Read
  <2> QED  BY <2>1, Zenon
<1>3. /\ Before(argv) \subseteq 1..Len(argv) /\ After(argv) \subseteq 1..Len(argv)
  BY <1>1 DEF Before, After, TokenWords
<1>4. /\ OptionWords(argv) \subseteq 1..Len(argv) /\ CommandWords(argv) \subseteq 1..Len(argv)
      /\ FirstCommand(argv) \subseteq 1..Len(argv) /\ PathWords(argv) \subseteq 1..Len(argv)
  BY <1>3, Zenon DEF OptionWords, CommandWords, FirstCommand, PathWords
<1>5. /\ \A options : Given(argv, options) \subseteq 1..Len(argv)
      /\ SwitchWords(argv) \subseteq 1..Len(argv) /\ SourceWords(argv) \subseteq 1..Len(argv)
      /\ PatternWords(argv) \subseteq 1..Len(argv)
  BY <1>4, OptionsAre, Zenon
<1>6. /\ \A options : Given(argv, options) \cap Read = Given(argv, options)
      /\ SwitchWords(argv) \cap Read = SwitchWords(argv)
      /\ SourceWords(argv) \cap Read = SourceWords(argv)
      /\ PatternWords(argv) \cap Read = PatternWords(argv)
      /\ OptionWords(argv) \cap Read = OptionWords(argv)
      /\ CommandWords(argv) \cap Read = CommandWords(argv)
      /\ PathWords(argv) \cap Read = PathWords(argv)
  BY <1>2, <1>4, <1>5
<1>7. CommandGiven(argv, arguments.command)
  BY <1>6, Zenon DEF LineSoFar, CommandSoFar, CommandGiven
<1>8. /\ InOrder(arguments.paths, PathWords(argv), argv)
      /\ InOrder(arguments.overrides, PatternWords(argv), PatternsGiven(argv))
  BY <1>6, Zenon DEF LineSoFar, ListsSoFar
<1>9. /\ LastGiven(argv, Given(argv, {"--root"}), ".", arguments.root)
      /\ LastGiven(argv, Given(argv, {"--config"}), NoWord, arguments.config)
      /\ LastGiven(argv, Given(argv, {"--format"}), "text", arguments.format)
      /\ LastGiven(argv, Given(argv, {"--base"}), NoWord, arguments.base)
  BY <1>6, Zenon DEF LineSoFar, ValuesSoFar
<1>10. arguments.switches = {argv[n] : n \in SwitchWords(argv)}
  BY <1>6 DEF LineSoFar, SourcesSoFar
<1>11. \A m, n \in SourceWords(argv) : argv[m] = argv[n] => m = n
  BY <1>6, Zenon DEF LineSoFar, SourcesSoFar
<1>12. /\ \A n \in OptionWords(argv) :
            argv[n] \in Switches \cup Valued /\ (argv[n] \in Valued => n < Len(argv))
       /\ \A n \in Given(argv, {"--format"}) : argv[n + 1] \in {"text", "json"}
       /\ \A n \in PatternWords(argv) : argv[n + 1] \notin Banged
  BY <1>6, Zenon DEF LineSoFar, SenseSoFar
<1> QED  BY <1>7, <1>8, <1>9, <1>10, <1>11, <1>12, Zenon

\* The words that give a source, and those that give a base.
LEMMA SourcesAre ==
  ASSUME LineTypeOK, LineSoFar, index > Len(argv)
  PROVE  /\ IsFiniteSet(SourceWords(argv)) /\ IsFiniteSet(PathWords(argv))
         /\ Sources(arguments) = {argv[n] : n \in SourceWords(argv)}
         /\ \/ Given(argv, {"--base"}) = {} /\ arguments.base = NoWord
            \/ \E n \in Given(argv, {"--base"}) :
                 /\ Given(argv, {"--base"}) = {n} /\ arguments.base = argv[n + 1]
                 /\ arguments.base # NoWord
         /\ Given(argv, {"--base"}) \subseteq SourceWords(argv)
<1>1. Len(argv) \in Nat /\ DOMAIN argv = 1..Len(argv)
  BY LinePlaces
<1>2. SourceWords(argv) \subseteq 1..Len(argv) /\ PathWords(argv) \subseteq 1..Len(argv)
  <2>1. Before(argv) \subseteq 1..Len(argv) /\ After(argv) \subseteq 1..Len(argv)
    BY <1>1 DEF Before, After, TokenWords
  <2> QED  BY <2>1, Zenon DEF SourceWords, OptionWords, PathWords
<1>3. IsFiniteSet(SourceWords(argv)) /\ IsFiniteSet(PathWords(argv))
  <2>1. IsFiniteSet(1..Len(argv))
    BY <1>1, FS_Interval
  <2> QED  BY <1>2, <2>1, FS_Subset
<1>4. \A n \in OptionWords(argv) : argv[n] = "--base" => n \in Given(argv, {"--base"})
  <2>1. "--base" \in Valued
    BY DEF Valued
  <2> QED  BY <2>1, AllRead, Zenon DEF Given
<1>5. Given(argv, {"--base"}) \subseteq SourceWords(argv)
  BY Zenon DEF Given, SourceWords
<1>6. \A m, n \in Given(argv, {"--base"}) : m = n
  <2>1. \A n \in Given(argv, {"--base"}) : argv[n] = "--base"
    BY Zenon DEF Given
  <2> QED  BY <1>5, <2>1, AllRead, Zenon
<1>7. \/ Given(argv, {"--base"}) = {} /\ arguments.base = NoWord
      \/ \E n \in Given(argv, {"--base"}) :
           /\ Given(argv, {"--base"}) = {n} /\ arguments.base = argv[n + 1]
           /\ arguments.base # NoWord
  <2>1. LastGiven(argv, Given(argv, {"--base"}), NoWord, arguments.base)
    BY AllRead, Zenon
  <2>2. CASE Given(argv, {"--base"}) = {} /\ arguments.base = NoWord
    BY <2>2
  <2>3. ASSUME NEW n \in Given(argv, {"--base"}), arguments.base = argv[n + 1]
        PROVE  Given(argv, {"--base"}) = {n} /\ arguments.base # NoWord
    <3>1. n \in 1..Len(argv) /\ n < Len(argv)
      BY <1>2, <1>5, Zenon DEF Given
    <3>2. n + 1 \in 1..Len(argv)
      BY <1>1, <3>1
    <3>3. argv[n + 1] \in Tokens
      BY <3>2, WordsAreTokens
    <3> QED  BY <1>6, <2>3, <3>3, WordsAssumption
  <2> QED  BY <2>1, <2>2, <2>3, Zenon DEF LastGiven
<1>8. Sources(arguments) = {argv[n] : n \in SourceWords(argv)}
  <2>1. arguments.switches = {argv[n] : n \in SwitchWords(argv)}
    BY AllRead, Zenon
  <2>2. \A n \in SourceWords(argv) : n \in SwitchWords(argv) \/ argv[n] = "--base"
    BY Zenon DEF SourceWords, SwitchWords
  <2>3. SwitchWords(argv) \subseteq SourceWords(argv)
    BY Zenon DEF SourceWords, SwitchWords
  <2>4. CASE Given(argv, {"--base"}) = {} /\ arguments.base = NoWord
    <3>1. Sources(arguments) = arguments.switches
      BY <2>4 DEF Sources
    <3>2. \A n \in SourceWords(argv) : argv[n] # "--base"
      BY <1>4, <2>4, Zenon DEF SourceWords
    <3>3. SourceWords(argv) = SwitchWords(argv)
      BY <2>2, <2>3, <3>2
    <3> QED  BY <2>1, <3>1, <3>3
  <2>5. CASE \E n \in Given(argv, {"--base"}) : arguments.base # NoWord
    <3>1. Sources(arguments) = arguments.switches \cup {"--base"}
      BY <2>5 DEF Sources
    <3>2. PICK n \in SourceWords(argv) : argv[n] = "--base"
      BY <1>5, <2>5, Zenon DEF Given
    <3> QED  BY <2>1, <2>2, <2>3, <3>1, <3>2
  <2> QED  BY <1>7, <2>4, <2>5, Zenon
<1> QED  BY <1>3, <1>5, <1>7, <1>8

\* The last judgement is that of the usage text.
LEMMA ArgumentsFit ==
  ASSUME LineTypeOK, LineSoFar, index > Len(argv)
  PROVE  ValidArguments(arguments) <=> OptionsMakeSense(argv) /\ FitsUsage(argv)
<1> DEFINE sources == NumberOfSources(arguments)
           paths == Len(arguments.paths)
<1>1. /\ sources \in Nat
      /\ sources = 0 <=> SourceWords(argv) = {}
      /\ sources = 1 <=> Cardinality(SourceWords(argv)) = 1
  <2>1. \A n \in SourceWords(argv) : argv[n] \in {"--stdin0", "--staged", "--base"}
    BY DEF SourceWords, Switches
  <2>2. {argv[n] : n \in SourceWords(argv)} \subseteq {"--stdin0", "--staged", "--base"}
    BY <2>1
  <2>3. \A m, n \in SourceWords(argv) : argv[m] = argv[n] => m = n
    BY AllRead, Zenon
  <2>4. sources = Cardinality({argv[n] : n \in SourceWords(argv)})
    BY SourcesAre DEF NumberOfSources
  <2>5. IsFiniteSet(SourceWords(argv))
    BY SourcesAre, Zenon
  <2> QED  BY <2>2, <2>3, <2>4, <2>5, SourcesCount
<1>2. /\ paths \in Nat /\ paths = Cardinality(PathWords(argv))
      /\ paths = 0 <=> PathWords(argv) = {}
      /\ paths = 0 <=> arguments.paths = <<>>
  <2>1. arguments.paths \in Seq(Tokens)
    BY DEF LineTypeOK, Arguments
  <2>2. paths = Cardinality(PathWords(argv))
    BY AllRead, Zenon DEF InOrder
  <2>3. paths \in Nat /\ (paths = 0 <=> arguments.paths = <<>>)
    BY <2>1
  <2>4. Cardinality(PathWords(argv)) = 0 <=> PathWords(argv) = {}
    BY SourcesAre, FS_EmptySet
  <2> QED  BY <2>2, <2>3, <2>4
<1>3. \A command : CommandGiven(argv, command) <=> arguments.command = command
  <2>1. CommandGiven(argv, arguments.command)
    BY AllRead, Zenon
  <2> QED  BY <2>1, OneCommand, Zenon
<1>4. OptionsMakeSense(argv) <=> ValidBase(arguments)
  <2>1. OptionsMakeSense(argv) <=>
          \A n \in Given(argv, {"--base"}) : argv[n + 1] # NoText /\ ~IsDashed(argv[n + 1])
    BY AllRead, Zenon DEF OptionsMakeSense
  <2> QED  BY <2>1, SourcesAre, Zenon DEF ValidBase
<1>5. sources = 0 => ValidBase(arguments)
  BY <1>1, SourcesAre, Zenon DEF ValidBase
<1> HIDE DEF sources, paths
<1>6. FitsUsage(argv) <=>
        \/ arguments.command = "config" /\ paths = 0 /\ sources = 0
        \/ arguments.command = "check-path" /\ paths = 1 /\ sources = 0
        \/ /\ arguments.command = "check"
           /\ (paths # 0 /\ sources = 0) \/ (paths = 0 /\ sources = 1)
  BY <1>1, <1>2, <1>3, Zenon DEF FitsUsage
<1>7. ValidArguments(arguments) <=>
        \/ arguments.command = "config" /\ paths = 0 /\ sources = 0
        \/ arguments.command = "check-path" /\ paths = 1 /\ sources = 0
        \/ /\ arguments.command = "check" /\ ValidBase(arguments)
           /\ paths > 0 <=> sources = 0
           /\ sources <= 1
  BY <1>2, Zenon DEF ValidArguments, sources, paths
<1>8. (paths > 0 <=> sources = 0) /\ sources <= 1
        <=> (paths # 0 /\ sources = 0) \/ (paths = 0 /\ sources = 1)
  BY <1>1, <1>2
<1> QED  BY <1>4, <1>5, <1>6, <1>7, <1>8, Zenon

\* A refused option is one that makes no sense, or a second source.
LEMMA OptionRefused ==
  ASSUME LineTypeOK, LineSoFar, RefuseOption
  PROVE  ~(OptionsMakeSense(argv) /\ FitsUsage(argv))
<1> USE DEF LineSoFar
<1>1. /\ Parsing /\ IsOption
      /\ \/ Token \notin Switches \cup Valued
         \/ Token \in arguments.switches
         \/ Token \in Valued /\ ~HasValue
         \/ Token = "--base" /\ arguments.base # NoWord
         \/ Token = "--format" /\ HasValue /\ Value \notin {"text", "json"}
         \/ Token \in {"--allow", "--deny"} /\ HasValue /\ Value \in Banged
  BY DEF RefuseOption
<1>2. index \in OptionWords(argv) /\ Token = argv[index] /\ index \in Nat /\ index \notin Read
  BY <1>1, KindIs, WordTypes DEF Token, Read
<1>3. HasValue => \A options : Token \in options => index \in Given(argv, options)
  BY <1>2, Zenon DEF Given, HasValue
<1>4. ASSUME NEW n \in SourceWords(argv) \cap Read, index \in SourceWords(argv)
      PROVE  ~FitsUsage(argv)
  <2>1. n # index
    BY <1>2, <1>4
  <2>2. SourceWords(argv) # {} /\ Cardinality(SourceWords(argv)) # 1
    <3>1. IsFiniteSet(SourceWords(argv))
      <4>1. SourceWords(argv) \subseteq 1..Len(argv) /\ Len(argv) \in Nat
        BY <1>1, WordTypes DEF SourceWords, OptionWords, Before, TokenWords
      <4>2. IsFiniteSet(1..Len(argv))
        BY <4>1, FS_Interval
      <4> QED  BY <4>1, <4>2, FS_Subset
    <3>2. ~(\E x : SourceWords(argv) = {x})
      BY <1>4, <2>1
    <3> QED  BY <1>4, <3>1, <3>2, FS_Singleton
  <2> QED  BY <2>2, Zenon DEF FitsUsage
<1>5. CASE Token \notin Switches \cup Valued \/ (Token \in Valued /\ ~HasValue)
  BY <1>2, <1>5, Zenon DEF OptionsMakeSense, HasValue
<1>6. CASE Token = "--format" /\ HasValue /\ Value \notin {"text", "json"}
  BY <1>3, <1>6, Zenon DEF OptionsMakeSense, Value
<1>7. CASE Token \in {"--allow", "--deny"} /\ HasValue /\ Value \in Banged
  BY <1>3, <1>7, Zenon DEF OptionsMakeSense, Value, PatternWords
<1>8. CASE Token \in arguments.switches
  <2>1. PICK n \in SwitchWords(argv) \cap Read : argv[n] = Token
    BY <1>8 DEF SourcesSoFar
  <2>2. n \in SourceWords(argv) \cap Read /\ index \in SourceWords(argv)
    BY <1>2, <2>1, Zenon DEF SwitchWords, SourceWords
  <2> QED  BY <1>4, <2>2
<1>9. CASE Token = "--base" /\ arguments.base # NoWord
  <2>1. PICK n : n \in Given(argv, {"--base"}) \cap Read
    BY <1>9, Zenon DEF ValuesSoFar, LastGiven
  <2>2. n \in SourceWords(argv) \cap Read /\ index \in SourceWords(argv)
    BY <1>2, <1>9, <2>1, Zenon DEF Given, SourceWords
  <2> QED  BY <1>4, <2>2
<1> QED  BY <1>1, <1>5, <1>6, <1>7, <1>8, <1>9, Zenon


--------------------------------------------------------------------------------
(* Every step of the parser *)

\* Before the first word nothing has been read.
LEMMA NothingRead ==
  ASSUME LineTypeOK, InitLine PROVE LineSoFar /\ LineAsWritten
<1>1. /\ index = 1 /\ optionsEnded = FALSE /\ arguments = Defaults /\ phase = "parsing"
  BY DEF InitLine
<1>2. Read = {}
  BY <1>1 DEF Read
<1>3. \A places : places \cap Read = {}
  BY <1>2
<1>4. PlaceSoFar
  <2>1. argv \in Seq(Tokens) /\ Len(argv) \in Nat
    BY LinePlaces DEF LineTypeOK
  <2>2. 1 <= Len(argv) => 1 \in TokenWords(argv)
    BY <2>1, WordsFollow
  <2>3. index <= Len(argv) + 1
    BY <1>1, <2>1
  <2>4. index <= Len(argv) => index \in TokenWords(argv)
    BY <1>1, <2>2
  <2>5. optionsEnded \in BOOLEAN
    BY <1>1, Zenon
  <2> QED  BY <1>1, <1>3, <2>3, <2>4, <2>5, Zenon DEF PlaceSoFar
<1>5. CommandSoFar
  BY <1>1, <1>3 DEF CommandSoFar, Defaults
<1>6. ListsSoFar
  <2>1. arguments.paths = <<>> /\ arguments.overrides = <<>>
    BY <1>1 DEF Defaults
  <2>2. \A what : InOrder(<<>>, {}, what)
    BY FS_EmptySet DEF InOrder
  <2> QED  BY <1>3, <2>1, <2>2, Zenon DEF ListsSoFar
<1>7. ValuesSoFar
  <2>1. /\ arguments.root = "." /\ arguments.config = NoWord
        /\ arguments.format = "text" /\ arguments.base = NoWord
    BY <1>1 DEF Defaults
  <2> QED  BY <1>3, <2>1, Zenon DEF ValuesSoFar, LastGiven
<1>8. SourcesSoFar
  <2>1. arguments.switches = {}
    BY <1>1 DEF Defaults
  <2> QED  BY <1>3, <2>1 DEF SourcesSoFar
<1>9. SenseSoFar
  BY <1>3, Zenon DEF SenseSoFar
<1>10. LineAsWritten
  BY <1>1 DEF LineAsWritten
<1> QED  BY <1>4, <1>5, <1>6, <1>7, <1>8, <1>9, <1>10 DEF LineSoFar

\* Nothing more is read while nothing of the line changes.
LEMMA StillRead ==
  ASSUME LineSoFar, UNCHANGED <<argv, index, optionsEnded, arguments>> PROVE LineSoFar'
<1>1. argv' = argv /\ index' = index /\ arguments' = arguments /\ optionsEnded' = optionsEnded
  OBVIOUS
<1>2. PlaceSoFar' /\ CommandSoFar'
  BY <1>1 DEF LineSoFar, PlaceSoFar, CommandSoFar, Read
<1>3. ListsSoFar' /\ ValuesSoFar'
  BY <1>1 DEF LineSoFar, ListsSoFar, ValuesSoFar, Read
<1>4. SourcesSoFar' /\ SenseSoFar'
  BY <1>1 DEF LineSoFar, SourcesSoFar, SenseSoFar, Read
<1> QED  BY <1>2, <1>3, <1>4 DEF LineSoFar

\* The properties of the whole line say nothing of where the parser is.
LEMMA SameLine ==
  ASSUME argv' = argv PROVE (OptionsMakeSense(argv) /\ FitsUsage(argv))'
                              <=> OptionsMakeSense(argv) /\ FitsUsage(argv)
OBVIOUS

LEMMA ParseReads ==
  ASSUME LineTypeOK, LineSoFar, phase = "parsing", Parse
  PROVE  LineSoFar' /\ LineAsWritten'
<1>1. ASSUME LineSoFar', phase' = "parsing" PROVE LineSoFar' /\ LineAsWritten'
  BY <1>1 DEF LineAsWritten
<1>2. CASE Help \/ ParserFails
  <2>1. LineSoFar' /\ phase' \in {"help", "no memory"}
    BY <1>2, StillRead DEF Help, ParserFails, Stop
  <2> QED  BY <2>1 DEF LineAsWritten
<1>3. CASE ReadSeparator
  BY <1>1, <1>3, SeparatorRead DEF ReadSeparator
<1>4. CASE ReadCommand
  BY <1>1, <1>4, CommandRead DEF ReadCommand, Consume
<1>5. CASE ReadSwitch
  BY <1>1, <1>5, SwitchRead DEF ReadSwitch, Consume
<1>6. CASE ReadString
  BY <1>1, <1>6, StringRead DEF ReadString, Consume
<1>7. CASE ReadPattern
  BY <1>1, <1>7, PatternRead DEF ReadPattern, Consume
<1>8. CASE ReadPath
  BY <1>1, <1>8, PathRead DEF ReadPath, Consume
<1>9. CASE RefuseOption
  <2>1. LineSoFar' /\ phase' = "refused" /\ argv' = argv
    BY <1>9, StillRead DEF RefuseOption, Stop
  <2>2. ~(OptionsMakeSense(argv) /\ FitsUsage(argv))
    BY <1>9, OptionRefused
  <2> QED  BY <2>1, <2>2, SameLine DEF LineAsWritten
<1>10. CASE AcceptArguments
  <2>1. LineSoFar' /\ phase' = "parsed" /\ argv' = argv /\ arguments' = arguments
    BY <1>10, StillRead DEF AcceptArguments, Stop
  <2>2. index > Len(argv) /\ ValidArguments(arguments)
    BY <1>10 DEF AcceptArguments
  <2>3. OptionsMakeSense(argv) /\ FitsUsage(argv)
    BY <2>2, ArgumentsFit
  <2>4. /\ CommandGiven(argv, arguments.command)
        /\ InOrder(arguments.paths, PathWords(argv), argv)
        /\ InOrder(arguments.overrides, PatternWords(argv), PatternsGiven(argv))
        /\ arguments.switches = {argv[n] : n \in SwitchWords(argv)}
        /\ LastGiven(argv, Given(argv, {"--root"}), ".", arguments.root)
        /\ LastGiven(argv, Given(argv, {"--config"}), NoWord, arguments.config)
        /\ LastGiven(argv, Given(argv, {"--format"}), "text", arguments.format)
        /\ LastGiven(argv, Given(argv, {"--base"}), NoWord, arguments.base)
    BY <2>2, AllRead, Zenon
  <2> QED  BY <2>1, <2>3, <2>4 DEF LineAsWritten
<1>11. CASE RefuseArguments
  <2>1. LineSoFar' /\ phase' = "refused" /\ argv' = argv
    BY <1>11, StillRead DEF RefuseArguments, Stop
  <2>2. ~(OptionsMakeSense(argv) /\ FitsUsage(argv))
    BY <1>11, ArgumentsFit DEF RefuseArguments
  <2> QED  BY <2>1, <2>2, SameLine DEF LineAsWritten
<1> QED  BY <1>2, <1>3, <1>4, <1>5, <1>6, <1>7, <1>8, <1>9, <1>10, <1>11 DEF Parse

\* Once the parser has ended nothing of the line changes.
LEMMA SameRead ==
  ASSUME LineSoFar, LineAsWritten, UNCHANGED lineVars PROVE LineSoFar' /\ LineAsWritten'
<1>1. LineSoFar'
  BY StillRead DEF lineVars
<1>2. LineAsWritten'
  BY DEF lineVars, LineAsWritten
<1> QED  BY <1>1, <1>2

--------------------------------------------------------------------------------

\* Types, limits, ownership and order hold at every point of the loading
\* (main.c parse_arguments and load_config, config.c).
THEOREM PatternsInvariant == Spec => []IInv
<1>1. IInv /\ LoadFile => IInv'
  BY ReadFileInv, FileOnly DEF LoadFile, IInv, TypeOK
<1>2. IInv /\ Other => IInv'
  BY WriteFileInv, FileOnly DEF Other, IInv, TypeOK
<1>3. IInv /\ UNCHANGED vars => IInv'
  <2> SUFFICES ASSUME IInv, UNCHANGED vars PROVE IInv'
    OBVIOUS
  <2>1. FileTypeOK' /\ FileSoFar' /\ UNCHANGED <<lineVars, patternVars>>
    BY DEF IInv, TypeOK, FileTypeOK, FileSoFar, ReadSoFar, vars, fileVars
  <2> QED  BY <2>1, FileOnly
<1>4. IInv /\ [Next]_vars => IInv'
  BY <1>1, <1>2, <1>3, ParseIInv, LoadTextIInv, ReadAllowIInv, AppendPatternsIInv
     DEF Next, Run, Finished
<1> QED  BY InitIInv, <1>4, PTL DEF Spec

\* The limits on patterns hold for both sources together, and no unsigned
\* subtraction wraps (add_pattern_size, valid_extra_pattern_count).
THEOREM LimitsHold == Spec => []BudgetKept
<1>1. IInv => BudgetKept
  BY DEF IInv
<1> QED  BY PatternsInvariant, <1>1, PTL

\* cli_config_destroy frees what was allocated, at whatever point loading failed.
THEOREM FreesWhatItOwns == Spec => []SlotsOwned
<1>1. IInv => SlotsOwned
  BY DEF IInv
<1> QED  BY PatternsInvariant, <1>1, PTL

\* The policy has all patterns of both sources, in their order.
THEOREM PatternsInOrder == Spec => []PolicyInOrder
<1>1. IInv => PolicyInOrder
  BY DEF IInv
<1> QED  BY PatternsInvariant, <1>1, PTL

\* A file that only grows or only shrinks meanwhile is read whole or refused.
THEOREM WholeFile == Spec => []FileReadWhole
<1>1. IInv => FileReadWhole
  <2> SUFFICES ASSUME IInv, reading = "read" PROVE FileReadWhole
    BY DEF FileReadWhole
  <2>1. /\ data \in Seq(Nat) /\ original \in Seq(Nat) /\ file \in Seq(Nat)
        /\ Len(data) = Len(original) /\ Len(file) <= Len(original) /\ measured = Len(original)
    BY DEF IInv, TypeOK, FileTypeOK, FileSoFar, ReadSoFar
  <2>2. ASSUME written \subseteq {"grown"} \/ written \subseteq {"shrunk"}
        PROVE  data = original
    <3>1. \A n \in 1..Len(data) : data[n] = original[n]
      BY <2>2 DEF IInv, FileSoFar, ReadSoFar
    <3> QED  BY <2>1, <3>1, SeqEqual
  <2>3. ASSUME written \subseteq {"grown"} PROVE file = original
    <3>1. Len(file) >= measured /\ \A n \in 1..measured : file[n] = original[n]
      BY <2>3 DEF IInv, FileSoFar, ReadSoFar
    <3>2. Len(file) = Len(original) /\ \A n \in 1..Len(file) : file[n] = original[n]
      BY <2>1, <3>1
    <3> QED  BY <2>1, <3>2, SeqEqual
  <2> QED  BY <2>2, <2>3 DEF FileReadWhole
<1> QED  BY PatternsInvariant, <1>1, PTL

\* What has been read of a command line is what it says, at every word of it, and
\* so is the answer to the whole of it (main.c parse_arguments).
THEOREM LineInvariant == Spec => [](IInv /\ LineSoFar /\ LineAsWritten)
<1>1. Init => LineSoFar /\ LineAsWritten
  BY InitIInv, NothingRead DEF Init, IInv, TypeOK
<1>2. ASSUME IInv, LineSoFar, LineAsWritten, [Next]_vars
      PROVE  LineSoFar' /\ LineAsWritten'
  <2>1. CASE ParseLine
    BY <1>2, <2>1, ParseWhileParsing, ParseReads DEF ParseLine, IInv, TypeOK
  <2>2. CASE UNCHANGED lineVars
    BY <1>2, <2>2, SameRead
  <2>3. ParseLine \/ UNCHANGED lineVars
    BY <1>2 DEF Next, Run, LoadFile, LoadText, ReadAllow, AppendPatterns, Other, Finished, vars
  <2> QED  BY <2>1, <2>2, <2>3
<1> QED  BY PatternsInvariant, <1>1, <1>2, PTL DEF Spec

\* A command line of any length is accepted just when the usage text has a form
\* for it, and the arguments are what it says (main.c parse_arguments,
\* valid_arguments).
THEOREM ParsesAsWritten == Spec => [](LineAsWritten /\ ParsedAsWritten)
<1>1. LineAsWritten => ParsedAsWritten
  BY DEF ParsedAsWritten
<1> QED  BY LineInvariant, <1>1, PTL

================================================================================
