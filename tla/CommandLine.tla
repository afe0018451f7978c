------------------------------ MODULE CommandLine ------------------------------
(***************************************************************************)
(* The parser of the command line (src/src/main.c parse_arguments): one    *)
(* pass over argv that fills a cli_arguments, and the rules on what may go *)
(* together.  A word is a member of a small set; all the parser looks at   *)
(* besides equality is the first character, given by Dashed and Banged.    *)
(***************************************************************************)
EXTENDS Integers, Sequences, FiniteSets

CONSTANTS Words,          \* what is neither a command nor an option of fs-lint
          Dashed,         \* the words that begin with '-'
          Banged,         \* the words that begin with '!'
          CommandLines,   \* the command lines, without argv[0]
          FirstCapacity   \* of the growing arrays: 4

Commands == {"check", "check-path"}
Switches == {"--stdin0", "--staged"}
Valued == {"--root", "--config", "--format", "--allow", "--deny", "--base"}
Tokens == Commands \cup Switches \cup Valued \cup {"--"} \cup Words

NoWord == "none"   \* a null pointer
NoText == ""       \* the empty word

ASSUME WordsAssumption ==
  /\ NoWord \notin Tokens /\ Dashed \subseteq Words /\ Banged \subseteq Words
  /\ Words \cap (Commands \cup Switches \cup Valued \cup {"--"}) = {}
  /\ {"json", "text"} \subseteq Words \ (Dashed \cup Banged)
ASSUME CommandLinesAssumption == CommandLines \subseteq Seq(Tokens)
ASSUME CapacityAssumption == FirstCapacity \in Nat \ {0}

VARIABLES argv, index, optionsEnded, arguments,
          phase   \* "parsing", then how the parser ended

lineVars == <<argv, index, optionsEnded, arguments, phase>>

\* A pattern of --deny is kept with '!' in front.
Overrides == [word : Tokens, denied : BOOLEAN]
Arguments ==
  [command : Commands \cup {"config"}, root : Tokens \cup {"."},
   config : Tokens \cup {NoWord}, format : {"text", "json"},
   base : Tokens \cup {NoWord}, switches : SUBSET Switches,
   paths : Seq(Tokens), pathCapacity : Nat,
   overrides : Seq(Overrides), overrideCapacity : Nat]

Defaults ==
  [command |-> "config", root |-> ".", config |-> NoWord, format |-> "text",
   base |-> NoWord, switches |-> {}, paths |-> <<>>, pathCapacity |-> 0,
   overrides |-> <<>>, overrideCapacity |-> 0]

InitLine ==
  /\ argv \in CommandLines /\ index = 1 /\ optionsEnded = FALSE
  /\ arguments = Defaults /\ phase = "parsing"

Parsing == phase = "parsing" /\ index <= Len(argv)
Token == argv[index]
HasValue == index < Len(argv)
Value == argv[index + 1]

IsDashed(token) == token \in Switches \cup Valued \cup {"--"} \cup Dashed

\* The first command counts as one, and only before the separator.
IsCommand == ~optionsEnded /\ Token \in Commands /\ arguments.command = "config"
IsSeparator == ~optionsEnded /\ Token = "--"
IsOption == ~optionsEnded /\ IsDashed(Token) /\ ~IsSeparator
IsPath == ~IsCommand /\ ~IsSeparator /\ ~IsOption

\* Take the next words, with what they say.
Consume(count, said) ==
  /\ index' = index + count /\ arguments' = said
  /\ UNCHANGED <<argv, optionsEnded, phase>>

Stop(outcome) ==
  /\ phase' = outcome
  /\ UNCHANGED <<argv, index, optionsEnded, arguments>>

\* Room for one more: an array that is full is doubled.
Grown(length, capacity) ==
  IF length < capacity THEN capacity
  ELSE IF capacity = 0 THEN FirstCapacity ELSE 2 * capacity

--------------------------------------------------------------------------------
(* One token *)

ReadSeparator ==
  /\ Parsing /\ IsSeparator
  /\ index' = index + 1 /\ optionsEnded' = TRUE
  /\ UNCHANGED <<argv, arguments, phase>>

ReadCommand ==
  /\ Parsing /\ IsCommand
  /\ Consume(1, [arguments EXCEPT !.command = Token])

ReadSwitch ==
  /\ Parsing /\ IsOption /\ Token \in Switches \ arguments.switches
  /\ Consume(1, [arguments EXCEPT !.switches = @ \cup {Token}])

ReadString ==
  /\ Parsing /\ IsOption /\ HasValue
  /\ \/ Token = "--root" /\ Consume(2, [arguments EXCEPT !.root = Value])
     \/ Token = "--config" /\ Consume(2, [arguments EXCEPT !.config = Value])
     \/ /\ Token = "--format" /\ Value \in {"text", "json"}
        /\ Consume(2, [arguments EXCEPT !.format = Value])
     \/ /\ Token = "--base" /\ arguments.base = NoWord
        /\ Consume(2, [arguments EXCEPT !.base = Value])

\* Seeded fault: the first option of a kind goes before the later ones.
ReadPatternInFront ==
  /\ Parsing /\ IsOption /\ HasValue
  /\ Token \in {"--allow", "--deny"} /\ Value \notin Banged
  /\ Consume(2, [arguments EXCEPT
       !.overrides = <<[word |-> Value, denied |-> Token = "--deny"]>> \o @,
       !.overrideCapacity = Grown(Len(arguments.overrides), @)])

ReadPattern ==
  /\ Parsing /\ IsOption /\ HasValue
  /\ Token \in {"--allow", "--deny"} /\ Value \notin Banged
  /\ Consume(2, [arguments EXCEPT
       !.overrides = Append(@, [word |-> Value, denied |-> Token = "--deny"]),
       !.overrideCapacity = Grown(Len(arguments.overrides), @)])

ReadPath ==
  /\ Parsing /\ IsPath
  /\ Consume(1, [arguments EXCEPT
       !.paths = Append(@, Token),
       !.pathCapacity = Grown(Len(arguments.paths), @)])

\* The option is unknown, repeated, without a value or with a wrong one.
RefuseOption ==
  /\ Parsing /\ IsOption
  /\ \/ Token \notin Switches \cup Valued
     \/ Token \in arguments.switches
     \/ Token \in Valued /\ ~HasValue
     \/ Token = "--base" /\ arguments.base # NoWord
     \/ Token = "--format" /\ HasValue /\ Value \notin {"text", "json"}
     \/ Token \in {"--allow", "--deny"} /\ HasValue /\ Value \in Banged
  /\ Stop("refused")

\* realloc() of an array that is full, or malloc() of a pattern.
ParserFails ==
  /\ Parsing
  /\ \/ IsPath /\ Len(arguments.paths) = arguments.pathCapacity
     \/ IsOption /\ Token \in {"--allow", "--deny"} /\ HasValue /\ Value \notin Banged
  /\ Stop("no memory")

--------------------------------------------------------------------------------
(* The whole command line *)

Sources(said) ==
  said.switches \cup IF said.base = NoWord THEN {} ELSE {"--base"}

NumberOfSources(said) == Cardinality(Sources(said))

ValidBase(said) == said.base = NoWord \/ (said.base # NoText /\ ~IsDashed(said.base))

ValidArguments(said) ==
  \/ said.command = "config" /\ said.paths = <<>> /\ NumberOfSources(said) = 0
  \/ said.command = "check-path" /\ Len(said.paths) = 1 /\ NumberOfSources(said) = 0
  \/ /\ said.command = "check" /\ ValidBase(said)
     /\ Len(said.paths) > 0 <=> NumberOfSources(said) = 0
     /\ NumberOfSources(said) <= 1

AcceptArguments ==
  /\ phase = "parsing" /\ index > Len(argv) /\ ValidArguments(arguments)
  /\ Stop("parsed")

RefuseArguments ==
  /\ phase = "parsing" /\ index > Len(argv) /\ ~ValidArguments(arguments)
  /\ Stop("refused")

\* Only on their own; anywhere else these are unknown options.
AskedForHelp == argv \in {<<"--help">>, <<"-h">>, <<"--version">>}

Help == phase = "parsing" /\ index = 1 /\ AskedForHelp /\ Stop("help")

Parse ==
  \/ Help
  \/ /\ ~AskedForHelp
     /\ \/ ReadSeparator \/ ReadCommand \/ ReadSwitch \/ ReadString \/ ReadPattern
        \/ ReadPath \/ RefuseOption \/ ParserFails \/ AcceptArguments \/ RefuseArguments

LineTypeOK ==
  /\ argv \in Seq(Tokens) /\ index \in Nat \ {0}
  /\ arguments \in Arguments
  /\ phase \in {"parsing", "parsed", "refused", "no memory", "help"}

--------------------------------------------------------------------------------
(* Reference: what each word of a command line is *)

\* After an option that has one comes its value, whatever it looks like.
Roles(line) ==
  LET role[n \in 1..Len(line)] ==
        IF n > 1 /\ line[n - 1] \in Valued /\ role[n - 1] = "token" THEN "value" ELSE "token"
  IN  role

TokenWords(line) == {n \in DOMAIN line : Roles(line)[n] = "token"}
Separators(line) == {n \in TokenWords(line) : line[n] = "--"}
Before(line) == {n \in TokenWords(line) : \A m \in Separators(line) : n < m}
After(line) == {n \in DOMAIN line : \E m \in Separators(line) : m < n}

OptionWords(line) == {n \in Before(line) : IsDashed(line[n])}
CommandWords(line) == {n \in Before(line) : line[n] \in Commands}
FirstCommand(line) == {n \in CommandWords(line) : \A m \in CommandWords(line) : n <= m}
PathWords(line) ==
  After(line) \cup {n \in Before(line) \ FirstCommand(line) : ~IsDashed(line[n])}

SwitchWords(line) == {n \in OptionWords(line) : line[n] \in Switches}
SourceWords(line) == {n \in OptionWords(line) : line[n] \in Switches \cup {"--base"}}
Given(line, options) == {n \in OptionWords(line) : line[n] \in options /\ n < Len(line)}
PatternWords(line) == Given(line, {"--allow", "--deny"})
PatternsGiven(line) ==
  [n \in PatternWords(line) |-> [word |-> line[n + 1], denied |-> line[n] = "--deny"]]

\* The value of an option that may be repeated is the last one.
LastGiven(line, places, default, word) ==
  \/ places = {} /\ word = default
  \/ \E n \in places : (\A m \in places : m <= n) /\ word = line[n + 1]

\* What stands at these places of a line, in their order.
InOrder(list, places, what) ==
  /\ Len(list) = Cardinality(places)
  /\ \A n \in places : list[Cardinality({m \in places : m <= n})] = what[n]

CommandGiven(line, command) ==
  \/ CommandWords(line) = {} /\ command = "config"
  \/ \E n \in FirstCommand(line) : command = line[n]

\* No option is unknown, without its value, or with a value it cannot have.
OptionsMakeSense(line) ==
  /\ \A n \in OptionWords(line) :
       line[n] \in Switches \cup Valued /\ (line[n] \in Valued => n < Len(line))
  /\ \A n \in Given(line, {"--format"}) : line[n + 1] \in {"text", "json"}
  /\ \A n \in PatternWords(line) : line[n + 1] \notin Banged
  /\ \A n \in Given(line, {"--base"}) : line[n + 1] # NoText /\ ~IsDashed(line[n + 1])

\* The four usages of print_usage(), of which check has two: one source of paths, each
\* given once.
FitsUsage(line) ==
  \/ CommandGiven(line, "config") /\ PathWords(line) = {} /\ SourceWords(line) = {}
  \/ CommandGiven(line, "check-path") /\ Cardinality(PathWords(line)) = 1 /\ SourceWords(line) = {}
  \/ /\ CommandGiven(line, "check")
     /\ \/ PathWords(line) # {} /\ SourceWords(line) = {}
        \/ PathWords(line) = {} /\ Cardinality(SourceWords(line)) = 1

--------------------------------------------------------------------------------
(* Properties *)

\* What the parser answers to a command line is what the line says.
LineAsWritten ==
  /\ phase = "parsed" =>
       /\ OptionsMakeSense(argv) /\ FitsUsage(argv)
       /\ CommandGiven(argv, arguments.command)
       /\ InOrder(arguments.paths, PathWords(argv), argv)
       /\ InOrder(arguments.overrides, PatternWords(argv), PatternsGiven(argv))
       /\ arguments.switches = {argv[n] : n \in SwitchWords(argv)}
       /\ LastGiven(argv, Given(argv, {"--root"}), ".", arguments.root)
       /\ LastGiven(argv, Given(argv, {"--config"}), NoWord, arguments.config)
       /\ LastGiven(argv, Given(argv, {"--format"}), "text", arguments.format)
       /\ LastGiven(argv, Given(argv, {"--base"}), NoWord, arguments.base)
  /\ phase = "refused" => ~(OptionsMakeSense(argv) /\ FitsUsage(argv))

================================================================================
