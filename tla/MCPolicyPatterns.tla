---------------------------- MODULE MCPolicyPatterns ----------------------------
(***************************************************************************)
(* PolicyPatterns on every short command line and on lists of --allow and  *)
(* --deny.                                                                 *)
(***************************************************************************)
EXTENDS PolicyPatterns, SequencesExt

MCDashed == {"-x", "--help"}
MCBanged == {"!n"}
MCWords == MCDashed \cup MCBanged \cup {"a", "long", "json", "text", ""}

MCSize == [word \in Tokens |-> CASE word = "" -> 0 [] word = "long" -> 3 [] OTHER -> 1]

\* Every command line of up to four of these words.
Alphabet == Commands \cup Switches \cup {"--", "--root", "--format", "--allow",
              "--deny", "--base", "a", "json", "-x", "!n", ""}
ShortLines == BoundedSeq(Alphabet, 4) \cup {<<"--help">>, <<"check", "--help">>}

\* Up to four patterns on one command line, and a path that looks like an option.
PatternOptions == {<<"--allow", "a">>, <<"--deny", "a">>, <<"--allow", "long">>,
                   <<"--deny", "long">>}
PatternLines == {FlattenSeq(options) \o <<"check", "--", "--allow">> :
                   options \in BoundedSeq(PatternOptions, 4)}
MCCommandLines == ShortLines \cup PatternLines

Allowed(word) == [word |-> word, denied |-> FALSE]
SomeEntries == {Allowed("a"), Allowed("long"), [word |-> "a", denied |-> TRUE],
                NotAString}
MCAllowLists == BoundedSeq(SomeEntries, 2) \cup {[n \in 1..5 |-> Allowed("")]}

================================================================================
