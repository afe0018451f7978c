--------------------------------- MODULE MCGlob ---------------------------------
(***************************************************************************)
(* The matcher of Glob against the meaning README.md gives to a pattern    *)
(* ("Glob Syntax"): alternatives are expanded first, and each expansion    *)
(* is a sequence of tokens that must match the complete path.              *)
(***************************************************************************)
EXTENDS Glob, SequencesExt

--------------------------------------------------------------------------------
(* Reference *)

Token(kind, character) == [kind |-> kind, character |-> character]

RECURSIVE Tokens(_)
Tokens(text) ==
  IF text = <<>> THEN <<>>
  ELSE IF Len(text) > 1 /\ text[1] = "*" /\ text[2] = "*"
       THEN IF Len(text) > 2 /\ text[3] \in Separators
            THEN <<Token("directories", "")>> \o Tokens(SubSeq(text, 4, Len(text)))
            ELSE <<Token("any", "")>> \o Tokens(SubSeq(text, 3, Len(text)))
       ELSE LET token == CASE text[1] = "*" -> Token("segment", "")
                           [] text[1] = "?" -> Token("one", "")
                           [] OTHER -> Token("literal", text[1])
            IN  <<token>> \o Tokens(Tail(text))

Is(tokens, k, character) == tokens[k] = Token("literal", character)

\* The braces that are open before position k, from the one at position open.
OpenBraces(tokens, open) ==
  LET count[k \in open..(Len(tokens) + 1)] ==
        IF k = open THEN 0
        ELSE count[k - 1] + (IF Is(tokens, k - 1, "{") THEN 1 ELSE 0)
                          - (IF Is(tokens, k - 1, "}") THEN 1 ELSE 0)
  IN  count

\* The partner of the brace at open; 0 when there is none.
Partner(tokens, open) ==
  LET count == OpenBraces(tokens, open)
      closes == {k \in open..Len(tokens) : Is(tokens, k, "}") /\ count[k] = 1}
  IN  IF closes = {} THEN 0 ELSE Min(closes)

TopCommas(tokens, open) ==
  {k \in open..Partner(tokens, open) :
     Is(tokens, k, ",") /\ OpenBraces(tokens, open)[k] = 1}

\* Braces that enclose comma-separated alternatives.
IsGroup(tokens, open) ==
  Is(tokens, open, "{") /\ Partner(tokens, open) # 0 /\ TopCommas(tokens, open) # {}

Alternatives(tokens, open) ==
  LET bounds == {open, Partner(tokens, open)} \cup TopCommas(tokens, open)
      NextBound(b) == Min({c \in bounds : c > b})
  IN  {SubSeq(tokens, b + 1, NextBound(b) - 1) : b \in bounds \ {Partner(tokens, open)}}

RECURSIVE Expansions(_, _)
Expansions(tokens, from) ==
  LET groups == {k \in from..Len(tokens) : IsGroup(tokens, k)}
      open == Min(groups)
  IN  IF groups = {} THEN {tokens}
      ELSE UNION {Expansions(SubSeq(tokens, 1, open - 1) \o chosen \o
                             SubSeq(tokens, Partner(tokens, open) + 1, Len(tokens)), open) :
                    chosen \in Alternatives(tokens, open)}

RECURSIVE MatchesTokens(_, _)
MatchesTokens(tokens, path) ==
  IF tokens = <<>> THEN path = <<>>
  ELSE LET After(n) == MatchesTokens(Tail(tokens), SubSeq(path, n + 1, Len(path)))
           Plain(n) == \A i \in 1..n : path[i] \notin Separators
       IN  CASE Head(tokens).kind = "any" -> \E n \in 0..Len(path) : After(n)
             [] Head(tokens).kind = "segment" -> \E n \in 0..Len(path) : Plain(n) /\ After(n)
             [] Head(tokens).kind = "directories" ->
                  After(0) \/ \E n \in 1..Len(path) : path[n] \in Separators /\ After(n)
             [] Head(tokens).kind = "one" -> Len(path) > 0 /\ Plain(1) /\ After(1)
             [] OTHER -> /\ Len(path) > 0
                         /\ \/ path[1] = Head(tokens).character
                            \/ {path[1], Head(tokens).character} \subseteq Separators
                         /\ After(1)

Matches(text, path) ==
  \E expansion \in Expansions(Tokens(text), 1) : MatchesTokens(expansion, path)

Expected(list, path, byDefault) ==
  LET matching == {n \in DOMAIN list : Matches(Text(list[n]), path)}
  IN  IF matching = {} THEN byDefault ELSE ~Negated(list[Max(matching)])

--------------------------------------------------------------------------------
(* Properties *)

\* Every verdict is the one the documented syntax and "the last match decides"
\* give, whatever pattern and path the scratch arrays were last used for.
VerdictsFollowSyntax ==
  phase = "done" =>
    verdicts = [n \in DOMAIN paths |-> Expected(patterns, paths[n], defaultAllowed)]

--------------------------------------------------------------------------------
(* Inputs *)

Strings(alphabet, n) == BoundedSeq(alphabet, n)

Asked(lists, pathLists, defaults) ==
  [patterns : lists, paths : pathLists, defaultAllowed : defaults]

\* All short patterns of wildcards.
WildcardLists == {<<text>> : text \in Strings({"a", "/", "*", "?"}, 5)}
WildcardPaths == {<<path>> : path \in Strings({"a", "/", "\\"}, 3)}

\* Patterns put together from pieces with groups, nested, empty and unclosed.
Pieces == {<<"a">>, <<"*">>, <<"*", "*", "/">>,
           <<"{", "a", ",", "b", "}">>, <<"{", "*", ",", "}">>,
           <<"{", "a", "{", "b", ",", "}", ",", "b", "}">>, <<"{", "a", ",">>, <<"{", "a", "}">>}
Braced == {FlattenSeq(pieces) : pieces \in BoundedSeq(Pieces, 3)}

\* A group that find_brace_group_at closes elsewhere than at its partner.
ClosesElsewhere(text) ==
  \E k \in 0..(Len(text) - 1) :
    LET end == BraceEnd(text, k)
        depth == Depth(text, k)
    IN  \E partner \in (k + 1)..(end - 2) : At(text, partner) = "}" /\ depth[partner] = 1

BracedLists == {<<text>> : text \in {t \in Braced : ~ClosesElsewhere(t)}}
BracedPaths == {<<path>> : path \in Strings({"a", "b", "{"}, 3)}

\* Lists in which patterns of different length and shape follow one another,
\* asked about several paths in turn.
ListPatterns == {<<"*">>, <<"!", "a">>, <<"{", "a", ",", "b", "}">>,
                 <<"!", "{", "b", ",", "a", "}", "a">>, <<"*", "*", "/", "a", "b">>}
SequenceLists == BoundedSeq(ListPatterns, 3)
SequencePaths == {<<p, q>> : p, q \in {<<"a">>, <<"b">>, <<"a", "a">>, <<"a", "b">>}}

MCQuestions == Asked(WildcardLists, WildcardPaths, {FALSE})
          \cup Asked(BracedLists, BracedPaths, {FALSE})
          \cup Asked(SequenceLists, SequencePaths, {TRUE, FALSE})

================================================================================
