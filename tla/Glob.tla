---------------------------------- MODULE Glob ----------------------------------
(***************************************************************************)
(* The glob matcher of src/src/glob.c: one matcher holds a list of         *)
(* patterns and the scratch arrays current, next, brace_ends and jumps,    *)
(* which are used again for every pattern and every path.  A pattern is    *)
(* matched by walking the path once with the set of all its live states;   *)
(* state k stands for "the first k characters of the pattern are done".    *)
(*                                                                         *)
(* Patterns and paths are sequences of characters.  An array of flags is   *)
(* the set of the indexes that are set; brace_ends and jumps keep 0 for    *)
(* "none", as in the code.                                                 *)
(***************************************************************************)
EXTENDS Integers, Sequences, FiniteSets, FiniteSetsExt

\* What a matcher is created with and asked: records of patterns, a list of
\* them, paths, in the order they are asked about, and defaultAllowed.
CONSTANT Questions

Characters == STRING \ {"NUL"}   \* A string ends at its first NUL.

ASSUME QuestionsAssumption ==
  Questions \subseteq [patterns : Seq(Seq(Characters)), paths : Seq(Seq(Characters)),
                       defaultAllowed : BOOLEAN]

Separators == {"/", "\\"}

--------------------------------------------------------------------------------
(* Patterns *)

\* The character at index k of a string, with the NUL that ends it.
At(text, k) == IF k = Len(text) THEN "NUL" ELSE text[k + 1]

Negated(pattern) == At(pattern, 0) = "!"
Text(pattern) == IF Negated(pattern) THEN Tail(pattern) ELSE pattern

\* Seeded fault: no room for the state at the end of the longest pattern.
PatternWidthWithoutEnd(list) == Max({1} \cup {Len(Text(list[n])) : n \in DOMAIN list})

PatternWidth(list) == Max({1} \cup {Len(Text(list[n])) + 1 : n \in DOMAIN list})

\* How deep in braces index k is, counted from index first.
Depth(text, first) ==
  LET depth[k \in first..Len(text)] ==
        IF k = first THEN 0
        ELSE LET before == depth[k - 1]
             IN  CASE At(text, k - 1) = "{" -> before + 1
                   [] At(text, k - 1) = "}" /\ before > 0 -> before - 1
                   [] OTHER -> before
  IN  depth

\* find_brace_group_at: every index where a group opened at open can close.
\* The scan goes on past a first "}" of depth 1 that no comma preceded.
GroupCloses(text, open) ==
  LET depth == Depth(text, open)
      outer == {k \in open..(Len(text) - 1) : At(text, k) \in {",", "}"} /\ depth[k] = 1}
      commas == {k \in outer : At(text, k) = ","}
  IN  {k \in outer : At(text, k) = "}" /\ \E comma \in commas : comma < k}

BraceEnd(text, open) ==
  LET closes == IF At(text, open) = "{" THEN GroupCloses(text, open) ELSE {}
  IN  IF closes = {} THEN 0 ELSE Min(closes) + 1

\* The commas between the alternatives of the group opened at open; end is the
\* index after its closing brace.
Commas(text, open, end) ==
  LET depth == Depth(text, open + 1)
  IN  {k \in (open + 1)..(end - 2) : At(text, k) = "," /\ depth[k] = 0}

\* mark_brace_group, for each group in the order of the opening braces: where
\* two groups mark one index the later one stays.
Jump(text, ends, k) ==
  LET groups == {open \in 0..(k - 1) :
                   /\ ends[open] > k
                   /\ k \in Commas(text, open, ends[open]) \cup {ends[open] - 1}}
  IN  IF groups = {} THEN 0 ELSE ends[Max(groups)]

--------------------------------------------------------------------------------
VARIABLES patterns,    \* matcher->patterns
          paths,       \* the paths this matcher will be asked about
          asked,       \* index of the path in hand
          pattern,     \* index of the pattern in hand
          phase,       \* "prepare", "walk" or "done"
          walked,      \* characters of the path consumed
          current, next, braceEnds, jumps,
          allowed,     \* the verdict so far on the path in hand
          defaultAllowed,
          verdicts     \* the verdicts returned

vars == <<patterns, paths, asked, pattern, phase, walked, current, next,
          braceEnds, jumps, allowed, defaultAllowed, verdicts>>

Width == PatternWidth(patterns)
Indexes == 0..(Width - 1)
Subject == Text(patterns[pattern])
Path == paths[asked]

TypeOK ==
  /\ patterns \in Seq(Seq(Characters)) /\ paths \in Seq(Seq(Characters))
  /\ asked \in 1..(Len(paths) + 1) /\ pattern \in 1..(Len(patterns) + 1)
  /\ phase \in {"prepare", "walk", "done"}
  /\ walked \in Nat
  /\ \A n \in DOMAIN patterns : Len(Text(patterns[n])) \in Indexes
  /\ current \subseteq Indexes /\ next \subseteq Indexes
  /\ braceEnds \in [Indexes -> 0..Width] /\ jumps \in [Indexes -> 0..Width]
  /\ allowed \in BOOLEAN /\ defaultAllowed \in BOOLEAN
  /\ verdicts \in Seq(BOOLEAN)

Init ==
  /\ \E question \in Questions :
       /\ patterns = question.patterns /\ paths = question.paths
       /\ defaultAllowed = question.defaultAllowed
  /\ asked = 1 /\ pattern = 1 /\ phase = "prepare" /\ walked = 0
  /\ current = {} /\ next = {}
  /\ braceEnds = [k \in Indexes |-> 0] /\ jumps = [k \in Indexes |-> 0]
  /\ allowed = defaultAllowed
  /\ verdicts = <<>>

--------------------------------------------------------------------------------
(* States: add_state and what it follows without consuming a character *)

IsStarStar(text, k) == At(text, k) = "*" /\ At(text, k + 1) = "*"

IsDirectory(text, k) == IsStarStar(text, k) /\ At(text, k + 2) \in Separators

\* add_star_zero_state
AfterStar(text, k) ==
  IF IsDirectory(text, k) THEN k + 3 ELSE IF IsStarStar(text, k) THEN k + 2 ELSE k + 1

Followers(text, ends, jump, k) ==
  IF jump[k] # 0 THEN {jump[k]}
  ELSE IF ends[k] # 0 THEN {k + 1} \cup {comma + 1 : comma \in Commas(text, k, ends[k])}
  ELSE IF At(text, k) = "*" THEN {AfterStar(text, k)}
  ELSE {}

Followed(text, ends, jump, states) ==
  states \cup ((UNION {Followers(text, ends, jump, k) : k \in states}) \cap 0..Len(text))

\* The calls of add_state from the given indexes, as deep as they can be nested.
Rounds(text, ends, jump, from) ==
  LET rounds[n \in 0..Len(text)] ==
        IF n = 0 THEN from \cap 0..Len(text)
        ELSE Followed(text, ends, jump, rounds[n - 1])
  IN  rounds

\* Every index add_state marks in seen, from the given indexes.
Reached(text, ends, jump, from) == Rounds(text, ends, jump, from)[Len(text)]

\* The indexes add_state keeps: those that are neither a jump nor a group.
Added(text, ends, jump, from) ==
  {k \in Reached(text, ends, jump, from) : jump[k] = 0 /\ ends[k] = 0}

CharactersMatch(a, b) == a = b \/ {a, b} \subseteq Separators

\* Seeded fault: a directory wildcard is entered again in the middle of a name.
EnteredFromStarAnew(text, k, character) ==
  IF IsDirectory(text, k) THEN IF character \in Separators THEN {k + 3} ELSE {k}
  ELSE IF IsStarStar(text, k) \/ character \notin Separators THEN {k} ELSE {}

\* consume_star and consume_state: the indexes given to add_next_state.
EnteredFromStar(text, k, character) ==
  IF IsDirectory(text, k) THEN IF character \in Separators THEN {k + 3} ELSE {}
  ELSE IF IsStarStar(text, k) \/ character \notin Separators THEN {k} ELSE {}

Entered(text, k, character) ==
  CASE k = Len(text) -> {}
    [] At(text, k) = "*" -> EnteredFromStar(text, k, character)
    [] At(text, k) = "?" -> IF character \in Separators THEN {} ELSE {k + 1}
    [] OTHER -> IF CharactersMatch(At(text, k), character) THEN {k + 1} ELSE {}

\* A directory wildcard stays where it is without being entered again.
Staying(text, states) == {k \in states : At(text, k) = "*" /\ IsDirectory(text, k)}

--------------------------------------------------------------------------------
(* fs_lint_glob_matcher_allows, path after path *)

\* Seeded fault: the states of the pattern before are not cleared.
PrepareKeepingStates ==
  /\ phase = "prepare" /\ asked <= Len(paths) /\ pattern <= Len(patterns)
  /\ braceEnds' = [k \in Indexes |->
                     IF k < Len(Subject) THEN BraceEnd(Subject, k) ELSE 0]
  /\ jumps' = [k \in Indexes |->
                 IF k < Len(Subject) THEN Jump(Subject, braceEnds', k) ELSE 0]
  /\ current' = current \cup Added(Subject, braceEnds', jumps', {0})
  /\ next' = {} /\ walked' = 0 /\ phase' = "walk"
  /\ UNCHANGED <<patterns, paths, asked, pattern, allowed, defaultAllowed, verdicts>>

\* prepare_pattern and add_open_state
Prepare ==
  /\ phase = "prepare" /\ asked <= Len(paths) /\ pattern <= Len(patterns)
  /\ braceEnds' = [k \in Indexes |->
                     IF k < Len(Subject) THEN BraceEnd(Subject, k) ELSE 0]
  /\ jumps' = [k \in Indexes |->
                 IF k < Len(Subject) THEN Jump(Subject, braceEnds', k) ELSE 0]
  /\ current' = Added(Subject, braceEnds', jumps', {0})
  /\ next' = {} /\ walked' = 0 /\ phase' = "walk"
  /\ UNCHANGED <<patterns, paths, asked, pattern, allowed, defaultAllowed, verdicts>>

\* consume_path_character: next is built and the two arrays change places.
Consume ==
  /\ phase = "walk" /\ walked < Len(Path)
  /\ LET entered == UNION {Entered(Subject, k, Path[walked + 1]) : k \in current}
     IN  current' = Added(Subject, braceEnds, jumps, entered) \cup Staying(Subject, current)
  /\ next' = current
  /\ walked' = walked + 1
  /\ UNCHANGED <<patterns, paths, asked, pattern, phase, braceEnds, jumps, allowed,
                 defaultAllowed, verdicts>>

\* Seeded fault: a denying pattern leaves an earlier allow in force.
DecideKeepingAllow ==
  /\ phase = "walk" /\ walked = Len(Path)
  /\ allowed' = IF Len(Subject) \in current
                THEN allowed \/ ~Negated(patterns[pattern]) ELSE allowed
  /\ pattern' = pattern + 1 /\ phase' = "prepare"
  /\ UNCHANGED <<patterns, paths, asked, walked, current, next, braceEnds, jumps,
                 defaultAllowed, verdicts>>

\* The end of matches_pattern: the last pattern that matches decides.
Decide ==
  /\ phase = "walk" /\ walked = Len(Path)
  /\ allowed' = IF Len(Subject) \in current THEN ~Negated(patterns[pattern]) ELSE allowed
  /\ pattern' = pattern + 1 /\ phase' = "prepare"
  /\ UNCHANGED <<patterns, paths, asked, walked, current, next, braceEnds, jumps,
                 defaultAllowed, verdicts>>

Return ==
  /\ phase = "prepare" /\ asked <= Len(paths) /\ pattern > Len(patterns)
  /\ verdicts' = Append(verdicts, allowed)
  /\ allowed' = defaultAllowed /\ asked' = asked + 1 /\ pattern' = 1
  /\ UNCHANGED <<patterns, paths, phase, walked, current, next, braceEnds, jumps,
                 defaultAllowed>>

Finish ==
  /\ phase = "prepare" /\ asked > Len(paths)
  /\ phase' = "done"
  /\ UNCHANGED <<patterns, paths, asked, pattern, walked, current, next, braceEnds,
                 jumps, allowed, defaultAllowed, verdicts>>

Finished == phase = "done" /\ UNCHANGED vars

Next == Prepare \/ Consume \/ Decide \/ Return \/ Finish \/ Finished

Spec == Init /\ [][Next]_vars

--------------------------------------------------------------------------------
(* The arrays of a pattern that nothing was in before *)

EndsOf(text) ==
  [k \in 0..Len(text) |-> IF k < Len(text) THEN BraceEnd(text, k) ELSE 0]
JumpsOf(text) ==
  [k \in 0..Len(text) |-> IF k < Len(text) THEN Jump(text, EndsOf(text), k) ELSE 0]

--------------------------------------------------------------------------------
(* The meaning of a pattern, read token after token (README.md, "Glob Syntax") *)

\* Where the reading goes on after index k: behind the token, at one of the
\* alternatives of a group, or behind the group at the end of an alternative.
Turns(text, ends, jump, k) ==
  IF jump[k] # 0 THEN {jump[k]}
  ELSE IF ends[k] # 0 THEN {k + 1} \cup {comma + 1 : comma \in Commas(text, k, ends[k])}
  ELSE IF IsDirectory(text, k) THEN {k + 3}
  ELSE IF IsStarStar(text, k) THEN {k + 2}
  ELSE {k + 1}

\* The token at index k allows what stands in the path after `from`, up to `to`.
TokenAllows(text, k, path, from, to) ==
  LET plain == \A n \in (from + 1)..to : path[n] \notin Separators
  IN  IF IsDirectory(text, k) THEN to = from \/ path[to] \in Separators
      ELSE IF IsStarStar(text, k) THEN TRUE
      ELSE IF At(text, k) = "*" THEN plain
      ELSE IF At(text, k) = "?" THEN to = from + 1 /\ plain
      ELSE to = from + 1 /\ CharactersMatch(At(text, k), path[to])

\* How far in the path the reading may be after index k, from where it was before.
Ahead(text, ends, jump, k, path, from) ==
  IF jump[k] # 0 \/ ends[k] # 0 THEN {from}
  ELSE {to \in from..Len(path) : TokenAllows(text, k, path, from, to)}

\* The beginnings of the path that the first k characters of the pattern describe.
Described(text, ends, jump, path) ==
  LET described[k \in 0..Len(text)] ==
        IF k = 0 THEN {0}
        ELSE UNION {UNION {Ahead(text, ends, jump, p, path, from) : from \in described[p]} :
                      p \in {p \in 0..(k - 1) : k \in Turns(text, ends, jump, p)}}
  IN  described

\* At every point of a walk the pattern is in its last state just when it describes
\* what has been walked of the path.
MatchesAsDescribed ==
  phase = "walk" =>
    (Len(Subject) \in current
       <=> walked \in Described(Subject, braceEnds, jumps, Path)[Len(Subject)])

\* Patterns match the complete path, and the last one that does decides.
Describes(text, path) ==
  Len(path) \in Described(text, EndsOf(text), JumpsOf(text), path)[Len(text)]

VerdictsAsDescribed ==
  \A n \in DOMAIN verdicts :
    LET matching == {m \in DOMAIN patterns : Describes(Text(patterns[m]), paths[n])}
    IN  verdicts[n] = IF matching = {} THEN defaultAllowed
                      ELSE ~Negated(patterns[Max(matching)])

================================================================================
