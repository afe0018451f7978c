------------------------------ MODULE Glob_proofs ------------------------------
(***************************************************************************)
(* The scratch arrays of the glob matcher are wide enough for every        *)
(* pattern of every list, and the states of a walk lie inside the pattern  *)
(* in hand; add_state ends, and reaches all that can be reached; a verdict *)
(* depends on the list and the path alone, and is the one the pattern      *)
(* describes when it is read token after token, in which a brace group     *)
(* stands for its alternatives.                                            *)
(***************************************************************************)
EXTENDS Glob, WellFoundedInduction, TLAPS

--------------------------------------------------------------------------------
(* The inductive invariant *)

\* No state of a longer pattern or of the path before is left in the arrays
\* while a pattern is walked: states lie inside the pattern, and never on
\* a brace or comma that only leads elsewhere.
StatesInsidePattern ==
  phase = "walk" =>
    /\ current \cup next \subseteq 0..Len(Subject)
    /\ \A k \in current : braceEnds[k] = 0 /\ jumps[k] = 0

\* While a pattern is walked there are a pattern and a
\* path to walk, and no more of the path is consumed than there is.
WalkInHand ==
  phase = "walk" =>
    asked <= Len(paths) /\ pattern <= Len(patterns) /\ walked <= Len(Path)

\* A jump leads on in the pattern, so that add_state cannot call itself for ever.
JumpsLeadOn == \A k \in Indexes : jumps[k] = 0 \/ jumps[k] > k

IInv == TypeOK /\ StatesInsidePattern /\ WalkInHand /\ JumpsLeadOn

\* The walk of a path, with arrays that nothing was in before.
Opened(text) == Added(text, EndsOf(text), JumpsOf(text), {0})

Stepped(text, states, character) ==
  LET entered == UNION {Entered(text, k, character) : k \in states}
  IN  Added(text, EndsOf(text), JumpsOf(text), entered) \cup Staying(text, states)

Walk(text, path) ==
  LET walk[n \in 0..Len(path)] ==
        IF n = 0 THEN Opened(text) ELSE Stepped(text, walk[n - 1], path[n])
  IN  walk

Accepts(text, path) == Len(text) \in Walk(text, path)[Len(path)]

\* What the first patterns of a list make of a path: the last that matches decides.
Decided(list, first, path, byDefault) ==
  LET matching == {n \in 1..first : Accepts(Text(list[n]), path)}
  IN  IF matching = {} THEN byDefault ELSE ~Negated(list[Max(matching)])

\* A verdict depends on the list, the path and the default alone, whatever patterns
\* and paths the arrays were used for before.
VerdictsAreFresh ==
  \A n \in DOMAIN verdicts :
    verdicts[n] = Decided(patterns, Len(patterns), paths[n], defaultAllowed)

\* For VerdictsAreFresh: the arrays are those of the pattern in hand, and `allowed` is
\* what the patterns before it decide.
ArraysInHand ==
  phase = "walk" =>
    \A k \in 0..Len(Subject) :
      braceEnds[k] = EndsOf(Subject)[k] /\ jumps[k] = JumpsOf(Subject)[k]

WalkSoFar == phase = "walk" => current = Walk(Subject, Path)[walked]

DecidedSoFar ==
  asked <= Len(paths) => allowed = Decided(patterns, pattern - 1, Path, defaultAllowed)

FreshSoFar ==
  /\ ArraysInHand
  /\ WalkSoFar
  /\ DecidedSoFar
  /\ Len(verdicts) = asked - 1
  /\ VerdictsAreFresh

--------------------------------------------------------------------------------
(* Least and greatest elements *)

\* A set of natural numbers that contains 0 and each successor contains them all.
LEMMA NatSetInduction ==
  ASSUME NEW S, 0 \in S, \A n \in Nat : n \in S => n + 1 \in S
  PROVE  Nat \subseteq S
<1> DEFINE rest == Nat \ S
           below == OpToRel(<, Nat)
<1>1. IsWellFoundedOn(below, Nat)
  BY NatLessThanWellFounded
<1>2. \A x, y \in Nat : y < x => <<y, x>> \in below
  BY DEF OpToRel
<1>3. SUFFICES ASSUME rest # {} PROVE FALSE
  OBVIOUS
<1> HIDE DEF below
<1>4. PICK x \in rest : \A y \in rest : ~(<<y, x>> \in below)
  <2>1. rest \subseteq Nat
    OBVIOUS
  <2> HIDE DEF rest
  <2> QED  BY <1>1, <1>3, <2>1, WFMin
<1>5. x # 0 /\ x - 1 \in Nat /\ x - 1 < x
  OBVIOUS
<1>6. x - 1 \in S
  BY <1>2, <1>4, <1>5
<1>7. (x - 1) + 1 \in S
  BY <1>5, <1>6
<1> QED  BY <1>4, <1>5, <1>7

LEMMA LeastIs ==
  ASSUME NEW S \in SUBSET Nat, S # {}
  PROVE  Min(S) \in S /\ \A y \in S : Min(S) <= y
<1>1. IsWellFoundedOn(OpToRel(<, Nat), Nat)
  BY NatLessThanWellFounded
<1> DEFINE below == OpToRel(<, Nat)
<1>2. \A x, y \in Nat : y < x => <<y, x>> \in below
  BY DEF OpToRel
<1> HIDE DEF below
<1>3. PICK x \in S : \A y \in S : ~(<<y, x>> \in below)
  BY <1>1, WFMin DEF below
<1>4. ASSUME NEW y \in S PROVE x <= y
  <2>1. x \in Nat /\ y \in Nat /\ ~(y < x)
    BY <1>2, <1>3
  <2> QED  BY <2>1
<1> QED  BY <1>3, <1>4 DEF Min

LEMMA GreatestIs ==
  ASSUME NEW S \in SUBSET Nat, S # {}, NEW bound \in Nat, \A x \in S : x <= bound
  PROVE  Max(S) \in S /\ \A y \in S : y <= Max(S)
<1> DEFINE gaps == {bound - x : x \in S}
<1>1. gaps \in SUBSET Nat /\ gaps # {}
  <2>1. \A x \in S : bound - x \in Nat
    OBVIOUS
  <2> QED  BY <2>1
<1>2. PICK gap \in gaps : \A other \in gaps : gap <= other
  <2> HIDE DEF gaps
  <2> QED  BY <1>1, LeastIs
<1>3. PICK x \in S : gap = bound - x
  BY <1>2
<1>4. ASSUME NEW y \in S PROVE y <= x
  <2>1. bound - y \in gaps
    OBVIOUS
  <2>2. bound - x <= bound - y /\ x \in Nat /\ y \in Nat
    BY <1>2, <1>3, <2>1
  <2> QED  BY <2>2
<1> QED  BY <1>3, <1>4 DEF Max

--------------------------------------------------------------------------------
(* Patterns *)

LEMMA TextIs ==
  ASSUME NEW string \in Seq(Characters)
  PROVE  Text(string) \in Seq(Characters) /\ Len(Text(string)) \in Nat
<1>1. CASE Negated(string)
  <2>1. string # <<>>
    BY <1>1 DEF Negated, At
  <2>2. Tail(string) \in Seq(Characters)
    BY <2>1
  <2> QED  BY <1>1, <2>2 DEF Text
<1>2. CASE ~Negated(string)
  BY <1>2 DEF Text
<1> QED  BY <1>1, <1>2

\* The arrays have room for the state after the last character of each pattern.
LEMMA WidthIs ==
  ASSUME NEW list \in Seq(Seq(Characters))
  PROVE  /\ PatternWidth(list) \in Nat \ {0}
         /\ \A n \in DOMAIN list : Len(Text(list[n])) + 1 <= PatternWidth(list)
<1> DEFINE size(n) == Len(Text(list[n])) + 1
           sizes == {1} \cup {size(n) : n \in DOMAIN list}
           bounded == {m \in Nat : \E b \in Nat : \A n \in DOMAIN list : n <= m => size(n) <= b}
<1>1. Len(list) \in Nat /\ DOMAIN list = 1..Len(list)
  OBVIOUS
<1>2. \A n \in DOMAIN list : size(n) \in Nat \ {0}
  BY TextIs
<1>3. PatternWidth(list) = Max(sizes)
  BY DEF PatternWidth
<1> HIDE DEF size
<1>4. 0 \in bounded
  BY <1>1
<1>5. ASSUME NEW m \in Nat, m \in bounded PROVE m + 1 \in bounded
  <2>1. PICK b \in Nat : \A n \in DOMAIN list : n <= m => size(n) <= b
    BY <1>5
  <2>2. CASE m + 1 \in DOMAIN list
    <3>1. b + size(m + 1) \in Nat /\ size(m + 1) \in Nat
      BY <1>2, <2>2
    <3>2. ASSUME NEW n \in DOMAIN list, n <= m + 1 PROVE size(n) <= b + size(m + 1)
      <4>1. n \in Nat
        BY <1>1
      <4>2. n <= m \/ n = m + 1
        BY <3>2, <4>1
      <4> QED  BY <1>2, <2>1, <3>1, <4>2
    <3> QED  BY <3>1, <3>2
  <2>3. CASE m + 1 \notin DOMAIN list
    <3>1. \A n \in DOMAIN list : n <= m + 1 => n <= m
      BY <1>1, <2>3
    <3> QED  BY <2>1, <3>1
  <2> QED  BY <2>2, <2>3
<1>6. PICK b \in Nat : \A n \in DOMAIN list : size(n) <= b
  <2>1. Nat \subseteq bounded
    <3> HIDE DEF bounded
    <3> QED  BY <1>4, <1>5, NatSetInduction
  <2> QED  BY <1>1, <2>1
<1>7. sizes \in SUBSET Nat /\ sizes # {} /\ b + 1 \in Nat /\ \A x \in sizes : x <= b + 1
  BY <1>2, <1>6
<1>8. Max(sizes) \in sizes /\ \A y \in sizes : y <= Max(sizes)
  <2> HIDE DEF sizes
  <2> QED  BY <1>7, GreatestIs
<1>9. \A n \in DOMAIN list : size(n) \in sizes
  OBVIOUS
<1>10. Max(sizes) \in Nat \ {0}
  BY <1>2, <1>8
<1> QED  BY <1>3, <1>8, <1>9, <1>10 DEF size

\* A group ends inside the pattern, after its opening brace.
LEMMA BraceEndIs ==
  ASSUME NEW text \in Seq(Characters), NEW k \in 0..(Len(text) - 1)
  PROVE  BraceEnd(text, k) \in 0..Len(text)
<1> DEFINE closes == IF At(text, k) = "{" THEN GroupCloses(text, k) ELSE {}
<1>1. closes \subseteq k..(Len(text) - 1)
  BY DEF GroupCloses
<1>2. BraceEnd(text, k) = IF closes = {} THEN 0 ELSE Min(closes) + 1
  BY DEF BraceEnd
<1> HIDE DEF closes
<1>3. CASE closes = {}
  BY <1>2, <1>3
<1>4. CASE closes # {}
  <2>1. closes \in SUBSET Nat
    BY <1>1
  <2>2. Min(closes) \in closes
    BY <1>4, <2>1, LeastIs
  <2>3. PICK last \in k..(Len(text) - 1) : last = Min(closes)
    BY <1>1, <2>2
  <2>4. last + 1 \in 0..Len(text)
    OBVIOUS
  <2> QED  BY <1>2, <1>4, <2>3, <2>4
<1> QED  BY <1>3, <1>4

\* A jump leads to the end of a group, further on in the pattern.
LEMMA JumpIs ==
  ASSUME NEW text, NEW width \in Nat, NEW ends \in [0..width - 1 -> 0..width],
         NEW k \in 0..(width - 1)
  PROVE  Jump(text, ends, k) \in 0..width /\ (Jump(text, ends, k) = 0 \/ Jump(text, ends, k) > k)
<1> DEFINE groups == {open \in 0..(k - 1) :
                        /\ ends[open] > k
                        /\ k \in Commas(text, open, ends[open]) \cup {ends[open] - 1}}
<1>1. /\ groups \in SUBSET Nat /\ k \in Nat
      /\ \A open \in groups : open <= k
      /\ \A open \in groups : ends[open] > k /\ ends[open] \in 0..width
  OBVIOUS
<1>2. Jump(text, ends, k) = IF groups = {} THEN 0 ELSE ends[Max(groups)]
  BY DEF Jump
<1> HIDE DEF groups
<1>3. CASE groups = {}
  BY <1>2, <1>3
<1>4. CASE groups # {}
  <2>1. Max(groups) \in groups
    BY <1>1, <1>4, GreatestIs
  <2> QED  BY <1>1, <1>2, <1>4, <2>1
<1> QED  BY <1>3, <1>4

--------------------------------------------------------------------------------
(* add_state *)

\* The recursion of Rounds has a solution.
LEMMA RoundsAre ==
  ASSUME NEW text \in Seq(Characters), NEW ends, NEW jump, NEW from
  PROVE  LET rounds == Rounds(text, ends, jump, from)
         IN  /\ rounds[0] = from \cap 0..Len(text)
             /\ \A n \in 1..Len(text) : rounds[n] = Followed(text, ends, jump, rounds[n - 1])
<1> DEFINE first == from \cap 0..Len(text)
           Step(states) == Followed(text, ends, jump, states)
           Solves(d, m) == d = [n \in 0..m |-> IF n = 0 THEN first ELSE Step(d[n - 1])]
           solved == {m \in Nat : \E d : Solves(d, m)}
<1> HIDE DEF first, Step
<1>1. 0 \in solved
  <2>1. Solves([n \in 0..0 |-> first], 0)
    OBVIOUS
  <2> QED  BY <2>1
<1>2. ASSUME NEW m \in Nat, m \in solved PROVE m + 1 \in solved
  <2>1. PICK d : Solves(d, m)
    BY <1>2
  <2> DEFINE e == [n \in 0..(m + 1) |-> IF n = 0 THEN first ELSE Step(d[n - 1])]
  <2>2. \A n \in 0..m : d[n] = IF n = 0 THEN first ELSE Step(d[n - 1])
    BY <2>1
  <2>3. \A n \in 0..(m + 1) : e[n] = IF n = 0 THEN first ELSE Step(d[n - 1])
    OBVIOUS
  <2>4. e = [n \in 0..(m + 1) |-> e[n]]
    OBVIOUS
  <2> HIDE DEF e
  <2>5. \A n \in 0..m : e[n] = d[n]
    BY <2>2, <2>3
  <2>6. ASSUME NEW n \in 0..(m + 1) PROVE e[n] = IF n = 0 THEN first ELSE Step(e[n - 1])
    <3>1. CASE n = 0
      BY <2>3, <3>1
    <3>2. CASE n # 0
      <4>1. n - 1 \in 0..m
        BY <3>2
      <4> QED  BY <2>3, <2>5, <3>2, <4>1
    <3> QED  BY <3>1, <3>2
  <2>7. Solves(e, m + 1)
    BY <2>4, <2>6
  <2> HIDE DEF Solves
  <2> QED  BY <2>7
<1>3. \E d : Solves(d, Len(text))
  <2> HIDE DEF solved
  <2>1. Nat \subseteq solved
    BY <1>1, <1>2, NatSetInduction
  <2>2. Len(text) \in solved
    BY <2>1
  <2> QED  BY <2>2 DEF solved
<1> DEFINE it == Rounds(text, ends, jump, from)
<1>4. it = CHOOSE d : Solves(d, Len(text))
  BY DEF Rounds, first, Step
<1> HIDE DEF it
<1>5. it = [n \in 0..Len(text) |-> IF n = 0 THEN first ELSE Step(it[n - 1])]
  BY <1>3, <1>4
<1>6. \A n \in 0..Len(text) : it[n] = IF n = 0 THEN first ELSE Step(it[n - 1])
  BY <1>5
<1>7. it[0] = first /\ \A n \in 1..Len(text) : it[n] = Step(it[n - 1])
  BY <1>6
<1> QED  BY <1>7 DEF it, first, Step

\* Nothing outside of the pattern is reached.
LEMMA ReachedInside ==
  ASSUME NEW text \in Seq(Characters), NEW ends, NEW jump, NEW from
  PROVE  Reached(text, ends, jump, from) \subseteq 0..Len(text)
<1> DEFINE rounds == Rounds(text, ends, jump, from)
           inside == {n \in Nat : n <= Len(text) => rounds[n] \subseteq 0..Len(text)}
<1>1. /\ rounds[0] = from \cap 0..Len(text)
      /\ \A n \in 1..Len(text) : rounds[n] = Followed(text, ends, jump, rounds[n - 1])
  BY RoundsAre
<1>2. Reached(text, ends, jump, from) = rounds[Len(text)]
  BY DEF Reached
<1> HIDE DEF rounds
<1>3. 0 \in inside
  BY <1>1
<1>4. ASSUME NEW n \in Nat, n \in inside PROVE n + 1 \in inside
  <2>1. SUFFICES ASSUME n + 1 <= Len(text) PROVE rounds[n + 1] \subseteq 0..Len(text)
    OBVIOUS
  <2>2. n + 1 \in 1..Len(text) /\ (n + 1) - 1 = n /\ n <= Len(text)
    BY <2>1
  <2>3. rounds[n + 1] = Followed(text, ends, jump, rounds[n])
    BY <1>1, <2>2
  <2>4. rounds[n] \subseteq 0..Len(text)
    BY <1>4, <2>2
  <2> DEFINE others == UNION {Followers(text, ends, jump, k) : k \in rounds[n]}
  <2>5. rounds[n + 1] = rounds[n] \cup (others \cap 0..Len(text))
    BY <2>3 DEF Followed
  <2> HIDE DEF others
  <2> QED  BY <2>4, <2>5
<1>5. Nat \subseteq inside
  <2> HIDE DEF inside
  <2> QED  BY <1>3, <1>4, NatSetInduction
<1> QED  BY <1>2, <1>5

\* add_state only ever calls itself further on in the pattern.
LEMMA FollowersAhead ==
  ASSUME NEW text, NEW ends, NEW jump, NEW k \in Nat,
         ends[k] \in Nat, jump[k] \in Nat, jump[k] = 0 \/ jump[k] > k
  PROVE  \A follower \in Followers(text, ends, jump, k) : follower \in Int /\ follower > k
<1>1. CASE jump[k] # 0
  BY <1>1 DEF Followers
<1>2. CASE jump[k] = 0 /\ ends[k] # 0
  <2>1. Commas(text, k, ends[k]) \subseteq (k + 1)..(ends[k] - 2)
    BY DEF Commas
  <2>2. \A comma \in Commas(text, k, ends[k]) : comma \in Int /\ comma > k
    BY <2>1
  <2> QED  BY <1>2, <2>2 DEF Followers
<1>3. CASE jump[k] = 0 /\ ends[k] = 0
  <2>1. AfterStar(text, k) \in {k + 1, k + 2, k + 3}
    BY DEF AfterStar
  <2> QED  BY <1>3, <2>1 DEF Followers
<1> QED  BY <1>1, <1>2, <1>3

\* The nested calls of add_state come to an end within the length of the pattern:
\* every index that a reached one leads to is reached, none is left out.
THEOREM AddStateIsComplete ==
  ASSUME NEW text \in Seq(Characters), NEW ends, NEW jump, NEW from,
         \A k \in 0..Len(text) : ends[k] \in Nat /\ jump[k] \in Nat,
         \A k \in 0..Len(text) : jump[k] = 0 \/ jump[k] > k
  PROVE  LET reached == Reached(text, ends, jump, from)
         IN  /\ from \cap 0..Len(text) \subseteq reached
             /\ Followed(text, ends, jump, reached) = reached
<1> DEFINE rounds == Rounds(text, ends, jump, from)
           Leads(k) == Followers(text, ends, jump, k) \cap 0..Len(text)
           Settled(n) == \A k \in rounds[n] : k < n => Leads(k) \subseteq rounds[n]
           settled == {n \in Nat : n <= Len(text) =>
                         /\ rounds[n] \subseteq 0..Len(text)
                         /\ from \cap 0..Len(text) \subseteq rounds[n]
                         /\ Settled(n)}
<1>1. /\ rounds[0] = from \cap 0..Len(text)
      /\ \A n \in 1..Len(text) : rounds[n] = Followed(text, ends, jump, rounds[n - 1])
  BY RoundsAre
<1>2. Reached(text, ends, jump, from) = rounds[Len(text)] /\ Len(text) \in Nat
  BY DEF Reached
<1>3. \A k \in 0..Len(text) : \A follower \in Leads(k) : follower \in 0..Len(text) /\ follower > k
  BY FollowersAhead
<1>4. ASSUME NEW states
      PROVE  Followed(text, ends, jump, states) = states \cup UNION {Leads(k) : k \in states}
  <2>1. \A x : x \in UNION {Leads(k) : k \in states} <=> \E k \in states : x \in Leads(k)
    OBVIOUS
  <2>2. \A x : x \in UNION {Followers(text, ends, jump, k) : k \in states} <=>
                 \E k \in states : x \in Followers(text, ends, jump, k)
    OBVIOUS
  <2>3. \A x : x \in Followed(text, ends, jump, states) <=>
                 x \in states \/ \E k \in states : x \in Leads(k)
    BY <2>2 DEF Followed
  <2> HIDE DEF Leads
  <2> QED  BY <2>1, <2>3
<1> HIDE DEF rounds, Leads
<1>5. 0 \in settled
  BY <1>1
<1>6. ASSUME NEW n \in Nat, n \in settled PROVE n + 1 \in settled
  <2>1. SUFFICES ASSUME n + 1 <= Len(text)
                 PROVE  /\ rounds[n + 1] \subseteq 0..Len(text)
                        /\ from \cap 0..Len(text) \subseteq rounds[n + 1]
                        /\ Settled(n + 1)
    OBVIOUS
  <2>2. n + 1 \in 1..Len(text) /\ (n + 1) - 1 = n /\ n <= Len(text)
    BY <1>2, <2>1
  <2>3. rounds[n + 1] = rounds[n] \cup UNION {Leads(k) : k \in rounds[n]}
    BY <1>1, <1>4, <2>2
  <2>4. /\ rounds[n] \subseteq 0..Len(text) /\ from \cap 0..Len(text) \subseteq rounds[n]
        /\ Settled(n)
    BY <1>6, <2>2
  <2>5. rounds[n + 1] \subseteq 0..Len(text)
    BY <1>3, <2>3, <2>4
  <2>6. ASSUME NEW k \in rounds[n + 1], k < n + 1 PROVE Leads(k) \subseteq rounds[n + 1]
    <3>1. CASE k \in rounds[n]
      BY <2>3, <3>1
    <3>2. CASE k \notin rounds[n]
      <4>1. PICK j \in rounds[n] : k \in Leads(j)
        BY <2>3, <3>2
      <4>2. j < k /\ j \in Nat /\ k \in Nat
        BY <1>3, <2>4, <4>1
      <4>3. j < n
        BY <2>6, <4>2
      <4>4. k \in rounds[n]
        BY <2>4, <4>1, <4>3
      <4> QED  BY <3>2, <4>4
    <3> QED  BY <3>1, <3>2
  <2> QED  BY <2>3, <2>4, <2>5, <2>6
<1>7. Nat \subseteq settled
  <2> HIDE DEF settled
  <2> QED  BY <1>5, <1>6, NatSetInduction
<1>8. /\ rounds[Len(text)] \subseteq 0..Len(text)
      /\ from \cap 0..Len(text) \subseteq rounds[Len(text)]
      /\ Settled(Len(text))
  BY <1>2, <1>7
<1>9. \A k \in rounds[Len(text)] : Leads(k) \subseteq rounds[Len(text)]
  <2>1. SUFFICES ASSUME NEW k \in rounds[Len(text)] PROVE Leads(k) \subseteq rounds[Len(text)]
    OBVIOUS
  <2>2. CASE k < Len(text)
    BY <1>8, <2>2
  <2>3. CASE k = Len(text)
    BY <1>2, <1>3, <2>3
  <2> QED  BY <1>2, <1>8, <2>2, <2>3
<1>10. Followed(text, ends, jump, rounds[Len(text)]) = rounds[Len(text)]
  <2>1. UNION {Leads(k) : k \in rounds[Len(text)]} \subseteq rounds[Len(text)]
    BY <1>9
  <2> QED  BY <1>4, <2>1
<1> QED  BY <1>2, <1>8, <1>10

--------------------------------------------------------------------------------
(* The matcher *)

LEMMA InitIInv == Init => IInv
<1> SUFFICES ASSUME Init PROVE IInv
  OBVIOUS
<1>1. PICK question \in Questions :
        /\ patterns = question.patterns /\ paths = question.paths
        /\ defaultAllowed = question.defaultAllowed
  BY DEF Init
<1>2. /\ patterns \in Seq(Seq(Characters)) /\ paths \in Seq(Seq(Characters))
      /\ defaultAllowed \in BOOLEAN
  BY <1>1, QuestionsAssumption
<1>3. Width \in Nat \ {0} /\ \A n \in DOMAIN patterns : Len(Text(patterns[n])) + 1 <= Width
  BY <1>2, WidthIs DEF Width
<1>4. \A n \in DOMAIN patterns : Len(Text(patterns[n])) \in Indexes
  <2>1. \A n \in DOMAIN patterns : Len(Text(patterns[n])) \in Nat
    BY <1>2, TextIs
  <2> QED  BY <1>3, <2>1 DEF Indexes
<1>5. asked \in 1..(Len(paths) + 1) /\ pattern \in 1..(Len(patterns) + 1)
  BY <1>2 DEF Init
<1>6. braceEnds \in [Indexes -> 0..Width] /\ jumps \in [Indexes -> 0..Width] /\ JumpsLeadOn
  BY <1>3 DEF Init, JumpsLeadOn
<1>7. /\ phase = "prepare" /\ walked = 0 /\ current = {} /\ next = {}
      /\ allowed \in BOOLEAN /\ verdicts \in Seq(BOOLEAN)
  BY <1>2 DEF Init
<1> QED
  BY <1>2, <1>4, <1>5, <1>6, <1>7 DEF IInv, TypeOK, StatesInsidePattern, WalkInHand

\* What a step may rely on while the pattern in hand is one of the list.
LEMMA SubjectIs ==
  ASSUME IInv, pattern <= Len(patterns)
  PROVE  /\ Subject \in Seq(Characters) /\ Len(Subject) \in Nat
         /\ Len(Subject) + 1 <= Width /\ Width \in Nat /\ Indexes = 0..(Width - 1)
         /\ 0..Len(Subject) \subseteq Indexes
<1>1. patterns \in Seq(Seq(Characters)) /\ pattern \in DOMAIN patterns
  BY DEF IInv, TypeOK
<1>2. Subject \in Seq(Characters) /\ Len(Subject) \in Nat
  BY <1>1, TextIs DEF Subject
<1>3. Width \in Nat /\ Len(Subject) + 1 <= Width
  BY <1>1, WidthIs DEF Width, Subject
<1> QED  BY <1>2, <1>3 DEF Indexes

\* The patterns and paths of a matcher stay, and with them the size of its arrays.
LEMMA ListsStay ==
  ASSUME TypeOK, UNCHANGED <<patterns, paths, defaultAllowed>>
  PROVE  /\ Width' = Width /\ Indexes' = Indexes
         /\ patterns' \in Seq(Seq(Characters)) /\ paths' \in Seq(Seq(Characters))
         /\ defaultAllowed' \in BOOLEAN
         /\ \A n \in DOMAIN patterns' : Len(Text(patterns'[n])) \in Indexes'
BY DEF TypeOK, Width, Indexes

\* The states that are added lie inside the pattern, outside of jumps and groups.
LEMMA AddedInside ==
  ASSUME NEW text \in Seq(Characters), NEW ends, NEW jump, NEW from
  PROVE  /\ Added(text, ends, jump, from) \subseteq 0..Len(text)
         /\ \A k \in Added(text, ends, jump, from) : jump[k] = 0 /\ ends[k] = 0
BY ReachedInside DEF Added

LEMMA PrepareIInv == IInv /\ Prepare => IInv'
<1> SUFFICES ASSUME IInv, Prepare PROVE IInv'
  OBVIOUS
<1>1. /\ asked <= Len(paths) /\ pattern <= Len(patterns)
      /\ next' = {} /\ walked' = 0 /\ phase' = "walk"
      /\ UNCHANGED <<patterns, paths, asked, pattern, allowed, defaultAllowed, verdicts>>
  BY DEF Prepare
<1>2. /\ Subject \in Seq(Characters) /\ Len(Subject) \in Nat
      /\ Len(Subject) + 1 <= Width /\ Width \in Nat /\ Indexes = 0..(Width - 1)
      /\ 0..Len(Subject) \subseteq Indexes
  BY <1>1, SubjectIs
<1>3. /\ Width' = Width /\ Indexes' = Indexes
      /\ patterns' \in Seq(Seq(Characters)) /\ paths' \in Seq(Seq(Characters))
      /\ defaultAllowed' \in BOOLEAN
      /\ \A n \in DOMAIN patterns' : Len(Text(patterns'[n])) \in Indexes'
  BY <1>1, ListsStay DEF IInv
<1>4. Subject' = Subject /\ Path' = Path
  BY <1>1 DEF Subject, Path
<1>5. braceEnds' \in [Indexes -> 0..Width]
  <2>1. braceEnds' = [k \in Indexes |-> IF k < Len(Subject) THEN BraceEnd(Subject, k) ELSE 0]
    BY DEF Prepare
  <2>2. ASSUME NEW k \in Indexes
        PROVE  (IF k < Len(Subject) THEN BraceEnd(Subject, k) ELSE 0) \in 0..Width
    <3>1. CASE k < Len(Subject)
      <4>1. k \in 0..(Len(Subject) - 1)
        BY <1>2, <3>1
      <4>2. BraceEnd(Subject, k) \in 0..Len(Subject)
        BY <1>2, <4>1, BraceEndIs
      <4> QED  BY <1>2, <3>1, <4>2
    <3>2. CASE ~(k < Len(Subject))
      BY <1>2, <3>2
    <3> QED  BY <3>1, <3>2
  <2> QED  BY <2>1, <2>2
<1>6. /\ jumps' \in [Indexes -> 0..Width]
      /\ \A k \in Indexes : jumps'[k] = 0 \/ jumps'[k] > k
  <2> DEFINE jump(k) == IF k < Len(Subject) THEN Jump(Subject, braceEnds', k) ELSE 0
  <2>1. jumps' = [k \in Indexes |-> jump(k)]
    BY DEF Prepare
  <2>2. ASSUME NEW k \in Indexes PROVE jump(k) \in 0..Width /\ (jump(k) = 0 \/ jump(k) > k)
    <3>1. CASE k < Len(Subject)
      <4>1. /\ Jump(Subject, braceEnds', k) \in 0..Width
            /\ Jump(Subject, braceEnds', k) = 0 \/ Jump(Subject, braceEnds', k) > k
        BY <1>2, <1>5, JumpIs
      <4> QED  BY <3>1, <4>1
    <3>2. CASE ~(k < Len(Subject))
      BY <1>2, <3>2
    <3> QED  BY <3>1, <3>2
  <2> HIDE DEF jump
  <2> QED  BY <2>1, <2>2
<1>7. /\ current' \subseteq 0..Len(Subject)
      /\ \A k \in current' : braceEnds'[k] = 0 /\ jumps'[k] = 0
  <2>1. current' = Added(Subject, braceEnds', jumps', {0})
    BY DEF Prepare
  <2> QED  BY <1>2, <2>1, AddedInside
<1>8. TypeOK'
  BY <1>1, <1>2, <1>3, <1>5, <1>6, <1>7 DEF IInv, TypeOK
<1>9. StatesInsidePattern' /\ JumpsLeadOn'
  BY <1>1, <1>3, <1>4, <1>6, <1>7 DEF StatesInsidePattern, JumpsLeadOn
<1>10. WalkInHand'
  <2>1. Path \in Seq(Characters)
    BY <1>1 DEF Path, IInv, TypeOK
  <2>2. 0 <= Len(Path)
    BY <2>1
  <2> QED  BY <1>1, <1>4, <2>2 DEF WalkInHand
<1> QED  BY <1>8, <1>9, <1>10 DEF IInv

LEMMA ConsumeIInv == IInv /\ Consume => IInv'
<1> SUFFICES ASSUME IInv, Consume PROVE IInv'
  OBVIOUS
<1>1. /\ phase = "walk" /\ phase' = "walk" /\ next' = current /\ walked' = walked + 1
      /\ walked < Len(Path)
      /\ UNCHANGED <<patterns, paths, asked, pattern, braceEnds, jumps, allowed,
                     defaultAllowed, verdicts>>
  BY DEF Consume
<1>2. /\ asked <= Len(paths) /\ pattern <= Len(patterns)
      /\ current \subseteq 0..Len(Subject)
      /\ \A k \in current : braceEnds[k] = 0 /\ jumps[k] = 0
  BY <1>1 DEF IInv, WalkInHand, StatesInsidePattern
<1>3. Subject \in Seq(Characters) /\ Len(Subject) \in Nat /\ 0..Len(Subject) \subseteq Indexes
  BY <1>2, SubjectIs
<1>4. /\ Width' = Width /\ Indexes' = Indexes
      /\ patterns' \in Seq(Seq(Characters)) /\ paths' \in Seq(Seq(Characters))
      /\ defaultAllowed' \in BOOLEAN
      /\ \A n \in DOMAIN patterns' : Len(Text(patterns'[n])) \in Indexes'
  BY <1>1, ListsStay DEF IInv
<1>5. Subject' = Subject /\ Path' = Path
  BY <1>1 DEF Subject, Path
<1> DEFINE entered == UNION {Entered(Subject, k, Path[walked + 1]) : k \in current}
<1>6. current' = Added(Subject, braceEnds, jumps, entered) \cup Staying(Subject, current)
  BY DEF Consume
<1> HIDE DEF entered
<1>7. Staying(Subject, current) \subseteq current
  BY DEF Staying
<1>8. /\ current' \subseteq 0..Len(Subject)
      /\ \A k \in current' : braceEnds[k] = 0 /\ jumps[k] = 0
  BY <1>2, <1>3, <1>6, <1>7, AddedInside
<1>9. TypeOK'
  <2>1. walked' \in Nat
    BY <1>1 DEF IInv, TypeOK
  <2> QED  BY <1>1, <1>2, <1>3, <1>4, <1>8, <2>1 DEF IInv, TypeOK
<1>10. StatesInsidePattern' /\ JumpsLeadOn'
  BY <1>1, <1>2, <1>4, <1>5, <1>8 DEF IInv, StatesInsidePattern, JumpsLeadOn
<1>11. WalkInHand'
  <2>1. Path \in Seq(Characters) /\ walked \in Nat
    BY <1>2 DEF Path, IInv, TypeOK
  <2>2. walked + 1 <= Len(Path)
    BY <1>1, <2>1
  <2> QED  BY <1>1, <1>2, <1>5, <2>2 DEF WalkInHand
<1> QED  BY <1>9, <1>10, <1>11 DEF IInv

\* Between two walks the arrays are left as they are.
LEMMA IdleIInv == IInv /\ (Decide \/ Return \/ Finish \/ UNCHANGED vars) => IInv'
<1> SUFFICES ASSUME IInv, Decide \/ Return \/ Finish \/ UNCHANGED vars PROVE IInv'
  OBVIOUS
<1>1. UNCHANGED <<patterns, paths, walked, current, next, braceEnds, jumps, defaultAllowed>>
  BY DEF Decide, Return, Finish, vars
<1>2. /\ Width' = Width /\ Indexes' = Indexes
      /\ patterns' \in Seq(Seq(Characters)) /\ paths' \in Seq(Seq(Characters))
      /\ defaultAllowed' \in BOOLEAN
      /\ \A n \in DOMAIN patterns' : Len(Text(patterns'[n])) \in Indexes'
  BY <1>1, ListsStay DEF IInv
<1>3. JumpsLeadOn'
  BY <1>1, <1>2 DEF IInv, JumpsLeadOn
<1>4. CASE Decide
  <2>1. pattern <= Len(patterns) /\ pattern' = pattern + 1 /\ phase' = "prepare"
        /\ UNCHANGED <<asked, verdicts>>
    BY <1>4 DEF Decide, IInv, WalkInHand
  <2>2. pattern' \in 1..(Len(patterns') + 1)
    BY <1>1, <2>1 DEF IInv, TypeOK
  <2>3. allowed' \in BOOLEAN
    <3>1. Negated(patterns[pattern]) \in BOOLEAN /\ allowed \in BOOLEAN
      BY DEF Negated, IInv, TypeOK
    <3>2. allowed' = (IF Len(Subject) \in current THEN ~Negated(patterns[pattern]) ELSE allowed)
      BY <1>4 DEF Decide
    <3> HIDE DEF Negated
    <3> QED  BY <3>1, <3>2, Zenon
  <2>4. TypeOK'
    BY <1>1, <1>2, <2>1, <2>2, <2>3 DEF IInv, TypeOK
  <2> QED  BY <1>3, <2>1, <2>4 DEF IInv, StatesInsidePattern, WalkInHand
<1>5. CASE Return
  <2>1. /\ asked <= Len(paths) /\ asked' = asked + 1 /\ pattern' = 1 /\ phase' = "prepare"
        /\ allowed' = defaultAllowed /\ verdicts' = Append(verdicts, allowed)
    BY <1>5 DEF Return
  <2>2. asked' \in 1..(Len(paths') + 1) /\ pattern' \in 1..(Len(patterns') + 1)
    BY <1>1, <2>1 DEF IInv, TypeOK
  <2>3. verdicts' \in Seq(BOOLEAN) /\ allowed' \in BOOLEAN
    BY <2>1 DEF IInv, TypeOK
  <2>4. TypeOK'
    BY <1>1, <1>2, <2>1, <2>2, <2>3 DEF IInv, TypeOK
  <2> QED  BY <1>3, <2>1, <2>4 DEF IInv, StatesInsidePattern, WalkInHand
<1>6. CASE Finish
  <2>1. phase' = "done" /\ UNCHANGED <<asked, pattern, allowed, verdicts>>
    BY <1>6 DEF Finish
  <2>2. TypeOK'
    BY <1>1, <1>2, <2>1 DEF IInv, TypeOK
  <2> QED  BY <1>3, <2>1, <2>2 DEF IInv, StatesInsidePattern, WalkInHand
<1>7. CASE UNCHANGED vars
  <2>1. UNCHANGED <<asked, pattern, phase, allowed, verdicts>>
    BY <1>7 DEF vars
  <2>2. TypeOK'
    BY <1>1, <1>2, <2>1 DEF IInv, TypeOK
  <2>3. Subject' = Subject /\ Path' = Path
    BY <1>1, <2>1 DEF Subject, Path
  <2> QED  BY <1>1, <1>3, <2>1, <2>2, <2>3 DEF IInv, StatesInsidePattern, WalkInHand
<1> QED  BY <1>4, <1>5, <1>6, <1>7

\* The inductive invariant of a matcher, whatever it is asked (glob.c).
THEOREM GlobInvariant == Spec => []IInv
<1>1. IInv /\ [Next]_vars => IInv'
  BY PrepareIInv, ConsumeIInv, IdleIInv DEF Next, Finished
<1> QED  BY InitIInv, <1>1, PTL DEF Spec

\* The scratch arrays, sized once for the longest pattern, hold every index that a
\* walk over any pattern of the list touches (glob.c find_pattern_width, add_state).
THEOREM ArraysWideEnough == Spec => []TypeOK
<1>1. IInv => TypeOK
  BY DEF IInv
<1> QED  BY GlobInvariant, <1>1, PTL

\* No state of another pattern or of the path before is left over in a walk, and
\* none lies on a brace or a comma (glob.c prepare_pattern, consume_path_character).
THEOREM StatesBelong == Spec => []StatesInsidePattern
<1>1. IInv => StatesInsidePattern
  BY DEF IInv
<1> QED  BY GlobInvariant, <1>1, PTL

--------------------------------------------------------------------------------
(* Verdicts do not depend on what the arrays held before *)

\* Only the part of the arrays that belongs to the pattern is looked at.
LEMMA AddedAgrees ==
  ASSUME NEW text \in Seq(Characters), NEW from,
         NEW ends, NEW jump, NEW otherEnds, NEW otherJump,
         \A k \in 0..Len(text) : ends[k] = otherEnds[k] /\ jump[k] = otherJump[k]
  PROVE  Added(text, ends, jump, from) = Added(text, otherEnds, otherJump, from)
<1> DEFINE rounds == Rounds(text, ends, jump, from)
           others == Rounds(text, otherEnds, otherJump, from)
           equal == {n \in Nat : n <= Len(text) =>
                       rounds[n] = others[n] /\ rounds[n] \subseteq 0..Len(text)}
<1>1. /\ rounds[0] = from \cap 0..Len(text)
      /\ \A n \in 1..Len(text) : rounds[n] = Followed(text, ends, jump, rounds[n - 1])
  BY RoundsAre
<1>2. /\ others[0] = from \cap 0..Len(text)
      /\ \A n \in 1..Len(text) : others[n] = Followed(text, otherEnds, otherJump, others[n - 1])
  BY RoundsAre
<1>3. /\ Reached(text, ends, jump, from) = rounds[Len(text)]
      /\ Reached(text, otherEnds, otherJump, from) = others[Len(text)]
  BY DEF Reached
<1> HIDE DEF rounds, others
<1>4. \A k \in 0..Len(text) :
        Followers(text, ends, jump, k) = Followers(text, otherEnds, otherJump, k)
  BY DEF Followers
<1>5. ASSUME NEW states, states \subseteq 0..Len(text)
      PROVE  Followed(text, ends, jump, states) = Followed(text, otherEnds, otherJump, states)
  <2>1. {Followers(text, ends, jump, k) : k \in states}
          = {Followers(text, otherEnds, otherJump, k) : k \in states}
    BY <1>4, <1>5
  <2> QED  BY <2>1 DEF Followed
<1>6. 0 \in equal
  BY <1>1, <1>2
<1>7. ASSUME NEW n \in Nat, n \in equal PROVE n + 1 \in equal
  <2>1. SUFFICES ASSUME n + 1 <= Len(text)
                 PROVE  rounds[n + 1] = others[n + 1] /\ rounds[n + 1] \subseteq 0..Len(text)
    OBVIOUS
  <2>2. n + 1 \in 1..Len(text) /\ (n + 1) - 1 = n /\ n <= Len(text)
    BY <2>1
  <2>3. rounds[n] = others[n] /\ rounds[n] \subseteq 0..Len(text)
    BY <1>7, <2>2
  <2>4. rounds[n + 1] = Followed(text, ends, jump, rounds[n])
        /\ others[n + 1] = Followed(text, otherEnds, otherJump, others[n])
    BY <1>1, <1>2, <2>2
  <2>5. rounds[n + 1] = others[n + 1]
    BY <1>5, <2>3, <2>4
  <2> DEFINE beyond == UNION {Followers(text, ends, jump, k) : k \in rounds[n]}
  <2>6. rounds[n + 1] = rounds[n] \cup (beyond \cap 0..Len(text))
    BY <2>4 DEF Followed
  <2> HIDE DEF beyond
  <2> QED  BY <2>3, <2>5, <2>6
<1>8. Nat \subseteq equal
  <2> HIDE DEF equal
  <2> QED  BY <1>6, <1>7, NatSetInduction
<1>9. rounds[Len(text)] = others[Len(text)] /\ rounds[Len(text)] \subseteq 0..Len(text)
  <2>1. Len(text) \in Nat
    OBVIOUS
  <2> QED  BY <1>8, <2>1
<1> QED  BY <1>3, <1>9 DEF Added

\* The recursion of Walk has a solution.
LEMMA WalkIs ==
  ASSUME NEW text, NEW path \in Seq(Characters)
  PROVE  /\ Walk(text, path)[0] = Opened(text)
         /\ \A n \in 1..Len(path) :
              Walk(text, path)[n] = Stepped(text, Walk(text, path)[n - 1], path[n])
<1> DEFINE Step(states, n) == Stepped(text, states, path[n])
           first == Opened(text)
           Solves(d, m) == d = [n \in 0..m |-> IF n = 0 THEN first ELSE Step(d[n - 1], n)]
           solved == {m \in Nat : \E d : Solves(d, m)}
<1> HIDE DEF first, Step
<1>1. 0 \in solved
  <2>1. Solves([n \in 0..0 |-> first], 0)
    OBVIOUS
  <2> QED  BY <2>1
<1>2. ASSUME NEW m \in Nat, m \in solved PROVE m + 1 \in solved
  <2>1. PICK d : Solves(d, m)
    BY <1>2
  <2> DEFINE e == [n \in 0..(m + 1) |-> IF n = 0 THEN first ELSE Step(d[n - 1], n)]
  <2>2. \A n \in 0..m : d[n] = IF n = 0 THEN first ELSE Step(d[n - 1], n)
    BY <2>1
  <2>3. \A n \in 0..(m + 1) : e[n] = IF n = 0 THEN first ELSE Step(d[n - 1], n)
    OBVIOUS
  <2>4. e = [n \in 0..(m + 1) |-> e[n]]
    OBVIOUS
  <2> HIDE DEF e
  <2>5. \A n \in 0..m : e[n] = d[n]
    BY <2>2, <2>3
  <2>6. ASSUME NEW n \in 0..(m + 1) PROVE e[n] = IF n = 0 THEN first ELSE Step(e[n - 1], n)
    <3>1. CASE n = 0
      BY <2>3, <3>1
    <3>2. CASE n # 0
      <4>1. n - 1 \in 0..m
        BY <3>2
      <4> QED  BY <2>3, <2>5, <3>2, <4>1
    <3> QED  BY <3>1, <3>2
  <2>7. Solves(e, m + 1)
    BY <2>4, <2>6
  <2> HIDE DEF Solves
  <2> QED  BY <2>7
<1>3. \E d : Solves(d, Len(path))
  <2> HIDE DEF solved
  <2>1. Nat \subseteq solved
    BY <1>1, <1>2, NatSetInduction
  <2>2. Len(path) \in solved
    BY <2>1
  <2> QED  BY <2>2 DEF solved
<1> DEFINE it == Walk(text, path)
<1>4. it = CHOOSE d : Solves(d, Len(path))
  BY DEF Walk, first, Step
<1> HIDE DEF it
<1>5. it = [n \in 0..Len(path) |-> IF n = 0 THEN first ELSE Step(it[n - 1], n)]
  BY <1>3, <1>4
<1>6. \A n \in 0..Len(path) : it[n] = IF n = 0 THEN first ELSE Step(it[n - 1], n)
  BY <1>5
<1>7. Len(path) \in Nat
  OBVIOUS
<1>8. it[0] = first /\ \A n \in 1..Len(path) : it[n] = Step(it[n - 1], n)
  BY <1>6, <1>7
<1> QED  BY <1>8 DEF it, first, Step

\* What a group marks does not depend on the size of the arrays.
LEMMA JumpAgrees ==
  ASSUME NEW text, NEW k \in Nat, NEW ends, NEW otherEnds,
         \A open \in 0..(k - 1) : ends[open] = otherEnds[open]
  PROVE  Jump(text, ends, k) = Jump(text, otherEnds, k)
<1> DEFINE Groups(e) == {open \in 0..(k - 1) :
                           /\ e[open] > k
                           /\ k \in Commas(text, open, e[open]) \cup {e[open] - 1}}
<1>1. Groups(ends) = Groups(otherEnds)
  OBVIOUS
<1>2. /\ Jump(text, ends, k) = IF Groups(ends) = {} THEN 0 ELSE ends[Max(Groups(ends))]
      /\ Jump(text, otherEnds, k)
           = IF Groups(otherEnds) = {} THEN 0 ELSE otherEnds[Max(Groups(otherEnds))]
  BY DEF Jump
<1>3. Groups(ends) \subseteq 0..(k - 1)
  OBVIOUS
<1> HIDE DEF Groups
<1>4. CASE Groups(ends) # {}
  <2>1. Groups(ends) \in SUBSET Nat /\ \A open \in Groups(ends) : open <= k
    BY <1>3
  <2>2. Max(Groups(ends)) \in Groups(ends)
    BY <1>4, <2>1, GreatestIs
  <2>3. Max(Groups(ends)) \in 0..(k - 1)
    BY <1>3, <2>2
  <2> QED  BY <1>1, <1>2, <1>4, <2>3
<1> QED  BY <1>1, <1>2, <1>4

\* The last match decides: one more pattern changes the decision when it matches.
LEMMA DecidedStep ==
  ASSUME NEW list, NEW n \in Nat \ {0}, NEW path, NEW byDefault
  PROVE  Decided(list, n, path, byDefault) =
           IF Accepts(Text(list[n]), path) THEN ~Negated(list[n])
           ELSE Decided(list, n - 1, path, byDefault)
<1> DEFINE Matching(m) == {k \in 1..m : Accepts(Text(list[k]), path)}
<1>1. \A m : Decided(list, m, path, byDefault) =
               IF Matching(m) = {} THEN byDefault ELSE ~Negated(list[Max(Matching(m))])
  BY DEF Decided
<1>2. Matching(n) = IF Accepts(Text(list[n]), path) THEN Matching(n - 1) \cup {n}
                    ELSE Matching(n - 1)
  OBVIOUS
<1>3. Matching(n) \subseteq 1..n
  OBVIOUS
<1> HIDE DEF Matching
<1>4. CASE Accepts(Text(list[n]), path)
  <2>1. n \in Matching(n)
    BY <1>2, <1>4
  <2>2. Matching(n) \in SUBSET Nat /\ \A k \in Matching(n) : k <= n
    BY <1>3
  <2>3. Max(Matching(n)) \in Matching(n) /\ n <= Max(Matching(n))
    BY <2>1, <2>2, GreatestIs
  <2>4. PICK greatest \in 1..n : greatest = Max(Matching(n))
    BY <1>3, <2>3
  <2>5. Max(Matching(n)) = n
    BY <2>3, <2>4
  <2> QED  BY <1>1, <1>4, <2>1, <2>5
<1>5. CASE ~Accepts(Text(list[n]), path)
  <2>1. Matching(n) = Matching(n - 1)
    BY <1>2, <1>5
  <2> QED  BY <1>1, <1>5, <2>1
<1> QED  BY <1>4, <1>5

\* No pattern yet, so the default.
LEMMA DecidedFirst ==
  ASSUME NEW list, NEW path, NEW byDefault
  PROVE  Decided(list, 0, path, byDefault) = byDefault
BY DEF Decided

LEMMA InitFresh == Init => FreshSoFar
<1> SUFFICES ASSUME Init PROVE FreshSoFar
  OBVIOUS
<1>1. /\ phase = "prepare" /\ asked = 1 /\ pattern = 1 /\ verdicts = <<>>
      /\ allowed = defaultAllowed
  BY Zenon DEF Init
<1>2. DecidedSoFar
  <2>1. pattern - 1 = 0
    BY <1>1
  <2> QED  BY <1>1, <2>1, DecidedFirst, Zenon DEF DecidedSoFar
<1>3. Len(verdicts) = asked - 1 /\ VerdictsAreFresh
  BY <1>1 DEF VerdictsAreFresh
<1> QED
  BY <1>1, <1>2, <1>3 DEF FreshSoFar, ArraysInHand, WalkSoFar

\* What the steps on one path leave as it is.
LEMMA VerdictsStay ==
  ASSUME FreshSoFar, UNCHANGED <<patterns, paths, defaultAllowed, asked, verdicts>>
  PROVE  Len(verdicts') = asked' - 1 /\ VerdictsAreFresh'
BY DEF FreshSoFar, VerdictsAreFresh

LEMMA PrepareFresh == IInv /\ FreshSoFar /\ Prepare => FreshSoFar'
<1> SUFFICES ASSUME IInv, FreshSoFar, Prepare PROVE FreshSoFar'
  OBVIOUS
<1>1. /\ asked <= Len(paths) /\ pattern <= Len(patterns)
      /\ walked' = 0 /\ phase' = "walk"
      /\ UNCHANGED <<patterns, paths, asked, pattern, allowed, defaultAllowed, verdicts>>
  BY DEF Prepare
<1>2. /\ Subject \in Seq(Characters) /\ Len(Subject) \in Nat /\ 0..Len(Subject) \subseteq Indexes
  BY <1>1, SubjectIs
<1>3. Subject' = Subject /\ Path' = Path
  BY <1>1 DEF Subject, Path
<1>4. \A k \in 0..Len(Subject) : braceEnds'[k] = EndsOf(Subject)[k]
  BY <1>2 DEF Prepare, EndsOf
<1>5. ASSUME NEW k \in 0..Len(Subject) PROVE jumps'[k] = JumpsOf(Subject)[k]
  <2>1. jumps'[k] = IF k < Len(Subject) THEN Jump(Subject, braceEnds', k) ELSE 0
    BY <1>2 DEF Prepare
  <2>2. JumpsOf(Subject)[k] = IF k < Len(Subject) THEN Jump(Subject, EndsOf(Subject), k) ELSE 0
    BY DEF JumpsOf
  <2>3. Jump(Subject, braceEnds', k) = Jump(Subject, EndsOf(Subject), k)
    <3>1. \A open \in 0..(k - 1) : braceEnds'[open] = EndsOf(Subject)[open]
      BY <1>2, <1>4
    <3> QED  BY <3>1, JumpAgrees
  <2> QED  BY <2>1, <2>2, <2>3
<1>6. ArraysInHand'
  BY <1>3, <1>4, <1>5 DEF ArraysInHand
<1>7. WalkSoFar'
  <2>1. current' = Added(Subject, braceEnds', jumps', {0})
    BY DEF Prepare
  <2>2. current' = Opened(Subject)
    BY <1>2, <1>4, <1>5, <2>1, AddedAgrees DEF Opened
  <2>3. Path \in Seq(Characters)
    BY <1>1 DEF Path, IInv, TypeOK
  <2>4. Walk(Subject, Path)[0] = Opened(Subject)
    BY <2>3, WalkIs
  <2> QED  BY <1>1, <1>3, <2>2, <2>4 DEF WalkSoFar
<1>8. DecidedSoFar'
  BY <1>1, <1>3, Zenon DEF FreshSoFar, DecidedSoFar
<1> QED
  BY <1>1, <1>6, <1>7, <1>8, VerdictsStay DEF FreshSoFar

LEMMA ConsumeFresh == IInv /\ FreshSoFar /\ Consume => FreshSoFar'
<1> SUFFICES ASSUME IInv, FreshSoFar, Consume PROVE FreshSoFar'
  OBVIOUS
<1>1. /\ phase = "walk" /\ walked < Len(Path) /\ walked' = walked + 1
      /\ UNCHANGED <<patterns, paths, asked, pattern, phase, braceEnds, jumps, allowed,
                     defaultAllowed, verdicts>>
  BY DEF Consume
<1>2. asked <= Len(paths) /\ pattern <= Len(patterns)
  BY <1>1 DEF IInv, WalkInHand
<1>3. Subject \in Seq(Characters) /\ Len(Subject) \in Nat
  BY <1>2, SubjectIs
<1>4. Subject' = Subject /\ Path' = Path
  BY <1>1 DEF Subject, Path
<1>5. ArraysInHand'
  BY <1>1, <1>4 DEF FreshSoFar, ArraysInHand
<1>6. WalkSoFar'
  <2> DEFINE entered == UNION {Entered(Subject, k, Path[walked + 1]) : k \in current}
  <2>1. current' = Added(Subject, braceEnds, jumps, entered) \cup Staying(Subject, current)
    BY DEF Consume
  <2>2. Stepped(Subject, current, Path[walked + 1])
          = Added(Subject, EndsOf(Subject), JumpsOf(Subject), entered)
              \cup Staying(Subject, current)
    BY DEF Stepped
  <2> HIDE DEF entered
  <2>3. \A k \in 0..Len(Subject) :
          braceEnds[k] = EndsOf(Subject)[k] /\ jumps[k] = JumpsOf(Subject)[k]
    BY <1>1 DEF FreshSoFar, ArraysInHand
  <2>4. current' = Stepped(Subject, current, Path[walked + 1])
    BY <1>3, <2>1, <2>2, <2>3, AddedAgrees
  <2>5. Path \in Seq(Characters) /\ walked \in Nat
    BY <1>2 DEF Path, IInv, TypeOK
  <2>6. walked + 1 \in 1..Len(Path) /\ (walked + 1) - 1 = walked
    BY <1>1, <2>5
  <2>7. Walk(Subject, Path)[walked + 1]
          = Stepped(Subject, Walk(Subject, Path)[walked], Path[walked + 1])
    BY <2>5, <2>6, WalkIs
  <2>8. current = Walk(Subject, Path)[walked]
    BY <1>1 DEF FreshSoFar, WalkSoFar
  <2> QED  BY <1>1, <1>4, <2>4, <2>7, <2>8 DEF WalkSoFar
<1>7. DecidedSoFar'
  BY <1>1, <1>4, Zenon DEF FreshSoFar, DecidedSoFar
<1> QED
  BY <1>1, <1>5, <1>6, <1>7, VerdictsStay DEF FreshSoFar

LEMMA DecideFresh == IInv /\ FreshSoFar /\ Decide => FreshSoFar'
<1> SUFFICES ASSUME IInv, FreshSoFar, Decide PROVE FreshSoFar'
  OBVIOUS
<1>1. /\ phase = "walk" /\ walked = Len(Path) /\ pattern' = pattern + 1 /\ phase' = "prepare"
      /\ allowed' = IF Len(Subject) \in current THEN ~Negated(patterns[pattern]) ELSE allowed
      /\ UNCHANGED <<patterns, paths, asked, defaultAllowed, verdicts>>
  BY Zenon DEF Decide
<1>2. asked <= Len(paths) /\ pattern \in Nat \ {0}
  BY <1>1 DEF IInv, WalkInHand, TypeOK
<1>3. Len(Subject) \in current <=> Accepts(Text(patterns[pattern]), Path)
  BY <1>1 DEF FreshSoFar, WalkSoFar, Accepts, Subject
<1>4. DecidedSoFar'
  <2>1. allowed = Decided(patterns, pattern - 1, Path, defaultAllowed)
    BY <1>2, Zenon DEF FreshSoFar, DecidedSoFar
  <2>2. Decided(patterns, pattern, Path, defaultAllowed)
          = IF Accepts(Text(patterns[pattern]), Path) THEN ~Negated(patterns[pattern])
            ELSE Decided(patterns, pattern - 1, Path, defaultAllowed)
    BY <1>2, DecidedStep
  <2>3. allowed' = Decided(patterns, pattern, Path, defaultAllowed)
    BY <1>1, <1>3, <2>1, <2>2, Zenon
  <2>4. pattern' - 1 = pattern /\ Path' = Path
    BY <1>1, <1>2 DEF Path
  <2> QED  BY <1>1, <2>3, <2>4, Zenon DEF DecidedSoFar
<1>5. ArraysInHand' /\ WalkSoFar'
  BY <1>1 DEF ArraysInHand, WalkSoFar
<1> QED
  BY <1>1, <1>4, <1>5, VerdictsStay, Zenon DEF FreshSoFar

LEMMA ReturnFresh == IInv /\ FreshSoFar /\ Return => FreshSoFar'
<1> SUFFICES ASSUME IInv, FreshSoFar, Return PROVE FreshSoFar'
  OBVIOUS
<1>1. /\ phase = "prepare" /\ asked <= Len(paths) /\ pattern > Len(patterns)
      /\ verdicts' = Append(verdicts, allowed)
      /\ allowed' = defaultAllowed /\ asked' = asked + 1 /\ pattern' = 1
      /\ UNCHANGED <<patterns, paths, phase, defaultAllowed>>
  BY Zenon DEF Return
<1>2. /\ pattern \in Nat /\ Len(patterns) \in Nat /\ pattern - 1 = Len(patterns)
      /\ asked \in Nat \ {0} /\ Len(verdicts) = asked - 1
      /\ verdicts \in Seq(BOOLEAN) /\ allowed \in BOOLEAN
  <2>1. /\ pattern \in 1..(Len(patterns) + 1) /\ Len(patterns) \in Nat
        /\ asked \in 1..(Len(paths) + 1) /\ Len(paths) \in Nat
    BY DEF IInv, TypeOK
  <2>2. Len(verdicts) = asked - 1 /\ verdicts \in Seq(BOOLEAN) /\ allowed \in BOOLEAN
    BY Zenon DEF FreshSoFar, IInv, TypeOK
  <2> QED  BY <1>1, <2>1, <2>2
<1>3. allowed = Decided(patterns, Len(patterns), paths[asked], defaultAllowed)
  BY <1>1, <1>2, Zenon DEF FreshSoFar, DecidedSoFar, Path
<1>4. /\ Len(verdicts') = asked
      /\ \A n \in DOMAIN verdicts' : n \in DOMAIN verdicts \/ n = asked
      /\ \A n \in DOMAIN verdicts : verdicts'[n] = verdicts[n]
      /\ verdicts'[asked] = allowed
  BY <1>1, <1>2
<1>5. VerdictsAreFresh'
  <2>1. \A n \in DOMAIN verdicts :
          verdicts[n] = Decided(patterns, Len(patterns), paths[n], defaultAllowed)
    BY Zenon DEF FreshSoFar, VerdictsAreFresh
  <2>2. \A n \in DOMAIN verdicts' :
          verdicts'[n] = Decided(patterns, Len(patterns), paths[n], defaultAllowed)
    BY <1>3, <1>4, <2>1, Zenon
  <2> QED  BY <1>1, <2>2, Zenon DEF VerdictsAreFresh
<1>6. DecidedSoFar'
  <2>1. pattern' - 1 = 0
    BY <1>1
  <2> QED  BY <1>1, <2>1, DecidedFirst, Zenon DEF DecidedSoFar
<1>7. Len(verdicts') = asked' - 1
  BY <1>1, <1>2, <1>4
<1>8. ArraysInHand' /\ WalkSoFar'
  BY <1>1 DEF ArraysInHand, WalkSoFar
<1> QED
  BY <1>5, <1>6, <1>7, <1>8, Zenon DEF FreshSoFar

LEMMA RestFresh == FreshSoFar /\ (Finish \/ UNCHANGED vars) => FreshSoFar'
<1> SUFFICES ASSUME FreshSoFar, Finish \/ UNCHANGED vars PROVE FreshSoFar'
  OBVIOUS
<1>1. /\ UNCHANGED <<patterns, paths, asked, pattern, walked, current, braceEnds, jumps,
                     allowed, defaultAllowed, verdicts>>
      /\ phase' = "done" \/ phase' = phase
  BY Zenon DEF Finish, vars
<1>2. Subject' = Subject /\ Path' = Path
  BY <1>1, Zenon DEF Subject, Path
<1>3. ArraysInHand'
  BY <1>1, <1>2 DEF FreshSoFar, ArraysInHand
<1>4. WalkSoFar'
  BY <1>1, <1>2 DEF FreshSoFar, WalkSoFar
<1>5. DecidedSoFar'
  BY <1>1, <1>2, Zenon DEF FreshSoFar, DecidedSoFar
<1> QED
  BY <1>1, <1>3, <1>4, <1>5, VerdictsStay, Zenon DEF FreshSoFar

\* The loop invariant of fs_lint_glob_matcher_allows and of the walk inside it.
THEOREM FreshInvariant == Spec => []FreshSoFar
<1>1. IInv /\ FreshSoFar /\ [Next]_vars => FreshSoFar'
  BY PrepareFresh, ConsumeFresh, DecideFresh, ReturnFresh, RestFresh DEF Next, Finished
<1> QED  BY InitFresh, <1>1, GlobInvariant, PTL DEF Spec

\* Whatever patterns and paths the scratch arrays were used for before, a verdict is
\* that of the last pattern of the list that accepts the path from the start, or the
\* default (glob.c fs_lint_glob_matcher_allows, matches_pattern).
THEOREM Fresh == Spec => []VerdictsAreFresh
<1>1. FreshSoFar => VerdictsAreFresh
  BY DEF FreshSoFar
<1> QED  BY FreshInvariant, <1>1, PTL

--------------------------------------------------------------------------------
(* The states of a walk are what the pattern describes *)

\* Arrays a pattern can be walked with: jumps lead further on, and its end is no brace.
Fits(text, ends, jump) ==
  /\ \A k \in 0..Len(text) :
       ends[k] \in Nat /\ jump[k] \in Nat /\ (jump[k] = 0 \/ jump[k] > k)
  /\ ends[Len(text)] = 0 /\ jump[Len(text)] = 0

IsToken(ends, jump, k) == jump[k] = 0 /\ ends[k] = 0

\* The star at index k, begun after `from`, allows what follows up to `to` so far.
Begun(text, path, k, from, to) ==
  \/ from = to
  \/ /\ from < to /\ At(text, k) = "*"
     /\ IsStarStar(text, k) \/ \A n \in (from + 1)..to : path[n] \notin Separators

\* The states of a walk after n characters, told by what the pattern describes.
Live(text, ends, jump, path, n) ==
  {k \in 0..Len(text) :
     /\ IsToken(ends, jump, k)
     /\ \E from \in Described(text, ends, jump, path)[k] : Begun(text, path, k, from, n)}

\* The indexes the reading can be at after n characters.
Here(text, ends, jump, path, n) ==
  {k \in 0..Len(text) : n \in Described(text, ends, jump, path)[k]}

\* The stars under way that may end at any character, and those that may not.
Stars(text, ends, jump, path, n) ==
  {k \in 0..Len(text) :
     /\ IsToken(ends, jump, k) /\ At(text, k) = "*" /\ ~IsDirectory(text, k)
     /\ \E from \in Described(text, ends, jump, path)[k] :
          from < n /\ Begun(text, path, k, from, n)}
Directories(text, ends, jump, path, n) ==
  {k \in 0..Len(text) :
     /\ IsToken(ends, jump, k) /\ IsDirectory(text, k)
     /\ \E from \in Described(text, ends, jump, path)[k] : from < n}

\* The indexes that character n of the path leads to, other than from a plain star.
Consumed(text, ends, jump, path, n) ==
  {k \in 1..Len(text) :
     \E p \in 0..(k - 1) :
       /\ IsToken(ends, jump, p) /\ (At(text, p) = "*" => IsDirectory(text, p))
       /\ k \in Turns(text, ends, jump, p)
       /\ \E from \in Described(text, ends, jump, path)[p] :
            from < n /\ n \in Ahead(text, ends, jump, p, path, from)}

\* The recursion of Described has a solution.
LEMMA DescribedIs ==
  ASSUME NEW text \in Seq(Characters), NEW ends, NEW jump, NEW path
  PROVE  LET described == Described(text, ends, jump, path)
         IN  /\ described[0] = {0}
             /\ \A k \in 1..Len(text) : described[k] =
                  UNION {UNION {Ahead(text, ends, jump, p, path, from) : from \in described[p]} :
                           p \in {p \in 0..(k - 1) : k \in Turns(text, ends, jump, p)}}
<1> DEFINE From(p, starts) == UNION {Ahead(text, ends, jump, p, path, from) : from \in starts}
           Before(k) == {p \in 0..(k - 1) : k \in Turns(text, ends, jump, p)}
           Body(d, k) == IF k = 0 THEN {0} ELSE UNION {From(p, d[p]) : p \in Before(k)}
           Solves(d, m) == d = [k \in 0..m |-> Body(d, k)]
           solved == {m \in Nat : \E d : Solves(d, m)}
<1>1. ASSUME NEW d, NEW e, NEW k \in Nat, \A p \in 0..(k - 1) : d[p] = e[p]
      PROVE  Body(d, k) = Body(e, k)
  <2>1. Before(k) \subseteq 0..(k - 1)
    OBVIOUS
  <2> HIDE DEF From, Before
  <2>2. {From(p, d[p]) : p \in Before(k)} = {From(p, e[p]) : p \in Before(k)}
    BY <1>1, <2>1
  <2> QED  BY <2>2
<1>2. \A d : Body(d, 0) = {0}
  OBVIOUS
<1> DEFINE it == Described(text, ends, jump, path)
<1>3. it = CHOOSE d : Solves(d, Len(text))
  BY DEF Described
<1>4. \A k \in 1..Len(text) : Body(it, k) = UNION {From(p, it[p]) : p \in Before(k)}
  OBVIOUS
<1> HIDE DEF Body
<1>5. 0 \in solved
  <2> DEFINE d == [k \in 0..0 |-> {0}]
  <2>1. \A k \in 0..0 : d[k] = Body(d, k)
    BY <1>2
  <2>2. d = [k \in 0..0 |-> d[k]]
    OBVIOUS
  <2> HIDE DEF d
  <2>3. Solves(d, 0)
    BY <2>1, <2>2
  <2> HIDE DEF Solves
  <2> QED  BY <2>3
<1>6. ASSUME NEW m \in Nat, m \in solved PROVE m + 1 \in solved
  <2>1. PICK d : Solves(d, m)
    BY <1>6
  <2> DEFINE e == [k \in 0..(m + 1) |-> Body(d, k)]
  <2>2. \A k \in 0..m : d[k] = Body(d, k)
    BY <2>1
  <2>3. \A k \in 0..(m + 1) : e[k] = Body(d, k)
    OBVIOUS
  <2>4. e = [k \in 0..(m + 1) |-> e[k]]
    OBVIOUS
  <2> HIDE DEF e
  <2>5. \A k \in 0..m : e[k] = d[k]
    BY <2>2, <2>3
  <2>6. ASSUME NEW k \in 0..(m + 1) PROVE e[k] = Body(e, k)
    <3>1. k \in Nat /\ \A p \in 0..(k - 1) : d[p] = e[p]
      BY <2>5
    <3>2. Body(d, k) = Body(e, k)
      BY <1>1, <3>1
    <3> QED  BY <2>3, <3>2
  <2>7. Solves(e, m + 1)
    BY <2>4, <2>6
  <2> HIDE DEF Solves
  <2> QED  BY <2>7
<1>7. \E d : Solves(d, Len(text))
  <2> HIDE DEF solved
  <2>1. Nat \subseteq solved
    BY <1>5, <1>6, NatSetInduction
  <2>2. Len(text) \in solved
    BY <2>1
  <2> QED  BY <2>2 DEF solved
<1> HIDE DEF it
<1>8. it = [k \in 0..Len(text) |-> Body(it, k)]
  BY <1>3, <1>7
<1>9. Len(text) \in Nat
  OBVIOUS
<1>10. \A k \in 0..Len(text) : it[k] = Body(it, k)
  BY <1>8
<1>11. it[0] = {0} /\ \A k \in 1..Len(text) : it[k] = Body(it, k)
  BY <1>2, <1>9, <1>10
<1> QED  BY <1>4, <1>11 DEF it

\* What the pattern describes, index after index, are beginnings of the path.
LEMMA DescribedBy ==
  ASSUME NEW text \in Seq(Characters), NEW ends, NEW jump, NEW path \in Seq(Characters)
  PROVE  LET described == Described(text, ends, jump, path)
         IN  /\ described[0] = {0}
             /\ \A k \in 0..Len(text) : described[k] \subseteq 0..Len(path)
             /\ \A k \in 1..Len(text) : \A n :
                  n \in described[k] <=>
                    \E p \in 0..(k - 1) :
                      /\ k \in Turns(text, ends, jump, p)
                      /\ \E from \in described[p] : n \in Ahead(text, ends, jump, p, path, from)
<1> DEFINE described == Described(text, ends, jump, path)
           Move(p, from) == Ahead(text, ends, jump, p, path, from)
           Before(k) == {p \in 0..(k - 1) : k \in Turns(text, ends, jump, p)}
<1>1. /\ described[0] = {0}
      /\ \A k \in 1..Len(text) : described[k] =
           UNION {UNION {Move(p, from) : from \in described[p]} : p \in Before(k)}
  BY DescribedIs
<1>2. \A p : \A from \in 0..Len(path) : Move(p, from) \subseteq 0..Len(path)
  BY DEF Ahead
<1> HIDE DEF described, Move
<1>3. ASSUME NEW k \in 1..Len(text), NEW n
      PROVE  n \in described[k] <=>
               \E p \in Before(k) : \E from \in described[p] : n \in Move(p, from)
  <2> HIDE DEF Before
  <2> QED  BY <1>1
<1> DEFINE inside == {m \in Nat :
                        \A k \in 0..Len(text) : k <= m => described[k] \subseteq 0..Len(path)}
<1>4. 0 \in inside
  <2>1. 0 \in 0..Len(path)
    OBVIOUS
  <2> QED  BY <1>1, <2>1
<1>5. ASSUME NEW m \in Nat, m \in inside PROVE m + 1 \in inside
  <2>1. SUFFICES ASSUME NEW k \in 0..Len(text), k <= m + 1 PROVE described[k] \subseteq 0..Len(path)
    OBVIOUS
  <2>2. CASE k <= m
    BY <1>5, <2>2
  <2>3. CASE k = m + 1
    <3>1. k \in 1..Len(text)
      BY <2>3
    <3>2. \A p \in Before(k) : described[p] \subseteq 0..Len(path)
      BY <1>5, <2>3
    <3> HIDE DEF Before, inside
    <3> QED  BY <1>2, <1>3, <3>1, <3>2
  <2> QED  BY <2>1, <2>2, <2>3
<1>6. Nat \subseteq inside
  <2> HIDE DEF inside
  <2> QED  BY <1>4, <1>5, NatSetInduction
<1>7. \A k \in 0..Len(text) : described[k] \subseteq 0..Len(path)
  BY <1>6
<1> QED  BY <1>1, <1>3, <1>7 DEF described, Move

\* What kind of token begins at an index.
LEMMA TokenKinds ==
  ASSUME NEW text \in Seq(Characters), NEW k
  PROVE  /\ IsDirectory(text, k) => IsStarStar(text, k)
         /\ IsStarStar(text, k) => At(text, k) = "*"
         /\ At(text, Len(text)) # "*"
BY DEF IsDirectory, IsStarStar, At

\* Where a token leads is where add_state goes, or one character on.
LEMMA TurnsAre ==
  ASSUME NEW text, NEW ends, NEW jump, NEW k
  PROVE  /\ ~IsToken(ends, jump, k) =>
              Turns(text, ends, jump, k) = Followers(text, ends, jump, k)
         /\ IsToken(ends, jump, k) /\ At(text, k) = "*" =>
              /\ Turns(text, ends, jump, k) = {AfterStar(text, k)}
              /\ Followers(text, ends, jump, k) = {AfterStar(text, k)}
         /\ IsToken(ends, jump, k) /\ At(text, k) # "*" =>
              /\ Turns(text, ends, jump, k) = {k + 1}
              /\ Followers(text, ends, jump, k) = {}
<1>1. IsDirectory(text, k) => IsStarStar(text, k)
  BY Zenon DEF IsDirectory
<1>2. IsStarStar(text, k) => At(text, k) = "*"
  BY Zenon DEF IsStarStar
<1>3. CASE jump[k] # 0
  BY <1>3, Zenon DEF IsToken, Turns, Followers
<1>4. CASE jump[k] = 0 /\ ends[k] # 0
  BY <1>4, Zenon DEF IsToken, Turns, Followers
<1>5. CASE IsToken(ends, jump, k) /\ At(text, k) = "*"
  BY <1>5, Zenon DEF IsToken, Turns, Followers, AfterStar
<1>6. CASE IsToken(ends, jump, k) /\ At(text, k) # "*"
  BY <1>1, <1>2, <1>6, Zenon DEF IsToken, Turns, Followers
<1> QED  BY <1>3, <1>4, <1>5, <1>6, Zenon DEF IsToken

\* What a token allows, kind by kind.
LEMMA AheadIs ==
  ASSUME NEW text \in Seq(Characters), NEW ends, NEW jump, NEW k, NEW path \in Seq(Characters),
         NEW from \in 0..Len(path), NEW to
  PROVE  LET ahead == to \in Ahead(text, ends, jump, k, path, from)
             plain == \A n \in (from + 1)..to : path[n] \notin Separators
         IN  /\ ~IsToken(ends, jump, k) => (ahead <=> to = from)
             /\ IsToken(ends, jump, k) =>
                  /\ ahead => to \in from..Len(path)
                  /\ IsDirectory(text, k) =>
                       (ahead <=> to \in from..Len(path) /\ (to = from \/ path[to] \in Separators))
                  /\ IsStarStar(text, k) /\ ~IsDirectory(text, k) =>
                       (ahead <=> to \in from..Len(path))
                  /\ At(text, k) = "*" /\ ~IsStarStar(text, k) =>
                       (ahead <=> to \in from..Len(path) /\ plain)
                  /\ At(text, k) = "?" =>
                       (ahead <=> to \in from..Len(path) /\ to = from + 1 /\ plain)
                  /\ At(text, k) \notin {"*", "?"} =>
                       (ahead <=> /\ to \in from..Len(path) /\ to = from + 1
                                  /\ CharactersMatch(At(text, k), path[to]))
<1> DEFINE plain == \A n \in (from + 1)..to : path[n] \notin Separators
           range == to \in from..Len(path)
<1>1. ~IsToken(ends, jump, k) => (to \in Ahead(text, ends, jump, k, path, from) <=> to = from)
  BY Zenon DEF IsToken, Ahead
<1>2. IsToken(ends, jump, k) =>
        (to \in Ahead(text, ends, jump, k, path, from)
           <=> range /\ TokenAllows(text, k, path, from, to))
  BY Zenon DEF IsToken, Ahead
<1>3. /\ IsDirectory(text, k) => IsStarStar(text, k)
      /\ IsStarStar(text, k) => At(text, k) = "*"
      /\ "*" # "?"
  BY TokenKinds
<1>4. TokenAllows(text, k, path, from, to) <=>
        IF IsDirectory(text, k) THEN to = from \/ path[to] \in Separators
        ELSE IF IsStarStar(text, k) THEN TRUE
        ELSE IF At(text, k) = "*" THEN plain
        ELSE IF At(text, k) = "?" THEN to = from + 1 /\ plain
        ELSE to = from + 1 /\ CharactersMatch(At(text, k), path[to])
  BY Zenon DEF TokenAllows
<1> HIDE DEF plain, range
<1>5. \/ IsDirectory(text, k)
      \/ IsStarStar(text, k) /\ ~IsDirectory(text, k)
      \/ At(text, k) = "*" /\ ~IsStarStar(text, k)
      \/ At(text, k) = "?"
      \/ At(text, k) \notin {"*", "?"}
  BY Zenon
<1>6. IsToken(ends, jump, k) =>
        /\ IsDirectory(text, k) =>
             (to \in Ahead(text, ends, jump, k, path, from)
                <=> range /\ (to = from \/ path[to] \in Separators))
        /\ IsStarStar(text, k) /\ ~IsDirectory(text, k) =>
             (to \in Ahead(text, ends, jump, k, path, from) <=> range)
        /\ At(text, k) = "*" /\ ~IsStarStar(text, k) =>
             (to \in Ahead(text, ends, jump, k, path, from) <=> range /\ plain)
  BY <1>2, <1>3, <1>4, Zenon
<1>7. IsToken(ends, jump, k) =>
        /\ At(text, k) = "?" =>
             (to \in Ahead(text, ends, jump, k, path, from) <=> range /\ to = from + 1 /\ plain)
        /\ At(text, k) \notin {"*", "?"} =>
             (to \in Ahead(text, ends, jump, k, path, from)
                <=> range /\ to = from + 1 /\ CharactersMatch(At(text, k), path[to]))
  BY <1>2, <1>3, <1>4, Zenon
<1> QED  BY <1>1, <1>2, <1>6, <1>7, Zenon DEF plain, range

\* What a state enters on one character, kind by kind.
LEMMA EnteredIs ==
  ASSUME NEW text \in Seq(Characters), NEW k \in 0..Len(text), NEW character
  PROVE  LET entered == Entered(text, k, character)
         IN  /\ k = Len(text) => entered = {}
             /\ IsDirectory(text, k) =>
                  entered = IF character \in Separators THEN {k + 3} ELSE {}
             /\ At(text, k) = "*" /\ ~IsDirectory(text, k) =>
                  entered = IF IsStarStar(text, k) \/ character \notin Separators THEN {k} ELSE {}
             /\ At(text, k) = "?" =>
                  entered = IF character \in Separators THEN {} ELSE {k + 1}
             /\ k # Len(text) /\ At(text, k) \notin {"*", "?"} =>
                  entered = IF CharactersMatch(At(text, k), character) THEN {k + 1} ELSE {}
<1>1. At(text, Len(text)) = "NUL" /\ "NUL" \notin {"*", "?"} /\ "*" # "?"
  BY DEF At
<1>2. IsDirectory(text, k) => At(text, k) = "*"
  BY TokenKinds
<1>3. CASE k = Len(text)
  BY <1>1, <1>2, <1>3 DEF Entered
<1>4. CASE k # Len(text) /\ At(text, k) = "*"
  <2>1. Entered(text, k, character) = EnteredFromStar(text, k, character)
    BY <1>1, <1>4 DEF Entered
  <2> QED  BY <1>1, <1>4, <2>1, Zenon DEF EnteredFromStar
<1>5. CASE k # Len(text) /\ At(text, k) = "?"
  <2>1. Entered(text, k, character) = IF character \in Separators THEN {} ELSE {k + 1}
    BY <1>1, <1>5 DEF Entered
  <2> QED  BY <1>1, <1>2, <1>5, <2>1, Zenon
<1>6. CASE k # Len(text) /\ At(text, k) \notin {"*", "?"}
  <2>1. Entered(text, k, character)
          = IF CharactersMatch(At(text, k), character) THEN {k + 1} ELSE {}
    BY <1>6 DEF Entered
  <2> QED  BY <1>2, <1>6, <2>1, Zenon
<1> QED  BY <1>3, <1>4, <1>5, <1>6, Zenon

\* add_state reaches nothing but what is closed under its calls.
LEMMA ReachedLeast ==
  ASSUME NEW text \in Seq(Characters), NEW ends, NEW jump, NEW from, NEW states,
         from \cap 0..Len(text) \subseteq states,
         \A k \in states : Followers(text, ends, jump, k) \cap 0..Len(text) \subseteq states
  PROVE  Reached(text, ends, jump, from) \subseteq states
<1> DEFINE rounds == Rounds(text, ends, jump, from)
           within == {n \in Nat : n <= Len(text) => rounds[n] \subseteq states}
<1>1. /\ rounds[0] = from \cap 0..Len(text)
      /\ \A n \in 1..Len(text) : rounds[n] = Followed(text, ends, jump, rounds[n - 1])
  BY RoundsAre
<1>2. Reached(text, ends, jump, from) = rounds[Len(text)]
  BY DEF Reached
<1> HIDE DEF rounds
<1>3. 0 \in within
  BY <1>1
<1>4. ASSUME NEW n \in Nat, n \in within PROVE n + 1 \in within
  <2>1. SUFFICES ASSUME n + 1 <= Len(text) PROVE rounds[n + 1] \subseteq states
    OBVIOUS
  <2>2. n + 1 \in 1..Len(text) /\ (n + 1) - 1 = n /\ n <= Len(text)
    BY <2>1
  <2>3. rounds[n + 1] = Followed(text, ends, jump, rounds[n]) /\ rounds[n] \subseteq states
    BY <1>1, <1>4, <2>2
  <2>4. ASSUME NEW k \in rounds[n + 1], k \notin rounds[n] PROVE k \in states
    <3>1. k \in 0..Len(text) /\ \E j \in rounds[n] : k \in Followers(text, ends, jump, j)
      BY <2>3, <2>4 DEF Followed
    <3> QED  BY <2>3, <3>1
  <2> QED  BY <2>3, <2>4
<1>5. Nat \subseteq within
  <2> HIDE DEF within
  <2> QED  BY <1>3, <1>4, NatSetInduction
<1> QED  BY <1>2, <1>5

\* add_state goes on from whatever it reaches.
LEMMA ReachedOn ==
  ASSUME NEW text \in Seq(Characters), NEW ends, NEW jump, NEW from, Fits(text, ends, jump)
  PROVE  LET reached == Reached(text, ends, jump, from)
         IN  /\ from \cap 0..Len(text) \subseteq reached /\ reached \subseteq 0..Len(text)
             /\ \A k \in reached :
                  Followers(text, ends, jump, k) \cap 0..Len(text) \subseteq reached
<1> DEFINE reached == Reached(text, ends, jump, from)
<1>1. /\ from \cap 0..Len(text) \subseteq reached
      /\ Followed(text, ends, jump, reached) = reached
  BY AddStateIsComplete DEF Fits
<1>2. reached \subseteq 0..Len(text)
  BY ReachedInside
<1> HIDE DEF reached
<1>3. \A k \in reached :
        Followers(text, ends, jump, k) \cap 0..Len(text) \subseteq Followed(text, ends, jump, reached)
  BY DEF Followed
<1> QED  BY <1>1, <1>2, <1>3 DEF reached

\* Whatever follows a state without a character is a turn of the reading there.
LEMMA FollowersTurn ==
  ASSUME NEW text \in Seq(Characters), NEW ends, NEW jump, Fits(text, ends, jump),
         NEW k \in 0..Len(text), NEW l \in 0..Len(text), l \in Followers(text, ends, jump, k)
  PROVE  /\ l \in 1..Len(text) /\ k \in 0..(l - 1) /\ l \in Turns(text, ends, jump, k)
         /\ IsToken(ends, jump, k) => At(text, k) = "*"
<1>1. l > k
  <2>1. k \in Nat /\ ends[k] \in Nat /\ jump[k] \in Nat /\ (jump[k] = 0 \/ jump[k] > k)
    BY DEF Fits
  <2> QED  BY <2>1, FollowersAhead
<1>2. l \in 1..Len(text) /\ k \in 0..(l - 1)
  BY <1>1
<1>3. l \in Turns(text, ends, jump, k) /\ (IsToken(ends, jump, k) => At(text, k) = "*")
  BY TurnsAre, Zenon
<1> QED  BY <1>2, <1>3

\* Where the reading can be and the stars under way are closed under add_state.
LEMMA StatesClosed ==
  ASSUME NEW text \in Seq(Characters), NEW ends, NEW jump, NEW path \in Seq(Characters),
         Fits(text, ends, jump), NEW n \in 0..Len(path),
         NEW k \in Here(text, ends, jump, path, n) \cup Stars(text, ends, jump, path, n)
  PROVE  Followers(text, ends, jump, k) \cap 0..Len(text) \subseteq Here(text, ends, jump, path, n)
<1> SUFFICES ASSUME NEW l \in 0..Len(text), l \in Followers(text, ends, jump, k)
             PROVE  l \in Here(text, ends, jump, path, n)
  OBVIOUS
<1> DEFINE described == Described(text, ends, jump, path)
<1>1. k \in 0..Len(text)
  BY DEF Here, Stars
<1>2. /\ l \in 1..Len(text) /\ k \in 0..(l - 1) /\ l \in Turns(text, ends, jump, k)
      /\ IsToken(ends, jump, k) => At(text, k) = "*"
  BY <1>1, FollowersTurn
<1>3. described[k] \subseteq 0..Len(path)
  BY <1>1, DescribedBy
<1>4. \E from \in described[k] : n \in Ahead(text, ends, jump, k, path, from)
  <2>1. CASE k \in Here(text, ends, jump, path, n)
    <3>1. n \in described[k] /\ n \in n..Len(path)
      BY <2>1 DEF Here
    <3>2. \A m \in (n + 1)..n : path[m] \notin Separators
      OBVIOUS
    <3>3. n \in Ahead(text, ends, jump, k, path, n)
      BY <1>2, <3>1, <3>2, AheadIs, Zenon
    <3> QED  BY <3>1, <3>3
  <2>2. CASE k \in Stars(text, ends, jump, path, n)
    <3>1. /\ IsToken(ends, jump, k) /\ At(text, k) = "*" /\ ~IsDirectory(text, k)
      BY <2>2 DEF Stars
    <3>2. PICK from \in described[k] : from < n /\ Begun(text, path, k, from, n)
      BY <2>2 DEF Stars
    <3>3. from \in 0..Len(path) /\ n \in from..Len(path) /\ from # n
      BY <1>3, <3>2
    <3>4. IsStarStar(text, k) \/ \A m \in (from + 1)..n : path[m] \notin Separators
      BY <3>2, <3>3, Zenon DEF Begun
    <3>5. n \in Ahead(text, ends, jump, k, path, from)
      BY <3>1, <3>3, <3>4, AheadIs, Zenon
    <3> QED  BY <3>5
  <2> QED  BY <2>1, <2>2
<1>5. n \in described[l]
  BY <1>2, <1>4, DescribedBy, Zenon
<1> QED  BY <1>5 DEF Here

\* What it says of a token that the reading may be further on behind it.
LEMMA AheadMeans ==
  ASSUME NEW text \in Seq(Characters), NEW ends, NEW jump, NEW k, NEW path \in Seq(Characters),
         NEW from \in 0..Len(path), NEW to, to \in Ahead(text, ends, jump, k, path, from)
  PROVE  /\ ~IsToken(ends, jump, k) => to = from
         /\ IsToken(ends, jump, k) => to \in from..Len(path)
         /\ IsToken(ends, jump, k) /\ At(text, k) = "*" /\ ~IsDirectory(text, k) =>
              IsStarStar(text, k) \/ \A i \in (from + 1)..to : path[i] \notin Separators
         /\ IsToken(ends, jump, k) /\ At(text, k) # "*" => to = from + 1
<1>1. ~IsToken(ends, jump, k) => to = from
  BY AheadIs
<1>2. IsToken(ends, jump, k) => to \in from..Len(path)
  BY AheadIs
<1>3. IsToken(ends, jump, k) /\ At(text, k) = "*" /\ ~IsDirectory(text, k) =>
        IsStarStar(text, k) \/ \A i \in (from + 1)..to : path[i] \notin Separators
  <2>1. IsToken(ends, jump, k) /\ At(text, k) = "*" /\ ~IsStarStar(text, k) =>
          \A n \in (from + 1)..to : path[n] \notin Separators
    BY AheadIs
  <2> QED  BY <2>1, Zenon
<1>4. IsToken(ends, jump, k) /\ At(text, k) # "*" => to = from + 1
  <2>1. IsToken(ends, jump, k) /\ At(text, k) = "?" => to = from + 1
    BY AheadIs
  <2>2. IsToken(ends, jump, k) /\ At(text, k) \notin {"*", "?"} => to = from + 1
    BY AheadIs
  <2> QED  BY <2>1, <2>2
<1> QED  BY <1>1, <1>2, <1>3, <1>4, Zenon

\* From the states that character n enters, add_state reaches where the reading can
\* be after n characters, the stars under way, and nothing else.
LEMMA StatesAre ==
  ASSUME NEW text \in Seq(Characters), NEW ends, NEW jump, NEW path \in Seq(Characters),
         Fits(text, ends, jump), NEW n \in 0..Len(path), NEW from,
         Stars(text, ends, jump, path, n) \subseteq from,
         Consumed(text, ends, jump, path, n) \subseteq from,
         n = 0 => 0 \in from,
         from \cap 0..Len(text) \subseteq
           Here(text, ends, jump, path, n) \cup Stars(text, ends, jump, path, n)
  PROVE  Reached(text, ends, jump, from) =
           Here(text, ends, jump, path, n) \cup Stars(text, ends, jump, path, n)
<1> DEFINE described == Described(text, ends, jump, path)
           here == Here(text, ends, jump, path, n)
           stars == Stars(text, ends, jump, path, n)
           reached == Reached(text, ends, jump, from)
<1>1. reached \subseteq here \cup stars
  <2>1. \A k \in here \cup stars :
          Followers(text, ends, jump, k) \cap 0..Len(text) \subseteq here \cup stars
    BY StatesClosed
  <2> HIDE DEF here, stars
  <2> QED  BY <2>1, ReachedLeast DEF here, stars
<1>2. /\ from \cap 0..Len(text) \subseteq reached /\ reached \subseteq 0..Len(text)
      /\ \A k \in reached : Followers(text, ends, jump, k) \cap 0..Len(text) \subseteq reached
  BY ReachedOn
<1>3. stars \subseteq reached
  <2>1. stars \subseteq 0..Len(text)
    BY DEF Stars
  <2> HIDE DEF stars, reached
  <2> QED  BY <1>2, <2>1 DEF stars
<1> DEFINE found == {m \in Nat :
                       \A k \in 0..Len(text) : k <= m /\ n \in described[k] => k \in reached}
<1> HIDE DEF reached, stars
<1>4. 0 \in found
  <2>1. described[0] = {0}
    BY DescribedBy
  <2>2. 0 \in 0..Len(text)
    OBVIOUS
  <2>3. n \in described[0] => 0 \in reached
    BY <1>2, <2>1, <2>2
  <2> HIDE DEF described
  <2> QED  BY <2>3
<1>5. ASSUME NEW m \in Nat, m \in found PROVE m + 1 \in found
  <2>1. SUFFICES ASSUME NEW k \in 0..Len(text), k = m + 1, n \in described[k] PROVE k \in reached
    <3> HIDE DEF described
    <3>1. \A k \in 0..Len(text) : k <= m + 1 => k <= m \/ k = m + 1
      OBVIOUS
    <3> QED  BY <1>5, <3>1
  <2>2. k \in 1..Len(text)
    BY <2>1
  <2>3. PICK p \in 0..(k - 1) :
          /\ k \in Turns(text, ends, jump, p)
          /\ \E start \in described[p] : n \in Ahead(text, ends, jump, p, path, start)
    BY <2>1, <2>2, DescribedBy, Zenon
  <2>4. PICK start \in described[p] : n \in Ahead(text, ends, jump, p, path, start)
    BY <2>3
  <2>5. p \in 0..Len(text) /\ p <= m /\ p \in Nat /\ p # Len(text)
    BY <2>1, <2>2
  <2>6. start \in 0..Len(path)
    <3>1. described[p] \subseteq 0..Len(path)
      BY <2>5, DescribedBy
    <3> HIDE DEF described
    <3> QED  BY <3>1
  <2>12. /\ ~IsToken(ends, jump, p) => n = start
         /\ IsToken(ends, jump, p) => n \in start..Len(path)
         /\ IsToken(ends, jump, p) /\ At(text, p) = "*" /\ ~IsDirectory(text, p) =>
              IsStarStar(text, p) \/ \A i \in (start + 1)..n : path[i] \notin Separators
         /\ IsToken(ends, jump, p) /\ At(text, p) # "*" => n = start + 1
    <3> HIDE DEF described
    <3> QED  BY <2>4, <2>6, AheadMeans
  <2>7. n \in described[p] => p \in reached
    <3> HIDE DEF described
    <3> QED  BY <1>5, <2>5
  <2>8. ASSUME p \in reached, k \in Followers(text, ends, jump, p) PROVE k \in reached
    BY <1>2, <2>8
  <2>9. CASE ~IsToken(ends, jump, p)
    <3>1. n = start
      BY <2>9, <2>12
    <3>2. k \in Followers(text, ends, jump, p)
      BY <2>3, <2>9, TurnsAre, Zenon
    <3> QED  BY <2>4, <2>7, <2>8, <3>1, <3>2
  <2>10. CASE IsToken(ends, jump, p) /\ At(text, p) = "*" /\ ~IsDirectory(text, p)
    <3>1. k \in Followers(text, ends, jump, p)
      BY <2>3, <2>10, TurnsAre, Zenon
    <3>2. /\ n \in start..Len(path)
          /\ IsStarStar(text, p) \/ \A i \in (start + 1)..n : path[i] \notin Separators
      BY <2>10, <2>12, Zenon
    <3>3. CASE start = n
      BY <2>4, <2>7, <2>8, <3>1, <3>3
    <3>4. CASE start # n
      <4>1. start < n
        BY <2>6, <3>2, <3>4
      <4>2. Begun(text, path, p, start, n)
        BY <2>10, <3>2, <4>1, Zenon DEF Begun
      <4>3. p \in stars
        BY <2>4, <2>5, <2>10, <4>1, <4>2, Zenon DEF stars, Stars
      <4> QED  BY <1>3, <2>8, <3>1, <4>3
    <3> QED  BY <3>3, <3>4
  <2>11. CASE IsToken(ends, jump, p) /\ (At(text, p) = "*" => IsDirectory(text, p))
    <3>1. n \in start..Len(path)
      BY <2>11, <2>12
    <3>2. CASE start < n
      <4>1. k \in Consumed(text, ends, jump, path, n)
        BY <2>2, <2>3, <2>4, <2>11, <3>2, Zenon DEF Consumed
      <4> QED  BY <1>2, <2>1, <4>1
    <3>3. CASE start = n
      <4>1. IsDirectory(text, p)
        <5>1. ~(n = n + 1)
          OBVIOUS
        <5> QED  BY <2>11, <2>12, <3>3, <5>1
      <4>2. k \in Followers(text, ends, jump, p)
        BY <2>3, <2>11, <4>1, TokenKinds, TurnsAre, ZenonT(30)
      <4> QED  BY <2>4, <2>7, <2>8, <3>3, <4>2
    <3>4. start < n \/ start = n
      BY <2>6, <3>1
    <3> QED  BY <3>2, <3>3, <3>4
  <2> QED  BY <2>9, <2>10, <2>11, Zenon
<1>6. here \subseteq reached
  <2>1. Nat \subseteq found
    <3> HIDE DEF found
    <3> QED  BY <1>4, <1>5, NatSetInduction
  <2>2. \A k \in 0..Len(text) : k \in found
    BY <2>1
  <2>3. ASSUME NEW k \in here PROVE k \in reached
    <3>1. k \in 0..Len(text) /\ n \in described[k] /\ k <= k
      BY DEF Here
    <3> HIDE DEF described
    <3> QED  BY <2>2, <3>1
  <2> QED  BY <2>3
<1> QED  BY <1>1, <1>3, <1>6 DEF reached, stars

\* The states after n characters: where the reading can be, and the stars under way.
LEMMA LiveIs ==
  ASSUME NEW text \in Seq(Characters), NEW ends, NEW jump, NEW path \in Seq(Characters),
         NEW n \in 0..Len(path)
  PROVE  Live(text, ends, jump, path, n) =
           {k \in Here(text, ends, jump, path, n) \cup Stars(text, ends, jump, path, n) :
              IsToken(ends, jump, k)}
             \cup Directories(text, ends, jump, path, n)
<1> DEFINE described == Described(text, ends, jump, path)
           live == Live(text, ends, jump, path, n)
           here == Here(text, ends, jump, path, n)
           stars == Stars(text, ends, jump, path, n)
           directories == Directories(text, ends, jump, path, n)
<1>1. ASSUME NEW k \in live
      PROVE  k \in directories \/ (k \in here \cup stars /\ IsToken(ends, jump, k))
  <2>1. k \in 0..Len(text) /\ IsToken(ends, jump, k)
    BY <1>1 DEF Live
  <2>2. PICK from \in described[k] : Begun(text, path, k, from, n)
    BY <1>1 DEF Live
  <2>3. CASE from = n
    BY <2>1, <2>2, <2>3 DEF Here
  <2>4. CASE from # n
    <3>1. from < n /\ At(text, k) = "*"
      BY <2>2, <2>4 DEF Begun
    <3>2. k \in directories \cup stars
      BY <2>1, <2>2, <3>1, Zenon DEF Directories, Stars
    <3> QED  BY <2>1, <3>2
  <2> QED  BY <2>3, <2>4
<1>2. ASSUME NEW k \in here, IsToken(ends, jump, k) PROVE k \in live
  <2>1. k \in 0..Len(text) /\ n \in described[k]
    BY <1>2 DEF Here
  <2>2. Begun(text, path, k, n, n)
    BY DEF Begun
  <2> QED  BY <1>2, <2>1, <2>2 DEF Live
<1>3. ASSUME NEW k \in stars PROVE k \in live
  BY <1>3, Zenon DEF Stars, Live
<1>4. ASSUME NEW k \in directories PROVE k \in live
  <2>1. k \in 0..Len(text) /\ IsToken(ends, jump, k) /\ IsDirectory(text, k)
    BY <1>4 DEF Directories
  <2>2. PICK from \in described[k] : from < n
    BY <1>4 DEF Directories
  <2>3. IsStarStar(text, k) /\ At(text, k) = "*"
    BY <2>1, TokenKinds
  <2>4. Begun(text, path, k, from, n)
    BY <2>2, <2>3 DEF Begun
  <2> QED  BY <2>1, <2>2, <2>4 DEF Live
<1> HIDE DEF live, here, stars, directories
<1>5. \A k \in live : k \in {l \in here \cup stars : IsToken(ends, jump, l)} \cup directories
  BY <1>1
<1>6. \A k \in {l \in here \cup stars : IsToken(ends, jump, l)} \cup directories : k \in live
  BY <1>2, <1>3, <1>4
<1>7. live = {l \in here \cup stars : IsToken(ends, jump, l)} \cup directories
  BY <1>5, <1>6
<1> QED  BY <1>7 DEF live, here, stars, directories

\* Before the first character add_open_state makes the states of a walk live.
LEMMA LiveFirst ==
  ASSUME NEW text \in Seq(Characters), NEW ends, NEW jump, NEW path \in Seq(Characters),
         Fits(text, ends, jump)
  PROVE  Live(text, ends, jump, path, 0) = Added(text, ends, jump, {0})
<1>1. 0 \in 0..Len(path) /\ 0 \in 0..Len(text)
  OBVIOUS
<1>2. \A k \in 0..Len(text) : \A from \in Described(text, ends, jump, path)[k] : ~(from < 0)
  <2>1. \A k \in 0..Len(text) : Described(text, ends, jump, path)[k] \subseteq 0..Len(path)
    BY DescribedBy
  <2> QED  BY <2>1
<1>3. /\ Stars(text, ends, jump, path, 0) = {}
      /\ Directories(text, ends, jump, path, 0) = {}
  BY <1>2 DEF Stars, Directories
<1>4. Consumed(text, ends, jump, path, 0) = {}
  <2>1. \A k \in 1..Len(text) : \A p \in 0..(k - 1) : p \in 0..Len(text)
    OBVIOUS
  <2> QED  BY <1>2, <2>1, Zenon DEF Consumed
<1>5. 0 \in Here(text, ends, jump, path, 0)
  <2>1. Described(text, ends, jump, path)[0] = {0}
    BY DescribedBy
  <2> QED  BY <1>1, <2>1 DEF Here
<1>6. Reached(text, ends, jump, {0})
        = Here(text, ends, jump, path, 0) \cup Stars(text, ends, jump, path, 0)
  BY <1>1, <1>3, <1>4, <1>5, StatesAre
<1>7. Live(text, ends, jump, path, 0)
        = {k \in Reached(text, ends, jump, {0}) : IsToken(ends, jump, k)}
  BY <1>1, <1>3, <1>6, LiveIs
<1> QED  BY <1>7 DEF Added, IsToken

\* Each state that was live and stays in the reading enters what it should: the stars
\* under way are entered again, and so is every index the character leads to.
LEMMA EntersEnough ==
  ASSUME NEW text \in Seq(Characters), NEW ends, NEW jump, NEW path \in Seq(Characters),
         NEW n \in 0..(Len(path) - 1),
         NEW x \in Stars(text, ends, jump, path, n + 1) \cup Consumed(text, ends, jump, path, n + 1)
  PROVE  \E k \in Live(text, ends, jump, path, n) : x \in Entered(text, k, path[n + 1])
<1> DEFINE described == Described(text, ends, jump, path)
           live == Live(text, ends, jump, path, n)
           c == path[n + 1]
<1>1. n + 1 \in 0..Len(path) /\ n \in Nat
  OBVIOUS
<1>2. CASE x \in Stars(text, ends, jump, path, n + 1)
  <2>1. /\ x \in 0..Len(text) /\ IsToken(ends, jump, x) /\ At(text, x) = "*"
        /\ ~IsDirectory(text, x)
    BY <1>2 DEF Stars
  <2>2. PICK from \in described[x] : from < n + 1 /\ Begun(text, path, x, from, n + 1)
    BY <1>2 DEF Stars
  <2>3. from \in 0..Len(path)
    BY <2>1, <2>2, DescribedBy
  <2>4. IsStarStar(text, x) \/ \A m \in (from + 1)..(n + 1) : path[m] \notin Separators
    BY <2>2, <2>3 DEF Begun
  <2>5. Begun(text, path, x, from, n)
    <3>1. \A m \in (from + 1)..n : m \in (from + 1)..(n + 1)
      BY <1>1, <2>3
    <3>2. from = n \/ from < n
      BY <1>1, <2>2, <2>3
    <3> QED  BY <2>1, <2>4, <3>1, <3>2, Zenon DEF Begun
  <2>6. x \in live
    BY <2>1, <2>2, <2>5, Zenon DEF Live
  <2>7. IsStarStar(text, x) \/ c \notin Separators
    <3>1. n + 1 \in (from + 1)..(n + 1)
      BY <1>1, <2>2, <2>3
    <3> QED  BY <2>4, <3>1, Zenon
  <2>8. Entered(text, x, c) = {x}
    BY <2>1, <2>7, EnteredIs
  <2> HIDE DEF live
  <2> QED  BY <2>6, <2>8 DEF live
<1>3. CASE x \in Consumed(text, ends, jump, path, n + 1)
  <2>1. PICK p \in 0..(x - 1) :
          /\ IsToken(ends, jump, p) /\ (At(text, p) = "*" => IsDirectory(text, p))
          /\ x \in Turns(text, ends, jump, p)
          /\ \E from \in described[p] :
               from < n + 1 /\ n + 1 \in Ahead(text, ends, jump, p, path, from)
    BY <1>3 DEF Consumed
  <2>2. PICK from \in described[p] :
          from < n + 1 /\ n + 1 \in Ahead(text, ends, jump, p, path, from)
    BY <2>1
  <2>3. x \in 1..Len(text)
    BY <1>3 DEF Consumed
  <2>4. p \in 0..Len(text) /\ p # Len(text)
    BY <2>3
  <2>5. from \in 0..Len(path)
    BY <2>2, <2>4, DescribedBy
  <2>6. ~(n + 1 = from) /\ (from = n \/ from < n)
    BY <1>1, <2>2, <2>5
  <2>7. CASE At(text, p) = "*"
    <3>1. IsDirectory(text, p) /\ IsStarStar(text, p)
      BY <2>1, <2>7, TokenKinds
    <3>2. p \in live
      <4>1. Begun(text, path, p, from, n)
        BY <2>6, <2>7, <3>1, Zenon DEF Begun
      <4> QED  BY <2>1, <2>2, <2>4, <4>1, Zenon DEF Live
    <3>3. c \in Separators
      <4>1. n + 1 = from \/ c \in Separators
        BY <2>1, <2>2, <2>5, <3>1, AheadIs
      <4> QED  BY <2>6, <4>1
    <3>4. x = p + 3
      <4>1. Turns(text, ends, jump, p) = {AfterStar(text, p)}
        BY <2>1, <2>7, TurnsAre, Zenon
      <4> QED  BY <2>1, <3>1, <4>1 DEF AfterStar
    <3>5. Entered(text, p, c) = {p + 3}
      BY <2>4, <3>1, <3>3, EnteredIs
    <3> HIDE DEF live
    <3> QED  BY <3>2, <3>4, <3>5 DEF live
  <2>8. CASE At(text, p) # "*"
    <3>1. from = n
      <4>1. n + 1 = from + 1
        BY <2>1, <2>2, <2>5, <2>8, AheadMeans
      <4> QED  BY <1>1, <2>5, <4>1
    <3>2. p \in live
      <4>1. Begun(text, path, p, from, n)
        BY <3>1 DEF Begun
      <4> QED  BY <2>1, <2>2, <2>4, <4>1, Zenon DEF Live
    <3>3. x = p + 1
      BY <2>1, <2>8, TurnsAre
    <3>4. CASE At(text, p) = "?"
      <4>1. c \notin Separators
        <5>1. \A m \in (from + 1)..(n + 1) : path[m] \notin Separators
          BY <2>1, <2>2, <2>5, <3>4, AheadIs
        <5>2. n + 1 \in (from + 1)..(n + 1)
          BY <1>1, <3>1
        <5> QED  BY <5>1, <5>2, Zenon
      <4>2. Entered(text, p, c) = {p + 1}
        BY <2>4, <3>4, <4>1, EnteredIs
      <4> HIDE DEF live
      <4> QED  BY <3>2, <3>3, <4>2 DEF live
    <3>5. CASE At(text, p) # "?"
      <4>1. CharactersMatch(At(text, p), c)
        BY <2>1, <2>2, <2>5, <2>8, <3>5, AheadIs
      <4>2. Entered(text, p, c) = {p + 1}
        BY <2>4, <2>8, <3>5, <4>1, EnteredIs
      <4> HIDE DEF live
      <4> QED  BY <3>2, <3>3, <4>2 DEF live
    <3> QED  BY <3>4, <3>5
  <2> QED  BY <2>7, <2>8
<1> QED  BY <1>2, <1>3

\* What a live state enters is where the reading can be one character later, or the
\* star itself, under way.
LEMMA EntersOnly ==
  ASSUME NEW text \in Seq(Characters), NEW ends, NEW jump, NEW path \in Seq(Characters),
         NEW n \in 0..(Len(path) - 1), NEW k \in Live(text, ends, jump, path, n),
         NEW x \in Entered(text, k, path[n + 1]), x \in 0..Len(text)
  PROVE  x \in Here(text, ends, jump, path, n + 1) \cup Stars(text, ends, jump, path, n + 1)
<1> DEFINE described == Described(text, ends, jump, path)
           c == path[n + 1]
<1>1. n + 1 \in 0..Len(path) /\ n \in Nat
  OBVIOUS
<1>2. k \in 0..Len(text) /\ IsToken(ends, jump, k)
  BY DEF Live
<1>3. PICK from \in described[k] : Begun(text, path, k, from, n)
  BY DEF Live
<1>4. from \in 0..Len(path)
  BY <1>2, <1>3, DescribedBy
<1>5. from = n \/ (from < n /\ At(text, k) = "*")
  BY <1>3, Zenon DEF Begun
<1>6. n + 1 \in from..Len(path) /\ from < n + 1
  BY <1>1, <1>4, <1>5
<1>7. k # Len(text) /\ k \in 0..(Len(text) - 1)
  BY <1>2, EnteredIs
<1>8. ASSUME x = k + 1 \/ x = k + 2 \/ x = k + 3, x \in Turns(text, ends, jump, k),
             n + 1 \in Ahead(text, ends, jump, k, path, from)
      PROVE  x \in Here(text, ends, jump, path, n + 1)
  <2>1. x \in 1..Len(text) /\ k \in 0..(x - 1)
    BY <1>2, <1>8
  <2>2. n + 1 \in described[x]
    BY <1>3, <1>8, <2>1, DescribedBy, Zenon
  <2> QED  BY <2>1, <2>2 DEF Here
<1>9. CASE IsDirectory(text, k)
  <2>1. c \in Separators /\ x = k + 3
    BY <1>2, <1>9, EnteredIs
  <2>2. IsStarStar(text, k) /\ At(text, k) = "*"
    BY <1>9, TokenKinds
  <2>3. Turns(text, ends, jump, k) = {k + 3}
    <3>1. Turns(text, ends, jump, k) = {AfterStar(text, k)}
      BY <1>2, <2>2, TurnsAre, Zenon
    <3> QED  BY <1>9, <3>1 DEF AfterStar
  <2>4. n + 1 \in Ahead(text, ends, jump, k, path, from)
    BY <1>2, <1>4, <1>6, <1>9, <2>1, AheadIs
  <2> QED  BY <1>8, <2>1, <2>3, <2>4
<1>10. CASE At(text, k) = "*" /\ ~IsDirectory(text, k)
  <2>1. x = k /\ (IsStarStar(text, k) \/ c \notin Separators)
    BY <1>2, <1>10, EnteredIs
  <2>2. Begun(text, path, k, from, n + 1)
    <3>1. IsStarStar(text, k) \/ \A m \in (from + 1)..(n + 1) : path[m] \notin Separators
      <4>1. CASE IsStarStar(text, k)
        BY <4>1
      <4>2. CASE ~IsStarStar(text, k)
        <5>1. from = n \/ \A m \in (from + 1)..n : path[m] \notin Separators
          BY <1>3, <4>2, Zenon DEF Begun
        <5>2. \A m \in (from + 1)..(n + 1) : m = n + 1 \/ (m \in (from + 1)..n /\ from # n)
          BY <1>1, <1>4
        <5>3. \A m \in (from + 1)..(n + 1) : path[m] \notin Separators
          BY <2>1, <4>2, <5>1, <5>2
        <5> QED  BY <5>3
      <4> QED  BY <4>1, <4>2
    <3> QED  BY <1>6, <1>10, <3>1, Zenon DEF Begun
  <2> QED  BY <1>2, <1>3, <1>6, <1>10, <2>1, <2>2, Zenon DEF Stars
<1>11. CASE At(text, k) # "*"
  <2>1. from = n
    BY <1>5, <1>11
  <2>2. Turns(text, ends, jump, k) = {k + 1}
    BY <1>2, <1>11, TurnsAre, Zenon
  <2>3. CASE At(text, k) = "?"
    <3>1. c \notin Separators /\ x = k + 1
      BY <1>2, <2>3, EnteredIs
    <3>2. n + 1 \in Ahead(text, ends, jump, k, path, from)
      <4>1. \A m \in (from + 1)..(n + 1) : path[m] \notin Separators
        BY <1>1, <2>1, <3>1
      <4>2. n + 1 = from + 1
        BY <2>1
      <4> QED  BY <1>2, <1>4, <1>6, <2>3, <4>1, <4>2, AheadIs
    <3> QED  BY <1>8, <2>2, <3>1, <3>2
  <2>4. CASE At(text, k) # "?"
    <3>1. CharactersMatch(At(text, k), c) /\ x = k + 1
      BY <1>2, <1>7, <1>11, <2>4, EnteredIs
    <3>2. n + 1 \in Ahead(text, ends, jump, k, path, from)
      <4>1. n + 1 = from + 1
        BY <2>1
      <4> QED  BY <1>2, <1>4, <1>6, <1>11, <2>4, <3>1, <4>1, AheadIs
    <3> QED  BY <1>8, <2>2, <3>1, <3>2
  <2> QED  BY <2>3, <2>4
<1> QED  BY <1>9, <1>10, <1>11

\* One step of the walk: the states one character later.
LEMMA LiveStep ==
  ASSUME NEW text \in Seq(Characters), NEW ends, NEW jump, NEW path \in Seq(Characters),
         Fits(text, ends, jump), NEW n \in 0..(Len(path) - 1)
  PROVE  LET live == Live(text, ends, jump, path, n)
             entered == UNION {Entered(text, k, path[n + 1]) : k \in live}
         IN  Live(text, ends, jump, path, n + 1) =
               Added(text, ends, jump, entered) \cup Staying(text, live)
<1> DEFINE live == Live(text, ends, jump, path, n)
           entered == UNION {Entered(text, k, path[n + 1]) : k \in live}
           here == Here(text, ends, jump, path, n + 1)
           stars == Stars(text, ends, jump, path, n + 1)
           directories == Directories(text, ends, jump, path, n + 1)
<1>1. n + 1 \in 0..Len(path) /\ n + 1 # 0 /\ n \in Nat
  OBVIOUS
<1>2. stars \subseteq entered /\ Consumed(text, ends, jump, path, n + 1) \subseteq entered
  BY EntersEnough
<1>3. entered \cap 0..Len(text) \subseteq here \cup stars
  BY EntersOnly
<1>4. Reached(text, ends, jump, entered) = here \cup stars
  <2> HIDE DEF entered
  <2> QED  BY <1>1, <1>2, <1>3, StatesAre
<1>5. Added(text, ends, jump, entered) = {k \in here \cup stars : IsToken(ends, jump, k)}
  <2> HIDE DEF entered, here, stars
  <2> QED  BY <1>4 DEF Added, IsToken
<1>6. Staying(text, live) = directories
  <2>1. ASSUME NEW k \in Staying(text, live) PROVE k \in directories
    <3>1. k \in live /\ IsDirectory(text, k)
      BY <2>1 DEF Staying
    <3>2. k \in 0..Len(text) /\ IsToken(ends, jump, k)
      BY <3>1 DEF Live
    <3>3. PICK from \in Described(text, ends, jump, path)[k] : Begun(text, path, k, from, n)
      BY <3>1 DEF Live
    <3>4. from \in 0..Len(path)
      BY <3>2, <3>3, DescribedBy
    <3>5. from < n + 1
      BY <1>1, <3>3, <3>4 DEF Begun
    <3> QED  BY <3>1, <3>2, <3>3, <3>5, Zenon DEF Directories
  <2>2. ASSUME NEW k \in directories PROVE k \in Staying(text, live)
    <3>1. k \in 0..Len(text) /\ IsToken(ends, jump, k) /\ IsDirectory(text, k)
      BY <2>2 DEF Directories
    <3>2. PICK from \in Described(text, ends, jump, path)[k] : from < n + 1
      BY <2>2 DEF Directories
    <3>3. from \in 0..Len(path)
      BY <3>1, <3>2, DescribedBy
    <3>4. IsStarStar(text, k) /\ At(text, k) = "*"
      BY <3>1, TokenKinds
    <3>5. Begun(text, path, k, from, n)
      BY <1>1, <3>2, <3>3, <3>4 DEF Begun
    <3>6. k \in live
      BY <3>1, <3>2, <3>5, Zenon DEF Live
    <3> QED  BY <3>1, <3>4, <3>6 DEF Staying
  <2> HIDE DEF live, directories
  <2> QED  BY <2>1, <2>2
<1>7. Live(text, ends, jump, path, n + 1)
        = {k \in here \cup stars : IsToken(ends, jump, k)} \cup directories
  BY <1>1, LiveIs
<1> HIDE DEF live, entered, here, stars, directories
<1> QED  BY <1>5, <1>6, <1>7 DEF live, entered

\* The end of the pattern is live when the pattern describes what has been walked.
LEMMA LiveAtEnd ==
  ASSUME NEW text \in Seq(Characters), NEW ends, NEW jump, NEW path, NEW n,
         Fits(text, ends, jump)
  PROVE  Len(text) \in Live(text, ends, jump, path, n)
           <=> n \in Described(text, ends, jump, path)[Len(text)]
<1>1. IsToken(ends, jump, Len(text)) /\ Len(text) \in 0..Len(text)
  BY DEF Fits, IsToken
<1>2. At(text, Len(text)) # "*"
  BY DEF At
<1>3. \A from : Begun(text, path, Len(text), from, n) <=> from = n
  BY <1>2, Zenon DEF Begun
<1> QED  BY <1>1, <1>3, Zenon DEF Live

\* The arrays of a pattern fit it.
LEMMA ArraysFit ==
  ASSUME NEW text \in Seq(Characters)
  PROVE  Fits(text, EndsOf(text), JumpsOf(text))
<1>1. Len(text) \in Nat
  OBVIOUS
<1>2. \A k \in 0..Len(text) : EndsOf(text)[k] \in 0..Len(text)
  <2>1. ASSUME NEW k \in 0..Len(text) PROVE EndsOf(text)[k] \in 0..Len(text)
    <3>1. CASE k < Len(text)
      <4>1. k \in 0..(Len(text) - 1)
        BY <3>1
      <4>2. EndsOf(text)[k] = BraceEnd(text, k)
        BY <3>1 DEF EndsOf
      <4> QED  BY <4>1, <4>2, BraceEndIs
    <3>2. CASE ~(k < Len(text))
      <4>1. EndsOf(text)[k] = 0
        BY <3>2 DEF EndsOf
      <4> QED  BY <1>1, <4>1
    <3> QED  BY <3>1, <3>2
  <2> QED  BY <2>1
<1> DEFINE width == Len(text) + 1
<1>3. /\ width \in Nat /\ 0..(width - 1) = 0..Len(text)
      /\ EndsOf(text) \in [0..(width - 1) -> 0..width]
  <2>1. width \in Nat /\ 0..(width - 1) = 0..Len(text) /\ 0..Len(text) \subseteq 0..width
    BY <1>1
  <2>2. EndsOf(text) = [k \in 0..Len(text) |-> EndsOf(text)[k]]
    BY DEF EndsOf
  <2> HIDE DEF width
  <2> QED  BY <1>2, <2>1, <2>2
<1>4. ASSUME NEW k \in 0..Len(text)
      PROVE  JumpsOf(text)[k] \in Nat /\ (JumpsOf(text)[k] = 0 \/ JumpsOf(text)[k] > k)
  <2>1. CASE k < Len(text)
    <3>1. JumpsOf(text)[k] = Jump(text, EndsOf(text), k)
      BY <2>1 DEF JumpsOf
    <3>2. k \in 0..(width - 1)
      BY <1>3
    <3> HIDE DEF width
    <3>3. /\ Jump(text, EndsOf(text), k) \in 0..width
          /\ Jump(text, EndsOf(text), k) = 0 \/ Jump(text, EndsOf(text), k) > k
      BY <1>3, <3>2, JumpIs
    <3> QED  BY <1>3, <3>1, <3>3
  <2>2. CASE ~(k < Len(text))
    BY <2>2 DEF JumpsOf
  <2> QED  BY <2>1, <2>2
<1>5. EndsOf(text)[Len(text)] = 0 /\ JumpsOf(text)[Len(text)] = 0
  BY <1>1 DEF EndsOf, JumpsOf
<1> QED  BY <1>2, <1>4, <1>5 DEF Fits

\* The states of a walk, character after character, are those the pattern describes.
LEMMA WalkIsLive ==
  ASSUME NEW text \in Seq(Characters), NEW path \in Seq(Characters), NEW ends, NEW jump,
         \A k \in 0..Len(text) : ends[k] = EndsOf(text)[k] /\ jump[k] = JumpsOf(text)[k],
         NEW n \in 0..Len(path)
  PROVE  Walk(text, path)[n] = Live(text, ends, jump, path, n)
<1> DEFINE same == {m \in Nat :
                      m <= Len(path) => Walk(text, path)[m] = Live(text, ends, jump, path, m)}
<1>1. Fits(text, ends, jump)
  <2>1. Len(text) \in 0..Len(text)
    OBVIOUS
  <2> QED  BY <2>1, ArraysFit DEF Fits
<1>2. 0 \in same
  <2>1. Walk(text, path)[0] = Opened(text)
    BY WalkIs
  <2>2. Added(text, ends, jump, {0}) = Added(text, EndsOf(text), JumpsOf(text), {0})
    BY AddedAgrees
  <2> QED  BY <1>1, <2>1, <2>2, LiveFirst DEF Opened
<1>3. ASSUME NEW m \in Nat, m \in same PROVE m + 1 \in same
  <2>1. SUFFICES ASSUME m + 1 <= Len(path)
                 PROVE  Walk(text, path)[m + 1] = Live(text, ends, jump, path, m + 1)
    OBVIOUS
  <2>2. /\ m \in 0..(Len(path) - 1) /\ m <= Len(path)
        /\ m + 1 \in 1..Len(path) /\ (m + 1) - 1 = m
    BY <2>1
  <2> DEFINE live == Live(text, ends, jump, path, m)
             entered == UNION {Entered(text, k, path[m + 1]) : k \in live}
  <2>3. Walk(text, path)[m + 1] = Stepped(text, live, path[m + 1])
    <3>1. Walk(text, path)[m + 1] = Stepped(text, Walk(text, path)[m], path[m + 1])
      BY <2>2, WalkIs
    <3> QED  BY <1>3, <2>2, <3>1
  <2>4. Stepped(text, live, path[m + 1])
          = Added(text, EndsOf(text), JumpsOf(text), entered) \cup Staying(text, live)
    BY DEF Stepped
  <2>5. Live(text, ends, jump, path, m + 1)
          = Added(text, ends, jump, entered) \cup Staying(text, live)
    BY <1>1, <2>2, LiveStep
  <2> HIDE DEF live, entered
  <2>6. Added(text, ends, jump, entered) = Added(text, EndsOf(text), JumpsOf(text), entered)
    BY AddedAgrees
  <2> QED  BY <2>3, <2>4, <2>5, <2>6
<1>4. Nat \subseteq same
  <2> HIDE DEF same
  <2> QED  BY <1>2, <1>3, NatSetInduction
<1>5. n \in Nat /\ n <= Len(path)
  OBVIOUS
<1> QED  BY <1>4, <1>5

\* A pattern accepts just the paths it describes.
LEMMA AcceptsDescribed ==
  ASSUME NEW text \in Seq(Characters), NEW path \in Seq(Characters)
  PROVE  Accepts(text, path) <=> Describes(text, path)
<1>1. Len(path) \in 0..Len(path)
  OBVIOUS
<1>2. Walk(text, path)[Len(path)] = Live(text, EndsOf(text), JumpsOf(text), path, Len(path))
  BY <1>1, WalkIsLive
<1>3. Fits(text, EndsOf(text), JumpsOf(text))
  BY ArraysFit
<1> QED  BY <1>2, <1>3, LiveAtEnd DEF Accepts, Describes

\* At every point of a walk, whatever was matched before it with the same arrays, the
\* pattern is in its last state just when it describes what has been walked
\* (glob.c consume_path_character, consume_state, add_state).
THEOREM MatchedAsDescribed == Spec => []MatchesAsDescribed
<1>1. ASSUME IInv, FreshSoFar PROVE MatchesAsDescribed
  <2>1. SUFFICES ASSUME phase = "walk"
                 PROVE  Len(Subject) \in current
                          <=> walked \in Described(Subject, braceEnds, jumps, Path)[Len(Subject)]
    BY DEF MatchesAsDescribed
  <2>2. asked <= Len(paths) /\ pattern <= Len(patterns) /\ walked <= Len(Path)
    BY <1>1, <2>1 DEF IInv, WalkInHand
  <2>3. Subject \in Seq(Characters)
    BY <1>1, <2>2, SubjectIs
  <2>4. Path \in Seq(Characters) /\ walked \in 0..Len(Path)
    <3>1. /\ paths \in Seq(Seq(Characters)) /\ asked \in 1..(Len(paths) + 1)
          /\ walked \in Nat
      BY <1>1 DEF IInv, TypeOK
    <3> QED  BY <2>2, <3>1 DEF Path
  <2>5. \A k \in 0..Len(Subject) :
          braceEnds[k] = EndsOf(Subject)[k] /\ jumps[k] = JumpsOf(Subject)[k]
    BY <1>1, <2>1, Zenon DEF FreshSoFar, ArraysInHand
  <2>6. current = Walk(Subject, Path)[walked]
    BY <1>1, <2>1, Zenon DEF FreshSoFar, WalkSoFar
  <2>7. current = Live(Subject, braceEnds, jumps, Path, walked)
    BY <2>3, <2>4, <2>5, <2>6, WalkIsLive
  <2>8. Fits(Subject, braceEnds, jumps)
    <3>1. Fits(Subject, EndsOf(Subject), JumpsOf(Subject))
      BY <2>3, ArraysFit
    <3>2. Len(Subject) \in 0..Len(Subject)
      BY <2>3
    <3> QED  BY <2>5, <3>1, <3>2 DEF Fits
  <2> QED  BY <2>3, <2>7, <2>8, LiveAtEnd
<1>2. IInv /\ FreshSoFar => MatchesAsDescribed
  BY <1>1
<1> QED  BY GlobInvariant, FreshInvariant, <1>2, PTL

\* Every verdict is the one the README describes: the last pattern of the list that
\* describes the complete path decides, and without one the default
\* (glob.c fs_lint_glob_matcher_allows; README.md, "Glob Syntax").
THEOREM DecidedAsDescribed == Spec => []VerdictsAsDescribed
<1>1. ASSUME IInv, FreshSoFar PROVE VerdictsAsDescribed
  <2>1. SUFFICES ASSUME NEW n \in DOMAIN verdicts
                 PROVE  LET matching == {m \in DOMAIN patterns :
                                           Describes(Text(patterns[m]), paths[n])}
                        IN  verdicts[n] = IF matching = {} THEN defaultAllowed
                                          ELSE ~Negated(patterns[Max(matching)])
    BY Zenon DEF VerdictsAsDescribed
  <2>2. /\ patterns \in Seq(Seq(Characters)) /\ paths \in Seq(Seq(Characters))
        /\ asked \in 1..(Len(paths) + 1) /\ verdicts \in Seq(BOOLEAN)
    BY <1>1 DEF IInv, TypeOK
  <2>3. Len(verdicts) = asked - 1
    BY <1>1, Zenon DEF FreshSoFar
  <2>4. paths[n] \in Seq(Characters)
    <3>1. n \in 1..Len(verdicts) /\ Len(paths) \in Nat
      BY <2>2
    <3>2. n \in 1..Len(paths)
      BY <2>2, <2>3, <3>1
    <3> QED  BY <2>2, <3>2
  <2>5. \A m \in DOMAIN patterns : Text(patterns[m]) \in Seq(Characters)
    BY <2>2, TextIs
  <2>6. \A m \in DOMAIN patterns :
          Accepts(Text(patterns[m]), paths[n]) <=> Describes(Text(patterns[m]), paths[n])
    BY <2>4, <2>5, AcceptsDescribed
  <2>7. DOMAIN patterns = 1..Len(patterns)
    BY <2>2
  <2>8. {m \in 1..Len(patterns) : Accepts(Text(patterns[m]), paths[n])}
          = {m \in DOMAIN patterns : Describes(Text(patterns[m]), paths[n])}
    BY <2>6, <2>7
  <2>9. verdicts[n] = Decided(patterns, Len(patterns), paths[n], defaultAllowed)
    BY <1>1, Zenon DEF FreshSoFar, VerdictsAreFresh
  <2> QED  BY <2>8, <2>9, Zenon DEF Decided
<1>2. IInv /\ FreshSoFar => VerdictsAsDescribed
  BY <1>1
<1> QED  BY GlobInvariant, FreshInvariant, <1>2, PTL

NoBrace(text) == \A k \in 1..Len(text) : text[k] # "{"

\* A pattern without an opening brace has no groups: it is read token after token.
LEMMA NoGroups ==
  ASSUME NEW text \in Seq(Characters), NoBrace(text)
  PROVE  \A k \in 0..Len(text) : EndsOf(text)[k] = 0 /\ JumpsOf(text)[k] = 0
<1>1. ASSUME NEW k \in 0..Len(text) PROVE EndsOf(text)[k] = 0
  <2>1. CASE k < Len(text)
    <3>1. At(text, k) # "{"
      <4>1. k + 1 \in 1..Len(text) /\ k # Len(text)
        BY <2>1
      <4>2. At(text, k) = text[k + 1]
        BY <4>1 DEF At
      <4> QED  BY <4>1, <4>2, Zenon DEF NoBrace
    <3>2. BraceEnd(text, k) = 0
      BY <3>1, Zenon DEF BraceEnd
    <3> QED  BY <2>1, <3>2 DEF EndsOf
  <2>2. CASE ~(k < Len(text))
    BY <2>2 DEF EndsOf
  <2> QED  BY <2>1, <2>2
<1>2. ASSUME NEW k \in 0..Len(text) PROVE JumpsOf(text)[k] = 0
  <2>1. \A open \in 0..(k - 1) : ~(EndsOf(text)[open] > k)
    <3>1. \A open \in 0..(k - 1) : open \in 0..Len(text) /\ ~(0 > k)
      OBVIOUS
    <3> QED  BY <1>1, <3>1
  <2>2. Jump(text, EndsOf(text), k) = 0
    BY <2>1, Zenon DEF Jump
  <2> QED  BY <2>2 DEF JumpsOf
<1> QED  BY <1>1, <1>2

--------------------------------------------------------------------------------
(* Groups *)

Opens(text, k) == At(text, k) = "{"
Shuts(text, k) == At(text, k) = "}"
Splits(text, k) == At(text, k) = ","

\* How deep in braces the index after k is.
Deeper(text, k, before) ==
  CASE At(text, k) = "{" -> before + 1
    [] At(text, k) = "}" /\ before > 0 -> before - 1
    [] OTHER -> before

IsGroup(text, open) == open \in 0..(Len(text) - 1) /\ BraceEnd(text, open) # 0

\* find_brace_group_at closes every group at the partner of its brace: there is no
\* "}" of depth 1 that it passes by because no comma came before.
WellNested(text) ==
  \A open : IsGroup(text, open) =>
    \A k \in (open + 1)..(BraceEnd(text, open) - 2) :
      Shuts(text, k) => Depth(text, open)[k] # 1

\* A character is of one kind.
LEMMA Kinds ==
  ASSUME NEW text, NEW k
  PROVE  /\ Opens(text, k) => ~Shuts(text, k) /\ ~Splits(text, k)
         /\ Shuts(text, k) => ~Splits(text, k)
         /\ At(text, k) = "*" \/ At(text, k) \in Separators =>
              ~Opens(text, k) /\ ~Shuts(text, k) /\ ~Splits(text, k)
BY Zenon DEF Opens, Shuts, Splits, Separators

\* What a brace does to the depth.
LEMMA DeeperIs ==
  ASSUME NEW text, NEW k, NEW before \in Nat
  PROVE  /\ Deeper(text, k, before) \in Nat
         /\ Opens(text, k) => Deeper(text, k, before) = before + 1
         /\ Shuts(text, k) /\ before > 0 => Deeper(text, k, before) = before - 1
         /\ Shuts(text, k) /\ before = 0 => Deeper(text, k, before) = 0
         /\ ~Opens(text, k) /\ ~Shuts(text, k) => Deeper(text, k, before) = before
<1>1. Opens(text, k) => Deeper(text, k, before) = before + 1
  BY Kinds, Zenon DEF Opens, Shuts, Deeper
<1>2. Shuts(text, k) /\ before > 0 => Deeper(text, k, before) = before - 1
  BY Kinds, Zenon DEF Opens, Shuts, Deeper
<1>3. ~Opens(text, k) /\ ~(Shuts(text, k) /\ before > 0) => Deeper(text, k, before) = before
  BY Zenon DEF Opens, Shuts, Deeper
<1> QED  BY <1>1, <1>2, <1>3, Kinds

\* The recursion of Depth has a solution.
LEMMA DepthIs ==
  ASSUME NEW text \in Seq(Characters), NEW first \in 0..Len(text)
  PROVE  LET depth == Depth(text, first)
         IN  /\ depth[first] = 0
             /\ \A k \in (first + 1)..Len(text) : depth[k] = Deeper(text, k - 1, depth[k - 1])
             /\ \A k \in first..Len(text) : depth[k] \in Nat
<1> DEFINE Solves(d, m) ==
             d = [k \in first..m |-> IF k = first THEN 0 ELSE Deeper(text, k - 1, d[k - 1])]
           solved == {m \in Nat : \E d : Solves(d, first + m)}
           it == Depth(text, first)
<1>1. it = CHOOSE d : Solves(d, Len(text))
  BY Zenon DEF Depth, Deeper
<1> HIDE DEF it
<1>2. 0 \in solved
  <2> DEFINE d == [k \in first..first |-> 0]
  <2>1. d = [k \in first..(first + 0) |-> IF k = first THEN 0 ELSE Deeper(text, k - 1, d[k - 1])]
    OBVIOUS
  <2> HIDE DEF d
  <2>2. Solves(d, first + 0)
    BY <2>1
  <2> HIDE DEF Solves
  <2> QED  BY <2>2
<1>3. ASSUME NEW m \in Nat, m \in solved PROVE m + 1 \in solved
  <2>1. PICK d : Solves(d, first + m)
    BY <1>3
  <2> DEFINE last == first + (m + 1)
             e == [k \in first..last |-> IF k = first THEN 0 ELSE Deeper(text, k - 1, d[k - 1])]
  <2>2. \A k \in first..(first + m) : d[k] = IF k = first THEN 0 ELSE Deeper(text, k - 1, d[k - 1])
    BY <2>1
  <2>3. \A k \in first..last : e[k] = IF k = first THEN 0 ELSE Deeper(text, k - 1, d[k - 1])
    OBVIOUS
  <2>4. e = [k \in first..last |-> e[k]]
    OBVIOUS
  <2> HIDE DEF e
  <2>5. \A k \in first..(first + m) : e[k] = d[k]
    BY <2>2, <2>3
  <2>6. ASSUME NEW k \in first..last
        PROVE  e[k] = IF k = first THEN 0 ELSE Deeper(text, k - 1, e[k - 1])
    <3>1. CASE k = first
      BY <2>3, <3>1
    <3>2. CASE k # first
      <4>1. k - 1 \in first..(first + m)
        BY <3>2
      <4> QED  BY <2>3, <2>5, <3>2, <4>1
    <3> QED  BY <3>1, <3>2
  <2>7. Solves(e, last)
    BY <2>4, <2>6
  <2> HIDE DEF Solves
  <2> QED  BY <2>7
<1>4. \E d : Solves(d, Len(text))
  <2> HIDE DEF solved
  <2>1. Nat \subseteq solved
    BY <1>2, <1>3, NatSetInduction
  <2>2. Len(text) - first \in solved /\ first + (Len(text) - first) = Len(text)
    BY <2>1
  <2> QED  BY <2>2 DEF solved
<1>5. it = [k \in first..Len(text) |-> IF k = first THEN 0 ELSE Deeper(text, k - 1, it[k - 1])]
  BY <1>1, <1>4
<1>6. \A k \in first..Len(text) : it[k] = IF k = first THEN 0 ELSE Deeper(text, k - 1, it[k - 1])
  BY <1>5
<1>7. it[first] = 0 /\ \A k \in (first + 1)..Len(text) : it[k] = Deeper(text, k - 1, it[k - 1])
  BY <1>6
<1> DEFINE typed == {m \in Nat : first + m <= Len(text) => it[first + m] \in Nat}
<1>8. 0 \in typed
  BY <1>7
<1>9. ASSUME NEW m \in Nat, m \in typed PROVE m + 1 \in typed
  <2>1. SUFFICES ASSUME first + (m + 1) <= Len(text) PROVE it[first + (m + 1)] \in Nat
    OBVIOUS
  <2>2. first + (m + 1) \in (first + 1)..Len(text) /\ first + (m + 1) - 1 = first + m
    BY <2>1
  <2>3. it[first + m] \in Nat
    BY <1>9, <2>1
  <2>4. it[first + (m + 1)] = Deeper(text, first + m, it[first + m])
    BY <1>7, <2>2
  <2> QED  BY <2>3, <2>4, DeeperIs
<1>10. \A k \in first..Len(text) : it[k] \in Nat
  <2>1. Nat \subseteq typed
    <3> HIDE DEF typed
    <3> QED  BY <1>8, <1>9, NatSetInduction
  <2>2. \A k \in first..Len(text) : k - first \in Nat /\ first + (k - first) = k /\ k <= Len(text)
    OBVIOUS
  <2> QED  BY <2>1, <2>2
<1> QED  BY <1>7, <1>10 DEF it

\* A group ends behind its closing brace, which is one deep in it.
LEMMA GroupIs ==
  ASSUME NEW text \in Seq(Characters), NEW open, IsGroup(text, open)
  PROVE  LET end == BraceEnd(text, open)
         IN  /\ open \in Nat /\ open < Len(text) /\ end \in Nat
             /\ end - 1 \in (open + 1)..(Len(text) - 1)
             /\ Opens(text, open) /\ Shuts(text, end - 1)
             /\ Depth(text, open)[end - 1] = 1
<1> DEFINE closes == GroupCloses(text, open)
<1>1. open \in 0..(Len(text) - 1) /\ BraceEnd(text, open) # 0
  BY DEF IsGroup
<1>2. Opens(text, open) /\ closes # {} /\ BraceEnd(text, open) = Min(closes) + 1
  BY <1>1, Zenon DEF BraceEnd, Opens
<1>3. \A k \in closes : k \in open..(Len(text) - 1) /\ Shuts(text, k) /\ Depth(text, open)[k] = 1
  BY Zenon DEF GroupCloses, Shuts
<1> HIDE DEF closes
<1>4. closes \in SUBSET Nat
  BY <1>1, <1>3
<1>5. Min(closes) \in closes
  BY <1>2, <1>4, LeastIs
<1> DEFINE last == Min(closes)
<1>6. last \in open..(Len(text) - 1) /\ Shuts(text, last) /\ Depth(text, open)[last] = 1
  BY <1>3, <1>5
<1>7. last # open
  BY <1>2, <1>6, Kinds
<1> HIDE DEF last
<1>8. BraceEnd(text, open) = last + 1 /\ (last + 1) - 1 = last
  BY <1>2, <1>6 DEF last
<1> QED  BY <1>1, <1>2, <1>6, <1>7, <1>8

\* Up to its closing brace all of a group is at least one deep in it, and the
\* closing braces before that one are deeper.
LEMMA GroupDepth ==
  ASSUME NEW text \in Seq(Characters), WellNested(text), NEW open, IsGroup(text, open)
  PROVE  /\ \A k \in (open + 1)..(BraceEnd(text, open) - 1) : Depth(text, open)[k] >= 1
         /\ \A k \in (open + 1)..(BraceEnd(text, open) - 2) :
              Shuts(text, k) => Depth(text, open)[k] >= 2
<1> DEFINE end == BraceEnd(text, open)
           depth == Depth(text, open)
           deep == {m \in Nat : open + 1 + m <= end - 1 => depth[open + 1 + m] >= 1}
<1>1. /\ open \in Nat /\ open < Len(text) /\ end \in Nat
      /\ end - 1 \in (open + 1)..(Len(text) - 1) /\ Opens(text, open)
  BY GroupIs
<1>2. /\ depth[open] = 0
      /\ \A k \in (open + 1)..Len(text) : depth[k] = Deeper(text, k - 1, depth[k - 1])
      /\ \A k \in open..Len(text) : depth[k] \in Nat
  <2>1. open \in 0..Len(text)
    BY <1>1
  <2> QED  BY <2>1, DepthIs
<1>3. \A k \in (open + 1)..(end - 2) : Shuts(text, k) => depth[k] # 1
  BY Zenon DEF WellNested
<1> HIDE DEF end, depth
<1>4. 0 \in deep
  <2>1. open + 1 \in (open + 1)..Len(text) /\ (open + 1) - 1 = open
    BY <1>1
  <2>2. depth[open + 1] = Deeper(text, open, 0)
    BY <1>2, <2>1
  <2>3. depth[open + 1] = 1
    BY <1>1, <2>2, DeeperIs
  <2> QED  BY <1>1, <2>3
<1>5. ASSUME NEW m \in Nat, m \in deep PROVE m + 1 \in deep
  <2> DEFINE k == open + 1 + m
  <2>1. SUFFICES ASSUME open + 1 + (m + 1) <= end - 1 PROVE depth[open + 1 + (m + 1)] >= 1
    OBVIOUS
  <2>2. k \in (open + 1)..(end - 2) /\ k + 1 \in (open + 1)..Len(text) /\ (k + 1) - 1 = k
        /\ open + 1 + (m + 1) = k + 1 /\ k \in open..Len(text)
    BY <1>1, <2>1
  <2>3. depth[k] \in Nat /\ depth[k] >= 1
    BY <1>1, <1>2, <1>5, <2>1, <2>2
  <2> HIDE DEF k
  <2>4. depth[k + 1] = Deeper(text, k, depth[k])
    BY <1>2, <2>2
  <2>5. Shuts(text, k) => depth[k] # 1
    BY <1>3, <2>2
  <2>6. depth[k + 1] >= 1
    <3>1. CASE Opens(text, k)
      BY <2>3, <2>4, <3>1, DeeperIs
    <3>2. CASE Shuts(text, k)
      BY <2>3, <2>4, <2>5, <3>2, DeeperIs
    <3>3. CASE ~Opens(text, k) /\ ~Shuts(text, k)
      BY <2>3, <2>4, <3>3, DeeperIs
    <3> QED  BY <3>1, <3>2, <3>3
  <2> QED  BY <2>2, <2>6
<1>6. \A k \in (open + 1)..(end - 1) : depth[k] >= 1
  <2>1. Nat \subseteq deep
    <3> HIDE DEF deep
    <3> QED  BY <1>4, <1>5, NatSetInduction
  <2> SUFFICES ASSUME NEW k \in (open + 1)..(end - 1) PROVE depth[k] >= 1
    OBVIOUS
  <2> DEFINE m == k - open - 1
  <2>2. m \in Nat /\ open + 1 + m = k /\ k <= end - 1
    BY <1>1
  <2>3. m \in deep
    BY <2>1, <2>2
  <2> HIDE DEF m
  <2> QED  BY <2>2, <2>3
<1>7. \A k \in (open + 1)..(end - 2) : Shuts(text, k) => depth[k] >= 2
  <2> SUFFICES ASSUME NEW k \in (open + 1)..(end - 2), Shuts(text, k) PROVE depth[k] >= 2
    OBVIOUS
  <2>1. k \in (open + 1)..(end - 1) /\ k \in open..Len(text)
    BY <1>1
  <2>2. depth[k] \in Nat /\ depth[k] >= 1 /\ depth[k] # 1
    BY <1>2, <1>3, <1>6, <2>1
  <2> QED  BY <2>2
<1> QED  BY <1>6, <1>7 DEF end, depth

\* The depth in a group is what it is outside of one it contains, and inside of that.
LEMMA DepthsAdd ==
  ASSUME NEW text \in Seq(Characters), WellNested(text),
         NEW outer \in 0..Len(text), NEW open, IsGroup(text, open), outer <= open
  PROVE  \A k \in open..(BraceEnd(text, open) - 1) :
           Depth(text, outer)[k] = Depth(text, outer)[open] + Depth(text, open)[k]
<1> DEFINE end == BraceEnd(text, open)
           in == Depth(text, open)
           out == Depth(text, outer)
           adds == {m \in Nat : open + m <= end - 1 => out[open + m] = out[open] + in[open + m]}
<1>1. /\ open \in Nat /\ open < Len(text) /\ end \in Nat
      /\ end - 1 \in (open + 1)..(Len(text) - 1) /\ Opens(text, open)
  BY GroupIs
<1>2. /\ in[open] = 0
      /\ \A k \in (open + 1)..Len(text) : in[k] = Deeper(text, k - 1, in[k - 1])
      /\ \A k \in open..Len(text) : in[k] \in Nat
  <2>1. open \in 0..Len(text)
    BY <1>1
  <2> QED  BY <2>1, DepthIs
<1>3. /\ \A k \in (outer + 1)..Len(text) : out[k] = Deeper(text, k - 1, out[k - 1])
      /\ \A k \in outer..Len(text) : out[k] \in Nat
  BY DepthIs
<1>4. \A k \in (open + 1)..(end - 1) : in[k] >= 1
  BY GroupDepth
<1> HIDE DEF end, in, out
<1>5. out[open] \in Nat
  BY <1>1, <1>3
<1>6. 0 \in adds
  BY <1>1, <1>2, <1>5
<1>7. ASSUME NEW m \in Nat, m \in adds PROVE m + 1 \in adds
  <2> DEFINE k == open + m
  <2>1. SUFFICES ASSUME open + (m + 1) <= end - 1
                 PROVE  out[open + (m + 1)] = out[open] + in[open + (m + 1)]
    OBVIOUS
  <2>2. /\ k \in open..Len(text) /\ k \in outer..Len(text) /\ k <= end - 1
        /\ k + 1 \in (open + 1)..Len(text) /\ k + 1 \in (outer + 1)..Len(text)
        /\ (k + 1) - 1 = k /\ open + (m + 1) = k + 1
        /\ (k = open \/ k \in (open + 1)..(end - 1))
    BY <1>1, <2>1
  <2>3. out[k] = out[open] + in[k] /\ in[k] \in Nat /\ out[k] \in Nat
    BY <1>1, <1>2, <1>3, <1>7, <2>1, <2>2
  <2>4. k = open => Opens(text, k)
    BY <1>1
  <2> HIDE DEF k
  <2>5. in[k + 1] = Deeper(text, k, in[k]) /\ out[k + 1] = Deeper(text, k, out[k])
    BY <1>2, <1>3, <2>2
  <2>6. out[k + 1] = out[open] + in[k + 1]
    <3>1. CASE Opens(text, k)
      BY <1>5, <2>3, <2>5, <3>1, DeeperIs
    <3>2. CASE Shuts(text, k)
      <4>1. k # open
        BY <2>4, <3>2, Kinds
      <4>2. in[k] >= 1
        BY <1>4, <2>2, <4>1
      <4>3. in[k] > 0 /\ out[k] > 0
        BY <1>5, <2>3, <4>2
      <4>4. in[k + 1] = in[k] - 1 /\ out[k + 1] = out[k] - 1
        BY <2>3, <2>5, <3>2, <4>3, DeeperIs
      <4> QED  BY <1>5, <2>3, <4>4
    <3>3. CASE ~Opens(text, k) /\ ~Shuts(text, k)
      BY <2>3, <2>5, <3>3, DeeperIs
    <3> QED  BY <3>1, <3>2, <3>3
  <2> QED  BY <2>2, <2>6
<1>8. \A k \in open..(end - 1) : out[k] = out[open] + in[k]
  <2>1. Nat \subseteq adds
    <3> HIDE DEF adds
    <3> QED  BY <1>6, <1>7, NatSetInduction
  <2> SUFFICES ASSUME NEW k \in open..(end - 1) PROVE out[k] = out[open] + in[k]
    OBVIOUS
  <2> DEFINE m == k - open
  <2>2. m \in Nat /\ open + m = k /\ k <= end - 1
    BY <1>1
  <2>3. m \in adds
    BY <2>1, <2>2
  <2> HIDE DEF m
  <2> QED  BY <2>2, <2>3
<1> QED  BY <1>8 DEF end, in, out

\* Of two groups, one begins behind the other or lies within it, and then nothing
\* in it is only one deep in the other.
LEMMA GroupsNest ==
  ASSUME NEW text \in Seq(Characters), WellNested(text),
         NEW outer, IsGroup(text, outer), NEW open, IsGroup(text, open),
         outer < open, open < BraceEnd(text, outer)
  PROVE  /\ BraceEnd(text, open) < BraceEnd(text, outer)
         /\ \A k \in (open + 1)..(BraceEnd(text, open) - 1) : Depth(text, outer)[k] >= 2
<1> DEFINE end == BraceEnd(text, open)
           last == BraceEnd(text, outer)
           in == Depth(text, open)
           out == Depth(text, outer)
<1>1. /\ open \in Nat /\ open < Len(text) /\ end \in Nat
      /\ end - 1 \in (open + 1)..(Len(text) - 1) /\ Opens(text, open)
  BY GroupIs
<1>2. /\ outer \in Nat /\ outer < Len(text) /\ last \in Nat
      /\ last - 1 \in (outer + 1)..(Len(text) - 1) /\ Shuts(text, last - 1) /\ out[last - 1] = 1
  BY GroupIs
<1>3. open # last - 1
  BY <1>1, <1>2, Kinds
<1>4. open \in (outer + 1)..(last - 1)
  BY <1>1, <1>2
<1>5. out[open] >= 1 /\ out[open] \in Nat
  <2>1. outer \in 0..Len(text) /\ open \in outer..Len(text)
    BY <1>1, <1>2
  <2>2. out[open] \in Nat
    BY <2>1, DepthIs
  <2>3. out[open] >= 1
    BY <1>4, GroupDepth
  <2> QED  BY <2>2, <2>3
<1>6. \A k \in (open + 1)..(end - 1) : out[k] >= 2
  <2> SUFFICES ASSUME NEW k \in (open + 1)..(end - 1) PROVE out[k] >= 2
    OBVIOUS
  <2>1. in[k] >= 1
    BY GroupDepth
  <2>2. k \in open..(end - 1) /\ outer \in 0..Len(text) /\ outer <= open /\ open \in 0..Len(text)
        /\ k \in open..Len(text)
    BY <1>1, <1>2
  <2>3. out[k] = out[open] + in[k]
    BY <2>2, DepthsAdd
  <2>4. in[k] \in Nat
    BY <2>2, DepthIs
  <2> HIDE DEF in, out
  <2> QED  BY <1>5, <2>1, <2>3, <2>4
<1>7. end < last
  <2> HIDE DEF in, out, end, last
  <2>1. SUFFICES ASSUME ~(end < last) PROVE FALSE
    OBVIOUS
  <2>2. last - 1 \in (open + 1)..(end - 1)
    BY <1>1, <1>2, <1>3, <1>4, <2>1
  <2>3. out[last - 1] >= 2
    BY <1>6, <2>2
  <2> QED  BY <1>2, <2>3
<1> QED  BY <1>6, <1>7

\* Where an alternative of a group may end, and where one begins.
Delimiters(text, open) ==
  Commas(text, open, BraceEnd(text, open)) \cup {BraceEnd(text, open) - 1}
Starts(text, open) ==
  {open + 1} \cup {comma + 1 : comma \in Commas(text, open, BraceEnd(text, open))}

\* The commas of a group are those one deep in it.
LEMMA CommasAre ==
  ASSUME NEW text \in Seq(Characters), WellNested(text), NEW open, IsGroup(text, open)
  PROVE  \A k : k \in Commas(text, open, BraceEnd(text, open)) <=>
                  /\ k \in (open + 1)..(BraceEnd(text, open) - 2)
                  /\ Splits(text, k) /\ Depth(text, open)[k] = 1
<1> DEFINE end == BraceEnd(text, open)
           depth == Depth(text, open)
           inner == Depth(text, open + 1)
           less == {m \in Nat : open + 1 + m <= end - 1 =>
                                  depth[open + 1 + m] = inner[open + 1 + m] + 1}
<1>1. /\ open \in Nat /\ open < Len(text) /\ end \in Nat
      /\ end - 1 \in (open + 1)..(Len(text) - 1) /\ Opens(text, open)
  BY GroupIs
<1>2. /\ depth[open] = 0
      /\ \A k \in (open + 1)..Len(text) : depth[k] = Deeper(text, k - 1, depth[k - 1])
      /\ \A k \in open..Len(text) : depth[k] \in Nat
  <2>1. open \in 0..Len(text)
    BY <1>1
  <2> QED  BY <2>1, DepthIs
<1>3. /\ inner[open + 1] = 0
      /\ \A k \in (open + 2)..Len(text) : inner[k] = Deeper(text, k - 1, inner[k - 1])
      /\ \A k \in (open + 1)..Len(text) : inner[k] \in Nat
  <2>1. open + 1 \in 0..Len(text) /\ (open + 1) + 1 = open + 2
    BY <1>1
  <2> QED  BY <2>1, DepthIs
<1>4. \A k \in (open + 1)..(end - 2) : Shuts(text, k) => depth[k] >= 2
  BY GroupDepth
<1>5. \A k : k \in Commas(text, open, end) <=>
               k \in (open + 1)..(end - 2) /\ Splits(text, k) /\ inner[k] = 0
  BY Zenon DEF Commas, Splits
<1> HIDE DEF end, depth, inner
<1>6. 0 \in less
  <2>1. open + 1 \in (open + 1)..Len(text) /\ (open + 1) - 1 = open
    BY <1>1
  <2>2. depth[open + 1] = Deeper(text, open, 0)
    BY <1>2, <2>1
  <2>3. depth[open + 1] = 1
    BY <1>1, <2>2, DeeperIs
  <2> QED  BY <1>1, <1>3, <2>3
<1>7. ASSUME NEW m \in Nat, m \in less PROVE m + 1 \in less
  <2> DEFINE k == open + 1 + m
  <2>1. SUFFICES ASSUME open + 1 + (m + 1) <= end - 1
                 PROVE  depth[open + 1 + (m + 1)] = inner[open + 1 + (m + 1)] + 1
    OBVIOUS
  <2>2. /\ k \in (open + 1)..(end - 2) /\ k \in open..Len(text) /\ k \in (open + 1)..Len(text)
        /\ k + 1 \in (open + 1)..Len(text) /\ k + 1 \in (open + 2)..Len(text)
        /\ (k + 1) - 1 = k /\ open + 1 + (m + 1) = k + 1
    BY <1>1, <2>1
  <2>3. depth[k] = inner[k] + 1 /\ depth[k] \in Nat /\ inner[k] \in Nat
    BY <1>1, <1>2, <1>3, <1>7, <2>1, <2>2
  <2> HIDE DEF k
  <2>4. depth[k + 1] = Deeper(text, k, depth[k]) /\ inner[k + 1] = Deeper(text, k, inner[k])
    BY <1>2, <1>3, <2>2
  <2>5. depth[k + 1] = inner[k + 1] + 1
    <3>1. CASE Opens(text, k)
      BY <2>3, <2>4, <3>1, DeeperIs
    <3>2. CASE Shuts(text, k)
      <4>1. depth[k] >= 2
        BY <1>4, <2>2, <3>2
      <4>2. depth[k] > 0 /\ inner[k] > 0
        BY <2>3, <4>1
      <4>3. depth[k + 1] = depth[k] - 1 /\ inner[k + 1] = inner[k] - 1
        BY <2>3, <2>4, <3>2, <4>2, DeeperIs
      <4> QED  BY <2>3, <4>3
    <3>3. CASE ~Opens(text, k) /\ ~Shuts(text, k)
      BY <2>3, <2>4, <3>3, DeeperIs
    <3> QED  BY <3>1, <3>2, <3>3
  <2> QED  BY <2>2, <2>5
<1>8. ASSUME NEW k \in (open + 1)..(end - 2) PROVE inner[k] = 0 <=> depth[k] = 1
  <2> DEFINE m == k - open - 1
  <2>1. m \in Nat /\ open + 1 + m = k /\ k <= end - 1 /\ k \in (open + 1)..Len(text)
    BY <1>1
  <2>2. Nat \subseteq less
    <3> HIDE DEF less
    <3> QED  BY <1>6, <1>7, NatSetInduction
  <2>3. m \in less
    BY <2>1, <2>2
  <2> HIDE DEF m
  <2>4. depth[k] = inner[k] + 1 /\ inner[k] \in Nat
    BY <1>3, <2>1, <2>3
  <2> QED  BY <2>4
<1>9. \A k : k \in Commas(text, open, end) <=>
               k \in (open + 1)..(end - 2) /\ Splits(text, k) /\ depth[k] = 1
  BY <1>5, <1>8
<1> QED  BY <1>9 DEF end, depth

\* A delimiter is a comma or closing brace one deep in its group.
LEMMA DelimitersAre ==
  ASSUME NEW text \in Seq(Characters), WellNested(text), NEW open, IsGroup(text, open)
  PROVE  \A k \in Delimiters(text, open) :
           /\ k \in (open + 1)..(BraceEnd(text, open) - 1) /\ k \in (open + 1)..(Len(text) - 1)
           /\ Depth(text, open)[k] = 1
           /\ Splits(text, k) \/ Shuts(text, k)
           /\ ~Opens(text, k)
           /\ k # BraceEnd(text, open) - 1 => k \in Commas(text, open, BraceEnd(text, open))
<1> DEFINE end == BraceEnd(text, open)
<1> SUFFICES ASSUME NEW k \in Delimiters(text, open)
             PROVE  /\ k \in (open + 1)..(end - 1) /\ k \in (open + 1)..(Len(text) - 1)
                    /\ Depth(text, open)[k] = 1
                    /\ Splits(text, k) \/ Shuts(text, k)
                    /\ ~Opens(text, k)
                    /\ k # end - 1 => k \in Commas(text, open, end)
  OBVIOUS
<1>1. /\ open \in Nat /\ end \in Nat /\ end - 1 \in (open + 1)..(Len(text) - 1)
      /\ Shuts(text, end - 1) /\ Depth(text, open)[end - 1] = 1
  BY GroupIs
<1>2. k \in Commas(text, open, end) \/ k = end - 1
  BY DEF Delimiters
<1>3. k \in Commas(text, open, end) =>
        k \in (open + 1)..(end - 2) /\ Splits(text, k) /\ Depth(text, open)[k] = 1
  BY CommasAre
<1> HIDE DEF end
<1>4. k \in (open + 1)..(end - 1) /\ k \in (open + 1)..(Len(text) - 1)
  BY <1>1, <1>2, <1>3
<1> QED  BY <1>1, <1>2, <1>3, <1>4, Kinds

\* A group is told by its end, and by each of its delimiters.
LEMMA OneGroup ==
  ASSUME NEW text \in Seq(Characters), WellNested(text),
         NEW open, IsGroup(text, open), NEW other, IsGroup(text, other)
  PROVE  /\ BraceEnd(text, open) = BraceEnd(text, other) => open = other
         /\ Delimiters(text, open) \cap Delimiters(text, other) # {} => open = other
<1>1. ASSUME NEW o, IsGroup(text, o), NEW i, IsGroup(text, i), o < i
      PROVE  /\ BraceEnd(text, o) # BraceEnd(text, i)
             /\ Delimiters(text, o) \cap Delimiters(text, i) = {}
  <2>1. /\ o \in Nat /\ i \in Nat /\ BraceEnd(text, o) \in Nat /\ BraceEnd(text, i) \in Nat
        /\ i < BraceEnd(text, i) - 1
    <3>1. /\ o \in Nat /\ i \in Nat /\ BraceEnd(text, o) \in Nat /\ BraceEnd(text, i) \in Nat
          /\ BraceEnd(text, i) - 1 \in (i + 1)..(Len(text) - 1)
      BY <1>1, GroupIs
    <3> QED  BY <3>1
  <2>2. i < BraceEnd(text, o) =>
          /\ BraceEnd(text, i) < BraceEnd(text, o)
          /\ \A k \in (i + 1)..(BraceEnd(text, i) - 1) : Depth(text, o)[k] >= 2
    BY <1>1, GroupsNest
  <2>3. BraceEnd(text, o) # BraceEnd(text, i)
    BY <2>1, <2>2
  <2>4. SUFFICES ASSUME NEW k \in Delimiters(text, o), k \in Delimiters(text, i) PROVE FALSE
    BY <2>3
  <2>5. k \in (o + 1)..(BraceEnd(text, o) - 1) /\ Depth(text, o)[k] = 1
    BY <1>1, DelimitersAre
  <2>6. k \in (i + 1)..(BraceEnd(text, i) - 1)
    BY <1>1, <2>4, DelimitersAre
  <2>7. i < BraceEnd(text, o)
    BY <2>1, <2>5, <2>6
  <2> QED  BY <2>2, <2>5, <2>6, <2>7
<1>2. open \in Nat /\ other \in Nat
  BY GroupIs
<1>3. open < other \/ other < open \/ open = other
  BY <1>2
<1> QED  BY <1>1, <1>3

\* What find_brace_group_at finds is kept for each index.
LEMMA EndsAre ==
  ASSUME NEW text \in Seq(Characters), NEW k \in 0..Len(text)
  PROVE  /\ EndsOf(text)[k] # 0 <=> IsGroup(text, k)
         /\ IsGroup(text, k) => EndsOf(text)[k] = BraceEnd(text, k)
<1>1. IsGroup(text, k) <=> k < Len(text) /\ BraceEnd(text, k) # 0
  BY DEF IsGroup
<1> QED  BY <1>1 DEF EndsOf

\* The delimiters of a group jump to its end, and nothing else jumps.
LEMMA JumpsLead ==
  ASSUME NEW text \in Seq(Characters), WellNested(text), NEW k \in 0..Len(text)
  PROVE  /\ \A open : IsGroup(text, open) /\ k \in Delimiters(text, open) =>
              JumpsOf(text)[k] = BraceEnd(text, open)
         /\ JumpsOf(text)[k] # 0 =>
              \E open : /\ IsGroup(text, open) /\ k \in Delimiters(text, open)
                        /\ JumpsOf(text)[k] = BraceEnd(text, open)
<1> DEFINE ends == EndsOf(text)
           groups == {open \in 0..(k - 1) :
                        /\ ends[open] > k
                        /\ k \in Commas(text, open, ends[open]) \cup {ends[open] - 1}}
<1>1. JumpsOf(text)[k] = IF k < Len(text) THEN (IF groups = {} THEN 0 ELSE ends[Max(groups)])
                         ELSE 0
  BY DEF JumpsOf, Jump
<1>2. \A open \in 0..(k - 1) : open \in 0..Len(text)
  OBVIOUS
<1>3. ASSUME NEW open \in groups PROVE IsGroup(text, open) /\ k \in Delimiters(text, open)
                                       /\ ends[open] = BraceEnd(text, open)
  <2>1. open \in 0..Len(text) /\ ends[open] > k
    BY <1>2
  <2>2. ends[open] # 0
    BY <2>1
  <2>3. IsGroup(text, open) /\ ends[open] = BraceEnd(text, open)
    BY <2>1, <2>2, EndsAre
  <2> QED  BY <2>3, Zenon DEF Delimiters
<1>4. ASSUME NEW open, IsGroup(text, open), k \in Delimiters(text, open)
      PROVE  open \in groups /\ k < Len(text)
  <2>1. open \in Nat /\ k \in (open + 1)..(BraceEnd(text, open) - 1)
        /\ k \in (open + 1)..(Len(text) - 1) /\ BraceEnd(text, open) \in Nat
    BY <1>4, DelimitersAre, GroupIs
  <2>2. open \in 0..(k - 1) /\ BraceEnd(text, open) > k /\ k < Len(text)
    BY <2>1
  <2>3. ends[open] = BraceEnd(text, open)
    BY <1>2, <1>4, <2>2, EndsAre
  <2> HIDE DEF ends
  <2>4. k \in Commas(text, open, ends[open]) \cup {ends[open] - 1}
    BY <1>4, <2>3, Zenon DEF Delimiters
  <2> QED  BY <2>2, <2>3, <2>4
<1>5. k \in Nat /\ groups \in SUBSET Nat /\ \A open \in groups : open <= k
  OBVIOUS
<1> HIDE DEF groups, ends
<1>6. groups # {} => Max(groups) \in groups
  BY <1>5, GreatestIs
<1>7. ASSUME NEW open, IsGroup(text, open), k \in Delimiters(text, open)
      PROVE  JumpsOf(text)[k] = BraceEnd(text, open)
  <2>1. Max(groups) \in groups /\ k < Len(text) /\ groups # {}
    BY <1>4, <1>6, <1>7
  <2>2. Max(groups) = open
    <3>1. IsGroup(text, Max(groups)) /\ k \in Delimiters(text, Max(groups))
      BY <1>3, <2>1
    <3> QED  BY <1>7, <3>1, OneGroup
  <2> QED  BY <1>1, <1>3, <2>1, <2>2
<1>8. ASSUME JumpsOf(text)[k] # 0
      PROVE  \E open : /\ IsGroup(text, open) /\ k \in Delimiters(text, open)
                       /\ JumpsOf(text)[k] = BraceEnd(text, open)
  <2>1. groups # {} /\ JumpsOf(text)[k] = ends[Max(groups)]
    BY <1>1, <1>8
  <2> QED  BY <1>3, <1>6, <2>1
<1> QED  BY <1>7, <1>8

IsWild(text, k) == At(text, k) = "*" \/ At(text, k) \in Separators

TurnsOf(text, k) == Turns(text, EndsOf(text), JumpsOf(text), k)

Enclosed(text, k) == \E open : IsGroup(text, open) /\ k \in Delimiters(text, open)

\* Where the reading can come from: the end of an alternative, the start of a group,
\* the character before, or a wildcard of more than one character.
LEMMA TurnsLead ==
  ASSUME NEW text \in Seq(Characters), WellNested(text), NEW p \in 0..(Len(text) - 1),
         NEW k, k \in TurnsOf(text, p)
  PROVE  \/ \E open : /\ IsGroup(text, open) /\ p \in Delimiters(text, open)
                      /\ k = BraceEnd(text, open)
         \/ /\ IsGroup(text, p)
            /\ k = p + 1 \/ k - 1 \in Commas(text, p, BraceEnd(text, p))
         \/ k = p + 1 /\ ~IsGroup(text, p) /\ ~Enclosed(text, p)
         \/ k \in {p + 2, p + 3} /\ \A q \in p..(k - 1) : IsWild(text, q)
<1> DEFINE ends == EndsOf(text)
           jump == JumpsOf(text)
<1>1. p \in 0..Len(text) /\ p \in Nat
  OBVIOUS
<1>2. CASE jump[p] # 0
  <2>1. k = jump[p]
    BY <1>2, Zenon DEF TurnsOf, Turns
  <2> QED  BY <1>1, <1>2, <2>1, JumpsLead
<1>3. CASE jump[p] = 0 /\ ends[p] # 0
  <2>1. IsGroup(text, p) /\ ends[p] = BraceEnd(text, p)
    BY <1>1, <1>3, EndsAre
  <2>2. k \in {p + 1} \cup {comma + 1 : comma \in Commas(text, p, ends[p])}
    BY <1>3, Zenon DEF TurnsOf, Turns
  <2>3. \A comma \in Commas(text, p, ends[p]) : comma \in Nat
    <3>1. \A comma \in Commas(text, p, ends[p]) : comma \in (p + 1)..(BraceEnd(text, p) - 2)
      BY <2>1, CommasAre
    <3>2. BraceEnd(text, p) \in Nat
      BY <2>1, GroupIs
    <3> HIDE DEF ends
    <3> QED  BY <1>1, <3>1, <3>2
  <2> HIDE DEF ends
  <2>4. k = p + 1 \/ \E comma \in Commas(text, p, ends[p]) : k = comma + 1
    BY <2>2
  <2>5. k = p + 1 \/ k - 1 \in Commas(text, p, ends[p])
    <3>1. ASSUME NEW comma \in Commas(text, p, ends[p]), k = comma + 1
          PROVE  k - 1 \in Commas(text, p, ends[p])
      <4>1. comma \in Nat
        BY <2>3
      <4>2. k - 1 = comma
        BY <3>1, <4>1
      <4> QED  BY <4>2
    <3> QED  BY <2>4, <3>1
  <2> QED  BY <2>1, <2>5
<1>4. CASE jump[p] = 0 /\ ends[p] = 0
  <2>1. ~IsGroup(text, p)
    BY <1>1, <1>4, EndsAre
  <2>2. ~Enclosed(text, p)
    <3> SUFFICES ASSUME NEW open, IsGroup(text, open), p \in Delimiters(text, open) PROVE FALSE
      BY DEF Enclosed
    <3>1. jump[p] = BraceEnd(text, open)
      BY <1>1, JumpsLead
    <3> QED  BY <1>4, <3>1 DEF IsGroup
  <2>3. k = IF IsDirectory(text, p) THEN p + 3 ELSE IF IsStarStar(text, p) THEN p + 2 ELSE p + 1
    BY <1>4, Zenon DEF TurnsOf, Turns
  <2>4. /\ IsStarStar(text, p) => IsWild(text, p) /\ IsWild(text, p + 1)
        /\ IsDirectory(text, p) => IsStarStar(text, p) /\ IsWild(text, p + 2)
    BY Zenon DEF IsWild, IsDirectory, IsStarStar
  <2>5. CASE IsDirectory(text, p)
    <3>1. k = p + 3 /\ \A q \in p..(k - 1) : q = p \/ q = p + 1 \/ q = p + 2
      BY <1>1, <2>3, <2>5
    <3> QED  BY <2>4, <2>5, <3>1
  <2>6. CASE ~IsDirectory(text, p) /\ IsStarStar(text, p)
    <3>1. k = p + 2 /\ \A q \in p..(k - 1) : q = p \/ q = p + 1
      BY <1>1, <2>3, <2>6
    <3> QED  BY <2>4, <2>6, <3>1
  <2>7. CASE ~IsDirectory(text, p) /\ ~IsStarStar(text, p)
    BY <2>1, <2>2, <2>3, <2>7
  <2> QED  BY <2>5, <2>6, <2>7
<1> QED  BY <1>2, <1>3, <1>4

\* A group branches to its alternatives, and a delimiter leads to its end.
LEMMA Branches ==
  ASSUME NEW text \in Seq(Characters), WellNested(text), NEW open, IsGroup(text, open)
  PROVE  /\ \A start : start \in TurnsOf(text, open) <=> start \in Starts(text, open)
         /\ \A d \in Delimiters(text, open) : TurnsOf(text, d) = {BraceEnd(text, open)}
<1>1. /\ open \in 0..Len(text) /\ Opens(text, open)
  <2>1. open \in Nat /\ open < Len(text) /\ Opens(text, open)
    BY GroupIs
  <2> QED  BY <2>1
<1>2. JumpsOf(text)[open] = 0
  <2> SUFFICES ASSUME NEW other, IsGroup(text, other), open \in Delimiters(text, other)
               PROVE  FALSE
    BY <1>1, JumpsLead
  <2> QED  BY <1>1, DelimitersAre
<1>3. EndsOf(text)[open] # 0 /\ EndsOf(text)[open] = BraceEnd(text, open)
  BY <1>1, EndsAre
<1>4. TurnsOf(text, open) = Starts(text, open)
  BY <1>2, <1>3, Zenon DEF TurnsOf, Turns, Starts
<1>5. ASSUME NEW d \in Delimiters(text, open) PROVE TurnsOf(text, d) = {BraceEnd(text, open)}
  <2>1. d \in 0..Len(text)
    <3>1. d \in (open + 1)..(Len(text) - 1)
      BY DelimitersAre
    <3> QED  BY <1>1, <3>1
  <2>2. JumpsOf(text)[d] = BraceEnd(text, open)
    BY <2>1, JumpsLead
  <2>3. JumpsOf(text)[d] # 0
    BY <2>2 DEF IsGroup
  <2> QED  BY <2>2, <2>3, Zenon DEF TurnsOf, Turns
<1> QED  BY <1>4, <1>5

\* An alternative starts inside of its group.
LEMMA StartsAre ==
  ASSUME NEW text \in Seq(Characters), WellNested(text), NEW open, IsGroup(text, open),
         NEW start \in Starts(text, open)
  PROVE  /\ start \in (open + 1)..(BraceEnd(text, open) - 1)
         /\ start \in 1..Len(text)
         /\ ~Shuts(text, start - 1) /\ ~IsWild(text, start - 1)
         /\ \/ start = open + 1
            \/ start - 1 \in Commas(text, open, BraceEnd(text, open))
<1> DEFINE end == BraceEnd(text, open)
<1>1. /\ open \in Nat /\ end \in Nat /\ end - 1 \in (open + 1)..(Len(text) - 1)
      /\ Opens(text, open)
  BY GroupIs
<1>2. \A k : k \in Commas(text, open, end) => k \in (open + 1)..(end - 2) /\ Splits(text, k)
  BY CommasAre
<1>3. start = open + 1 \/ \E comma \in Commas(text, open, end) : start = comma + 1
  BY DEF Starts
<1>4. \A k : IsWild(text, k) => ~Opens(text, k) /\ ~Splits(text, k)
  BY Kinds, Zenon DEF IsWild
<1> HIDE DEF end
<1>5. CASE start = open + 1
  <2>1. start \in (open + 1)..(end - 1) /\ start \in 1..Len(text) /\ start - 1 = open
    BY <1>1, <1>5
  <2> QED  BY <1>1, <1>4, <1>5, <2>1, Kinds DEF end
<1>6. ASSUME NEW comma \in Commas(text, open, end), start = comma + 1
      PROVE  /\ start \in (open + 1)..(end - 1) /\ start \in 1..Len(text)
             /\ ~Shuts(text, start - 1) /\ ~IsWild(text, start - 1) /\ start - 1 = comma
  <2>1. comma \in (open + 1)..(end - 2) /\ Splits(text, comma)
    BY <1>2
  <2>2. start \in (open + 1)..(end - 1) /\ start \in 1..Len(text) /\ start - 1 = comma
    BY <1>1, <1>6, <2>1
  <2> QED  BY <1>4, <2>1, <2>2, Kinds
<1> QED  BY <1>3, <1>5, <1>6 DEF end

\* An alternative is entered from its group alone.
LEMMA StartEntered ==
  ASSUME NEW text \in Seq(Characters), WellNested(text), NEW open, IsGroup(text, open),
         NEW start \in Starts(text, open), NEW p \in 0..(start - 1)
  PROVE  start \in TurnsOf(text, p) <=> p = open
<1>1. /\ open \in Nat /\ Opens(text, open)
  BY GroupIs
<1>2. /\ start \in 1..Len(text)
      /\ ~Shuts(text, start - 1) /\ ~IsWild(text, start - 1)
      /\ start = open + 1 \/ start - 1 \in Commas(text, open, BraceEnd(text, open))
  BY StartsAre
<1>3. p = open => start \in TurnsOf(text, p)
  BY Branches
<1>4. SUFFICES ASSUME start \in TurnsOf(text, p), p # open PROVE FALSE
  BY <1>3
<1>5. p \in 0..(Len(text) - 1)
  BY <1>2
<1>6. \A other : IsGroup(text, other) =>
        /\ Opens(text, other)
        /\ BraceEnd(text, other) \in Nat /\ Shuts(text, BraceEnd(text, other) - 1)
        /\ \A k \in Commas(text, other, BraceEnd(text, other)) :
             Splits(text, k) /\ k \in Delimiters(text, other)
  BY CommasAre, GroupIs, Zenon DEF Delimiters
<1>7. CASE \E other : /\ IsGroup(text, other) /\ p \in Delimiters(text, other)
                      /\ start = BraceEnd(text, other)
  BY <1>2, <1>6, <1>7
<1>8. CASE IsGroup(text, p) /\ start = p + 1
  <2>1. p = start - 1
    BY <1>2, <1>8
  <2>2. Opens(text, p)
    BY <1>6, <1>8
  <2>3. start # open + 1
    BY <1>1, <1>4, <1>8
  <2>4. Splits(text, p)
    BY <1>2, <1>6, <2>1, <2>3
  <2> QED  BY <2>2, <2>4, Kinds
<1>9. CASE IsGroup(text, p) /\ start - 1 \in Commas(text, p, BraceEnd(text, p))
  <2>1. Splits(text, start - 1) /\ start - 1 \in Delimiters(text, p)
    BY <1>6, <1>9
  <2>2. start # open + 1
    <3>1. start = open + 1 => start - 1 = open
      BY <1>1
    <3> QED  BY <1>1, <2>1, <3>1, Kinds
  <2>3. start - 1 \in Delimiters(text, open)
    BY <1>2, <1>6, <2>2
  <2> QED  BY <1>4, <1>9, <2>1, <2>3, OneGroup
<1>10. CASE start = p + 1 /\ ~IsGroup(text, p) /\ ~Enclosed(text, p)
  <2>1. p = start - 1
    BY <1>2, <1>10
  <2>2. start # open + 1
    BY <1>1, <1>4, <2>1
  <2> QED  BY <1>2, <1>6, <1>10, <2>1, <2>2 DEF Enclosed
<1>11. CASE start \in {p + 2, p + 3} /\ \A q \in p..(start - 1) : IsWild(text, q)
  <2>1. start - 1 \in p..(start - 1)
    BY <1>11
  <2> QED  BY <1>2, <1>11, <2>1
<1> QED  BY <1>4, <1>5, <1>7, <1>8, <1>9, <1>10, <1>11, TurnsLead

\* The end of a group is entered from its delimiters alone.
LEMMA EndEntered ==
  ASSUME NEW text \in Seq(Characters), WellNested(text), NEW open, IsGroup(text, open),
         NEW p \in 0..(BraceEnd(text, open) - 1)
  PROVE  BraceEnd(text, open) \in TurnsOf(text, p) <=> p \in Delimiters(text, open)
<1> DEFINE end == BraceEnd(text, open)
<1>1. /\ end \in Nat /\ end - 1 \in (open + 1)..(Len(text) - 1) /\ open \in Nat
      /\ Shuts(text, end - 1) /\ end - 1 \in Delimiters(text, open)
  BY GroupIs DEF Delimiters
<1>2. p \in Delimiters(text, open) => end \in TurnsOf(text, p)
  BY Branches
<1>3. SUFFICES ASSUME end \in TurnsOf(text, p), p \notin Delimiters(text, open) PROVE FALSE
  BY <1>2
<1>4. \A k : IsWild(text, k) => ~Shuts(text, k)
  BY Kinds, Zenon DEF IsWild
<1>5. p \in 0..(Len(text) - 1)
  BY <1>1
<1>6. CASE \E other : /\ IsGroup(text, other) /\ p \in Delimiters(text, other)
                      /\ end = BraceEnd(text, other)
  BY <1>3, <1>6, OneGroup
<1>7. CASE IsGroup(text, p) /\ end = p + 1
  <2>1. p = end - 1 /\ Opens(text, p)
    BY <1>7, <1>5, GroupIs
  <2> QED  BY <1>1, <2>1, Kinds
<1>8. CASE IsGroup(text, p) /\ end - 1 \in Commas(text, p, BraceEnd(text, p))
  <2>1. Splits(text, end - 1)
    BY <1>8, CommasAre
  <2> QED  BY <1>1, <2>1, Kinds
<1>9. CASE end = p + 1 /\ ~IsGroup(text, p) /\ ~Enclosed(text, p)
  <2>1. p = end - 1
    BY <1>5, <1>9
  <2> QED  BY <1>1, <1>3, <2>1
<1>10. CASE end \in {p + 2, p + 3} /\ \A q \in p..(end - 1) : IsWild(text, q)
  <2>1. end - 1 \in p..(end - 1)
    BY <1>10
  <2> QED  BY <1>1, <1>4, <1>10, <2>1
<1> HIDE DEF end
<1> QED
  <2>1. end \in TurnsOf(text, p)
    BY <1>3
  <2> QED  BY <1>5, <1>6, <1>7, <1>8, <1>9, <1>10, <2>1, TurnsLead

\* Up to its delimiter an alternative is read from within.
LEMMA InsideEntered ==
  ASSUME NEW text \in Seq(Characters), WellNested(text), NEW open, IsGroup(text, open),
         NEW start \in Starts(text, open), NEW k \in (start + 1)..Len(text),
         \A d \in Delimiters(text, open) : d \notin start..(k - 1),
         NEW p \in 0..(k - 1), k \in TurnsOf(text, p)
  PROVE  p >= start
<1> DEFINE end == BraceEnd(text, open)
<1>1. /\ open \in Nat /\ end \in Nat /\ end - 1 \in (open + 1)..(Len(text) - 1)
      /\ Opens(text, open)
  BY GroupIs
<1>2. /\ start \in (open + 1)..(end - 1) /\ start \in 1..Len(text)
      /\ ~Shuts(text, start - 1) /\ ~IsWild(text, start - 1)
      /\ start = open + 1 \/ start - 1 \in Commas(text, open, end)
  BY StartsAre
<1>3. end - 1 \in Delimiters(text, open)
  BY DEF Delimiters
<1>4. start - 1 # open => start - 1 \in Delimiters(text, open) /\ Depth(text, open)[start - 1] = 1
  <2>1. start = open + 1 => start - 1 = open
    BY <1>1
  <2>2. start - 1 \in Commas(text, open, end) =>
          start - 1 \in Delimiters(text, open) /\ Depth(text, open)[start - 1] = 1
    BY CommasAre DEF Delimiters
  <2> QED  BY <1>2, <2>1, <2>2
<1> HIDE DEF end
<1>5. k < end /\ k \in Nat /\ start < k
  <2>1. end - 1 \notin start..(k - 1)
    BY <1>3
  <2> QED  BY <1>1, <1>2, <2>1
<1>6. SUFFICES ASSUME p < start PROVE FALSE
  BY <1>2
\* A group that ends or has a comma at k - 1 and begins before start.
<1>7. ASSUME NEW other, IsGroup(text, other), other < start,
             k - 1 \in Delimiters(text, other)
      PROVE  FALSE
  <2>1. /\ other \in Nat /\ BraceEnd(text, other) \in Nat
        /\ k - 1 \in (other + 1)..(BraceEnd(text, other) - 1)
        /\ Depth(text, other)[k - 1] = 1
    BY <1>7, GroupIs, DelimitersAre
  <2>2. CASE other = open
    <3>1. k - 1 \in start..(k - 1)
      BY <1>2, <1>5
    <3> QED  BY <1>7, <2>2, <3>1
  <2>3. CASE other < open
    <3>1. open < BraceEnd(text, other)
      BY <1>1, <1>2, <1>5, <2>1
    <3>2. \A q \in (open + 1)..(end - 1) : Depth(text, other)[q] >= 2
      BY <1>7, <2>3, <3>1, GroupsNest DEF end
    <3>3. k - 1 \in (open + 1)..(end - 1)
      BY <1>1, <1>2, <1>5
    <3>4. Depth(text, other)[k - 1] >= 2
      BY <3>2, <3>3
    <3> QED  BY <2>1, <3>4
  <2>4. CASE open < other
    <3>1. other < end /\ start - 1 # open /\ start - 1 >= other
      BY <1>1, <1>2, <1>5, <1>7, <2>1, <2>4
    <3>2. \A q \in (other + 1)..(BraceEnd(text, other) - 1) : Depth(text, open)[q] >= 2
      BY <1>7, <2>4, <3>1, GroupsNest DEF end
    <3>3. start - 1 # other
      <4>1. Opens(text, other)
        BY <1>7, GroupIs
      <4>2. ~Opens(text, start - 1)
        BY <1>4, <3>1, DelimitersAre
      <4> QED  BY <4>1, <4>2
    <3>4. start - 1 \in (other + 1)..(BraceEnd(text, other) - 1)
      BY <1>2, <1>5, <2>1, <3>1, <3>3
    <3>5. Depth(text, open)[start - 1] >= 2
      BY <3>2, <3>4
    <3> QED  BY <1>4, <3>1, <3>5
  <2> QED  BY <1>1, <2>1, <2>2, <2>3, <2>4
<1>8. p \in 0..(Len(text) - 1) /\ p \in Nat
  BY <1>2
<1>9. CASE \E other : /\ IsGroup(text, other) /\ p \in Delimiters(text, other)
                      /\ k = BraceEnd(text, other)
  <2>1. PICK other : IsGroup(text, other) /\ p \in Delimiters(text, other)
                     /\ k = BraceEnd(text, other)
    BY <1>9
  <2>2. p \in (other + 1)..(BraceEnd(text, other) - 1) /\ other \in Nat
    BY <2>1, DelimitersAre, GroupIs
  <2>3. k - 1 \in Delimiters(text, other)
    BY <2>1 DEF Delimiters
  <2>4. other < start
    BY <1>2, <1>5, <1>6, <1>8, <2>1, <2>2
  <2> QED  BY <1>7, <2>1, <2>3, <2>4
<1>10. CASE IsGroup(text, p) /\ k - 1 \in Commas(text, p, BraceEnd(text, p))
  <2>1. k - 1 \in Delimiters(text, p)
    BY <1>10 DEF Delimiters
  <2> QED  BY <1>6, <1>7, <1>10, <2>1
<1>11. CASE k = p + 1
  BY <1>2, <1>5, <1>6, <1>8, <1>11
<1>12. CASE k \in {p + 2, p + 3} /\ \A q \in p..(k - 1) : IsWild(text, q)
  <2>1. start - 1 \in p..(k - 1)
    BY <1>2, <1>5, <1>6, <1>8, <1>12
  <2> QED  BY <1>2, <1>12, <2>1
<1> QED
  BY <1>8, <1>9, <1>10, <1>11, <1>12, TurnsLead

--------------------------------------------------------------------------------
(* What a group describes *)

\* The first end of an alternative at or after index k.
DelimiterFrom(text, open, k) == Min({d \in Delimiters(text, open) : d >= k})

\* What a pattern describes with the arrays prepared for it.
Read(text, path) == Described(text, EndsOf(text), JumpsOf(text), path)

\* How far in the path a token, a brace or a comma leads from each place in a set.
Onward(text, path, p, places) ==
  UNION {Ahead(text, EndsOf(text), JumpsOf(text), p, path, from) : from \in places}

Before(text, first, k) == {p \in first..(k - 1) : k \in TurnsOf(text, p)}

\* The places at index k, from those at the indexes since `first` that lead there.
Joined(text, path, first, k, reading) ==
  UNION {Onward(text, path, p, reading[p]) : p \in Before(text, first, k)}

\* The reading that begins at an index of the pattern, at given places of the path:
\* it knows nothing of what comes before that index.
Reading(text, path, first, places) ==
  LET reading[k \in first..Len(text)] ==
        IF k = first THEN places
        ELSE UNION {Onward(text, path, p, reading[p]) : p \in Before(text, first, k)}
  IN  reading

\* The recursion of Reading has a solution.
LEMMA ReadingIs ==
  ASSUME NEW text \in Seq(Characters), NEW path, NEW first \in 0..Len(text), NEW places
  PROVE  LET reading == Reading(text, path, first, places)
         IN  /\ reading[first] = places
             /\ \A k \in (first + 1)..Len(text) :
                  reading[k] = Joined(text, path, first, k, reading)
<1> DEFINE Body(d, k) == IF k = first THEN places
                         ELSE UNION {Onward(text, path, p, d[p]) : p \in Before(text, first, k)}
           Solves(d, m) == d = [k \in first..m |-> Body(d, k)]
           solved == {m \in Nat : \E d : Solves(d, first + m)}
<1>1. ASSUME NEW d, NEW e, NEW k \in Nat, \A p \in first..(k - 1) : d[p] = e[p]
      PROVE  Body(d, k) = Body(e, k)
  <2> DEFINE before == Before(text, first, k)
  <2>1. before \subseteq first..(k - 1)
    BY DEF Before
  <2> HIDE DEF before
  <2>2. {Onward(text, path, p, d[p]) : p \in before} = {Onward(text, path, p, e[p]) : p \in before}
    BY <1>1, <2>1
  <2> QED  BY <2>2 DEF before
<1>2. \A d : Body(d, first) = places
  OBVIOUS
<1> DEFINE it == Reading(text, path, first, places)
<1>3. it = CHOOSE d : Solves(d, Len(text))
  BY DEF Reading
<1>4. \A k \in (first + 1)..Len(text) : Body(it, k) = Joined(text, path, first, k, it)
  BY DEF Joined
<1> HIDE DEF Body
<1>5. 0 \in solved
  <2> DEFINE d == [k \in first..first |-> places]
  <2>1. \A k \in first..first : d[k] = Body(d, k)
    BY <1>2
  <2>2. d = [k \in first..(first + 0) |-> d[k]] /\ first..(first + 0) = first..first
    OBVIOUS
  <2> HIDE DEF d
  <2>3. Solves(d, first + 0)
    BY <2>1, <2>2
  <2> HIDE DEF Solves
  <2> QED  BY <2>3
<1>6. ASSUME NEW m \in Nat, m \in solved PROVE m + 1 \in solved
  <2>1. PICK d : Solves(d, first + m)
    BY <1>6
  <2> DEFINE last == first + (m + 1)
             e == [k \in first..last |-> Body(d, k)]
  <2>2. \A k \in first..(first + m) : d[k] = Body(d, k)
    BY <2>1
  <2>3. \A k \in first..last : e[k] = Body(d, k)
    OBVIOUS
  <2>4. e = [k \in first..last |-> e[k]]
    OBVIOUS
  <2> HIDE DEF e
  <2>5. \A k \in first..(first + m) : e[k] = d[k]
    BY <2>2, <2>3
  <2>6. ASSUME NEW k \in first..last PROVE e[k] = Body(e, k)
    <3>1. k \in Nat /\ \A p \in first..(k - 1) : d[p] = e[p]
      BY <2>5
    <3>2. Body(d, k) = Body(e, k)
      BY <1>1, <3>1
    <3> QED  BY <2>3, <3>2
  <2>7. Solves(e, last)
    BY <2>4, <2>6
  <2> HIDE DEF Solves
  <2> QED  BY <2>7
<1>7. \E d : Solves(d, Len(text))
  <2> HIDE DEF solved
  <2>1. Nat \subseteq solved
    BY <1>5, <1>6, NatSetInduction
  <2>2. Len(text) - first \in solved /\ first + (Len(text) - first) = Len(text)
    BY <2>1
  <2> QED  BY <2>2 DEF solved
<1> HIDE DEF it
<1>8. it = [k \in first..Len(text) |-> Body(it, k)]
  BY <1>3, <1>7
<1>9. \A k \in first..Len(text) : it[k] = Body(it, k)
  BY <1>8
<1>10. it[first] = places /\ \A k \in (first + 1)..Len(text) : it[k] = Body(it, k)
  BY <1>2, <1>9
<1> QED  BY <1>4, <1>10 DEF it

\* What the reading of a whole pattern is at each index.
LEMMA ReadIs ==
  ASSUME NEW text \in Seq(Characters), NEW path
  PROVE  \A k \in 1..Len(text) :
           Read(text, path)[k] = Joined(text, path, 0, k, Read(text, path))
BY DescribedIs DEF Read, Joined, Onward, Before, TurnsOf

\* Braces and commas take nothing of the path.
LEMMA NothingTaken ==
  ASSUME NEW text \in Seq(Characters), WellNested(text), NEW path, NEW open, IsGroup(text, open)
  PROVE  \A p \in {open} \cup Delimiters(text, open) : \A places :
           Onward(text, path, p, places) = places
<1> SUFFICES ASSUME NEW p \in {open} \cup Delimiters(text, open), NEW places
             PROVE  Onward(text, path, p, places) = places
  OBVIOUS
<1>1. p \in 0..Len(text)
  <2>1. open \in Nat /\ open < Len(text)
    BY GroupIs
  <2>2. p \in Delimiters(text, open) => p \in (open + 1)..(Len(text) - 1)
    BY DelimitersAre
  <2> QED  BY <2>1, <2>2
<1>2. JumpsOf(text)[p] # 0 \/ EndsOf(text)[p] # 0
  <2>1. p \in Delimiters(text, open) => JumpsOf(text)[p] = BraceEnd(text, open)
    BY <1>1, JumpsLead
  <2>2. p = open => EndsOf(text)[p] # 0
    BY <1>1, EndsAre
  <2>3. BraceEnd(text, open) # 0
    BY DEF IsGroup
  <2> QED  BY <2>1, <2>2, <2>3
<1>3. \A from : Ahead(text, EndsOf(text), JumpsOf(text), p, path, from) = {from}
  BY <1>2, Zenon DEF Ahead
<1>4. {Ahead(text, EndsOf(text), JumpsOf(text), p, path, from) : from \in places}
        = {{from} : from \in places}
  BY <1>3
<1>5. Onward(text, path, p, places) = UNION {{from} : from \in places}
  BY <1>4, Zenon DEF Onward
<1> QED  BY <1>5

\* An alternative is read from where its group stands.
LEMMA ReadAtStart ==
  ASSUME NEW text \in Seq(Characters), WellNested(text), NEW path, NEW open, IsGroup(text, open),
         NEW start \in Starts(text, open)
  PROVE  Read(text, path)[start] = Read(text, path)[open]
<1>1. start \in 1..Len(text) /\ start \in (open + 1)..(BraceEnd(text, open) - 1) /\ open \in Nat
  BY StartsAre, GroupIs
<1> DEFINE before == Before(text, 0, start)
<1>2. before = {open}
  <2>1. \A p \in 0..(start - 1) : start \in TurnsOf(text, p) <=> p = open
    BY StartEntered
  <2>2. open \in 0..(start - 1)
    BY <1>1
  <2> QED  BY <2>1, <2>2 DEF Before
<1>3. Read(text, path)[start] = UNION {Onward(text, path, p, Read(text, path)[p]) : p \in before}
  BY <1>1, ReadIs DEF Joined
<1> HIDE DEF before
<1>4. Read(text, path)[start] = Onward(text, path, open, Read(text, path)[open])
  BY <1>2, <1>3
<1>5. Onward(text, path, open, Read(text, path)[open]) = Read(text, path)[open]
  <2>1. open \in {open} \cup Delimiters(text, open)
    OBVIOUS
  <2>2. \A p \in {open} \cup Delimiters(text, open) : \A places :
          Onward(text, path, p, places) = places
    BY NothingTaken
  <2> QED  BY <2>1, <2>2, Zenon
<1> QED  BY <1>4, <1>5

\* Behind a group stands what one of its alternatives has read.
LEMMA ReadAtEnd ==
  ASSUME NEW text \in Seq(Characters), WellNested(text), NEW path, NEW open, IsGroup(text, open)
  PROVE  Read(text, path)[BraceEnd(text, open)]
           = UNION {Read(text, path)[d] : d \in Delimiters(text, open)}
<1> DEFINE end == BraceEnd(text, open)
           before == Before(text, 0, end)
<1>1. end \in 1..Len(text) /\ open \in Nat
  <2>1. open \in Nat /\ end \in Nat /\ end - 1 \in (open + 1)..(Len(text) - 1)
    BY GroupIs
  <2> HIDE DEF end
  <2> QED  BY <2>1
<1>2. before = Delimiters(text, open)
  <2>1. \A p \in 0..(end - 1) : end \in TurnsOf(text, p) <=> p \in Delimiters(text, open)
    BY EndEntered
  <2>2. \A p \in Delimiters(text, open) : p \in (open + 1)..(end - 1)
    BY DelimitersAre
  <2> HIDE DEF end
  <2>3. \A p \in Delimiters(text, open) : p \in 0..(end - 1)
    BY <1>1, <2>2
  <2> QED  BY <2>1, <2>3 DEF Before
<1>3. Read(text, path)[end] = UNION {Onward(text, path, p, Read(text, path)[p]) : p \in before}
  <2> HIDE DEF end
  <2> QED  BY <1>1, ReadIs DEF Joined
<1>4. \A p \in Delimiters(text, open) :
        Onward(text, path, p, Read(text, path)[p]) = Read(text, path)[p]
  BY NothingTaken
<1> HIDE DEF before, end
<1>5. {Onward(text, path, p, Read(text, path)[p]) : p \in Delimiters(text, open)}
        = {Read(text, path)[p] : p \in Delimiters(text, open)}
  BY <1>4
<1> QED  BY <1>2, <1>3, <1>5 DEF end

\* Each start of an alternative has its delimiter.
LEMMA DelimiterFromIs ==
  ASSUME NEW text \in Seq(Characters), WellNested(text), NEW open, IsGroup(text, open),
         NEW start \in Starts(text, open)
  PROVE  LET last == DelimiterFrom(text, open, start)
         IN  /\ last \in Delimiters(text, open) /\ last \in start..(Len(text) - 1)
             /\ \A d \in Delimiters(text, open) : d >= start => d >= last
<1> DEFINE behind == {d \in Delimiters(text, open) : d >= start}
           last == DelimiterFrom(text, open, start)
<1>1. \A d \in Delimiters(text, open) : d \in (open + 1)..(Len(text) - 1)
  BY DelimitersAre
<1>2. start \in (open + 1)..(BraceEnd(text, open) - 1) /\ open \in Nat
  BY StartsAre, GroupIs
<1>3. BraceEnd(text, open) - 1 \in behind
  BY <1>2 DEF Delimiters
<1>4. behind \in SUBSET Nat
  BY <1>1, <1>2
<1>5. last \in behind /\ \A d \in behind : last <= d
  <2> HIDE DEF behind
  <2>1. last = Min(behind)
    BY DEF DelimiterFrom, behind
  <2> QED  BY <1>3, <1>4, <2>1, LeastIs
<1> HIDE DEF last
<1>6. last \in Delimiters(text, open) /\ last >= start /\ last \in (open + 1)..(Len(text) - 1)
  BY <1>1, <1>5
<1>7. last \in start..(Len(text) - 1)
  BY <1>2, <1>6
<1>8. ASSUME NEW d \in Delimiters(text, open), d >= start PROVE d >= last
  <2>1. last <= d /\ d \in (open + 1)..(Len(text) - 1)
    BY <1>1, <1>5, <1>8
  <2> QED  BY <1>2, <1>6, <2>1
<1> QED  BY <1>6, <1>7, <1>8 DEF last

\* ... and each delimiter ends the alternative behind the delimiter before it.
LEMMA DelimitersEnd ==
  ASSUME NEW text \in Seq(Characters), WellNested(text), NEW open, IsGroup(text, open),
         NEW d \in Delimiters(text, open)
  PROVE  \E start \in Starts(text, open) : DelimiterFrom(text, open, start) = d
<1> DEFINE end == BraceEnd(text, open)
           marks == {open} \cup {c \in Commas(text, open, end) : c < d}
           start == Max(marks) + 1
<1>1. /\ open \in Nat /\ end \in Nat /\ d \in (open + 1)..(end - 1)
      /\ \A c \in Commas(text, open, end) : c \in (open + 1)..(end - 2)
  BY GroupIs, DelimitersAre, CommasAre
<1>2. \A x \in Delimiters(text, open) :
        x \in (open + 1)..(end - 1) /\ (x # end - 1 => x \in Commas(text, open, end))
  BY DelimitersAre
<1> HIDE DEF end
<1>3. /\ marks \in SUBSET Nat /\ marks # {} /\ d \in Nat /\ \A x \in marks : x <= d /\ x < d
  BY <1>1
<1>4. Max(marks) \in marks /\ \A x \in marks : x <= Max(marks)
  <2> HIDE DEF marks
  <2> QED  BY <1>3, GreatestIs
<1>5. start \in Starts(text, open) /\ start <= d
  <2>1. Max(marks) = open \/ Max(marks) \in Commas(text, open, end)
    BY <1>4
  <2>2. start \in Starts(text, open)
    BY <2>1 DEF Starts, end
  <2>3. Max(marks) \in Nat /\ Max(marks) < d
    BY <1>3, <1>4
  <2> QED  BY <1>3, <2>2, <2>3
<1>6. ASSUME NEW x \in Delimiters(text, open), x >= start PROVE x >= d
  <2>1. SUFFICES ASSUME x < d PROVE FALSE
    BY <1>1, <1>2
  <2>2. x \in Nat /\ x # end - 1
    BY <1>1, <1>2, <2>1
  <2>3. x \in marks
    BY <1>2, <2>1, <2>2
  <2>4. x <= Max(marks) /\ Max(marks) \in Nat
    BY <1>3, <1>4, <2>3
  <2> HIDE DEF marks
  <2> QED  BY <1>6, <2>2, <2>4
<1> DEFINE last == DelimiterFrom(text, open, start)
<1> HIDE DEF marks, start
<1>7. last \in Delimiters(text, open) /\ last \in start..(Len(text) - 1) /\ d >= last
  <2>1. d >= start
    <3>1. start \in (open + 1)..(end - 1)
      BY <1>5, StartsAre DEF end
    <3> QED  BY <1>1, <1>5, <3>1
  <2> QED  BY <1>5, <2>1, DelimiterFromIs
<1> HIDE DEF last
<1>8. last >= start /\ last >= d
  <2>1. last >= start
    <3>1. start \in (open + 1)..(end - 1)
      BY <1>5, StartsAre DEF end
    <3> QED  BY <1>1, <1>7, <3>1
  <2> QED  BY <1>6, <1>7, <2>1
<1>9. last = d
  <2>1. last \in (open + 1)..(end - 1)
    BY <1>2, <1>7
  <2> QED  BY <1>1, <1>7, <1>8, <2>1
<1> QED  BY <1>5, <1>9 DEF last

\* Up to its delimiter an alternative is read as if nothing stood before it.
LEMMA ReadAlternative ==
  ASSUME NEW text \in Seq(Characters), WellNested(text), NEW path, NEW open, IsGroup(text, open),
         NEW start \in Starts(text, open)
  PROVE  \A k \in start..DelimiterFrom(text, open, start) :
           Read(text, path)[k] = Reading(text, path, start, Read(text, path)[open])[k]
<1> DEFINE read == Read(text, path)
           reading == Reading(text, path, start, Read(text, path)[open])
           last == DelimiterFrom(text, open, start)
           same == {m \in Nat : \A k \in start..last : k <= start + m => read[k] = reading[k]}
<1>1. start \in 1..Len(text)
  BY StartsAre
<1>2. last \in start..(Len(text) - 1) /\ \A d \in Delimiters(text, open) : d >= start => d >= last
  BY DelimiterFromIs
<1>3. \A d \in Delimiters(text, open) : d \in Nat
  <2>1. \A d \in Delimiters(text, open) : d \in (open + 1)..(Len(text) - 1)
    BY DelimitersAre
  <2>2. open \in Nat
    BY GroupIs
  <2> QED  BY <2>1, <2>2
<1>4. read[start] = read[open]
  BY ReadAtStart
<1>5. \A k \in 1..Len(text) : read[k] = Joined(text, path, 0, k, read)
  BY ReadIs
<1>6. /\ reading[start] = read[open]
      /\ \A k \in (start + 1)..Len(text) : reading[k] = Joined(text, path, start, k, reading)
  <2>1. start \in 0..Len(text)
    BY <1>1
  <2> QED  BY <2>1, ReadingIs
<1>7. ASSUME NEW k \in (start + 1)..last
      PROVE  Before(text, 0, k) = Before(text, start, k)
  <2>1. k \in (start + 1)..Len(text)
    BY <1>1, <1>2
  <2>2. \A d \in Delimiters(text, open) : d \notin start..(k - 1)
    <3> SUFFICES ASSUME NEW d \in Delimiters(text, open), d \in start..(k - 1) PROVE FALSE
      OBVIOUS
    <3>1. d >= last
      BY <1>1, <1>2, <1>3
    <3> HIDE DEF last
    <3> QED  BY <1>1, <1>2, <1>3, <3>1
  <2>3. \A p \in 0..(k - 1) : k \in TurnsOf(text, p) => p >= start
    BY <2>1, <2>2, InsideEntered
  <2>4. \A p \in 0..(k - 1) : p >= start => p \in start..(k - 1)
    BY <1>1
  <2>5. \A p \in start..(k - 1) : p \in 0..(k - 1)
    BY <1>1
  <2> QED  BY <2>3, <2>4, <2>5 DEF Before
<1> HIDE DEF read, reading, last
<1>8. 0 \in same
  <2>1. \A k \in start..last : k <= start + 0 => k = start
    BY <1>1, <1>2
  <2> QED  BY <1>4, <1>6, <2>1
<1>9. ASSUME NEW m \in Nat, m \in same PROVE m + 1 \in same
  <2>1. SUFFICES ASSUME NEW k \in start..last, k <= start + (m + 1) PROVE read[k] = reading[k]
    OBVIOUS
  <2>2. CASE k = start
    BY <1>4, <1>6, <2>2
  <2>3. CASE k # start
    <3>1. k \in (start + 1)..last /\ k \in 1..Len(text) /\ k \in (start + 1)..Len(text)
      BY <1>1, <1>2, <2>3
    <3> DEFINE before == Before(text, start, k)
    <3>2. \A p \in before : read[p] = reading[p]
      <4>1. \A p \in start..(k - 1) : p \in start..last /\ p <= start + m
        BY <1>1, <1>2, <2>1, <3>1
      <4> QED  BY <1>9, <4>1 DEF Before
    <3>3. reading[k] = UNION {Onward(text, path, p, reading[p]) : p \in before}
      BY <1>6, <3>1 DEF Joined
    <3>4. read[k] = UNION {Onward(text, path, p, read[p]) : p \in before}
      BY <1>5, <1>7, <3>1 DEF Joined
    <3> HIDE DEF before
    <3>5. {Onward(text, path, p, reading[p]) : p \in before}
            = {Onward(text, path, p, read[p]) : p \in before}
      BY <3>2
    <3> QED  BY <3>3, <3>4, <3>5
  <2> QED  BY <2>2, <2>3
<1>10. ASSUME NEW k \in start..last PROVE read[k] = reading[k]
  <2>1. Nat \subseteq same
    <3> HIDE DEF same
    <3> QED  BY <1>8, <1>9, NatSetInduction
  <2> DEFINE m == k - start
  <2>2. m \in Nat /\ k <= start + m
    BY <1>1, <1>2
  <2>3. m \in same
    BY <2>1, <2>2
  <2> HIDE DEF m
  <2> QED  BY <2>2, <2>3
<1> QED  BY <1>10 DEF read, reading, last

\* Braces enclose alternatives (README.md:519): behind a group stands what one of
\* its alternatives has read, and each is read from where the group stands up to
\* its own comma or brace, as if it stood there alone, with the groups within it,
\* for patterns of every length in which each group closes at its partner.
THEOREM GroupsAreAlternatives ==
  ASSUME NEW text \in Seq(Characters), WellNested(text), NEW path \in Seq(Characters),
         NEW open, IsGroup(text, open)
  PROVE  Read(text, path)[BraceEnd(text, open)] =
           UNION {Reading(text, path, start, Read(text, path)[open])
                    [DelimiterFrom(text, open, start)] : start \in Starts(text, open)}
<1> DEFINE read == Read(text, path)
           From(start) == Reading(text, path, start, Read(text, path)[open])
           Last(start) == DelimiterFrom(text, open, start)
<1>1. read[BraceEnd(text, open)] = UNION {read[d] : d \in Delimiters(text, open)}
  BY ReadAtEnd
<1>2. \A start \in Starts(text, open) : read[Last(start)] = From(start)[Last(start)]
  <2> SUFFICES ASSUME NEW start \in Starts(text, open)
               PROVE  read[Last(start)] = From(start)[Last(start)]
    OBVIOUS
  <2>1. Last(start) \in start..Last(start)
    <3>1. Last(start) \in start..(Len(text) - 1) /\ start \in 1..Len(text)
      BY DelimiterFromIs, StartsAre
    <3> HIDE DEF Last
    <3> QED  BY <3>1
  <2> QED  BY <2>1, ReadAlternative
<1>3. \A d \in Delimiters(text, open) : \E start \in Starts(text, open) : Last(start) = d
  BY DelimitersEnd
<1>4. \A start \in Starts(text, open) : Last(start) \in Delimiters(text, open)
  BY DelimiterFromIs
<1> HIDE DEF read, From, Last
<1>5. {read[d] : d \in Delimiters(text, open)}
        = {From(start)[Last(start)] : start \in Starts(text, open)}
  BY <1>2, <1>3, <1>4
<1> QED  BY <1>1, <1>5 DEF read, From, Last

================================================================================
