------------------------------- MODULE MCCheckRun -------------------------------
(***************************************************************************)
(* CheckRun on every tree with up to two changes, up to two counterpart    *)
(* rules and two targets in each state, and on trees that another process  *)
(* replaces by one another during the run.                                 *)
(***************************************************************************)
EXTENDS CheckRun, SequencesExt

MCPaths == {"p", "q", "r"}   \* "r" is not normalized
MCTargets == {"t", "u"}

Rule(p, q) ==
  [path \in MCPaths |-> CASE path = "p" -> p [] path = "q" -> q [] OTHER -> "t"]

MCChanges == [path : {"p", "q"}, kind : {"added", "modified", "deleted"}]
MCRules == {Rule("t", "no match"), Rule("u", "t"), Rule("invalid", "u")}
MCConfigs == [patterned : {FALSE}, denied : {{}, MCPaths}, rules : BoundedSeq(MCRules, 2)]
           \cup [patterned : {TRUE}, denied : {{}, {"p"}}, rules : BoundedSeq(MCRules, 2)]

\* Every tree with up to two changes, which nobody else writes.
OwnTrees == [changes : BoundedSeq(MCChanges, 2), config : MCConfigs,
             present : [MCTargets -> {"file", "missing", "error"}], shared : {FALSE}]

\* Trees that differ in the list, the configuration and the files.
Addition(path) == [path |-> path, kind |-> "added"]

SharedTrees ==
  [changes : {<<Addition("p")>>, <<Addition("q"), Addition("p")>>,
              <<Addition("p"), Addition("r")>>},
   config : {[patterned |-> TRUE, denied |-> {"p"}, rules |-> <<Rule("no match", "t")>>],
             [patterned |-> FALSE, denied |-> {},
              rules |-> <<Rule("t", "no match"), Rule("u", "t")>>]},
   present : {[t |-> "file", u |-> "missing"], [t |-> "missing", u |-> "file"],
              [t |-> "missing", u |-> "missing"]},
   shared : {TRUE}]

MCTrees == OwnTrees \cup SharedTrees

--------------------------------------------------------------------------------
(* What Report prints of a path *)

\* The bytes at the borders of the ranges of UTF-8, and those with an escape.
Bytes == {1, 9, 34, 92, 97, 127, 128, 143, 144, 159, 160, 191, 193, 194, 224, 237, 240, 244, 245}
MCTexts == BoundedSeq(Bytes, 3)
      \cup {<<lead>> \o rest : lead \in {240, 241, 244, 245}, rest \in [1..3 -> Bytes]}

================================================================================
