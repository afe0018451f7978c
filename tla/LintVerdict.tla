------------------------------ MODULE LintVerdict ------------------------------
(***************************************************************************)
(* What one run of fs-lint promises about one state of the repository: the *)
(* exit status 0 or 1 is the judgement of that state, and anything that    *)
(* kept the run from judging it is exit status 2.                          *)
(*                                                                         *)
(* A tree is what the run looks at (the index, HEAD or the working tree):  *)
(*   tree.changes   the paths to check, in order, each with its kind       *)
(*   tree.config    [patterned, denied, rules]: whether there are allow    *)
(*                  patterns, the paths the patterns and the default deny, *)
(*                  and the counterpart rules, each a function from paths  *)
(*                  to a target, "no match" or "invalid"                   *)
(*   tree.present   what is found at each target: "file", "missing" or     *)
(*                  "error"                                                *)
(***************************************************************************)
EXTENDS Integers, Sequences

CONSTANT Targets

VARIABLES tree, verdict

Undecided == 3

DeniedAddition(config, change) ==
  change.kind = "added" /\ change.path \in config.denied

RuleTargets(config, change) ==
  {config.rules[n][change.path] : n \in DOMAIN config.rules} \cap Targets

\* A selected file whose matching rules have no existing target.
Orphan(t, change) ==
  /\ change.kind # "deleted"
  /\ RuleTargets(t.config, change) # {}
  /\ \A target \in RuleTargets(t.config, change) : t.present[target] # "file"

Judge(t) ==
  IF \E n \in DOMAIN t.changes : \/ DeniedAddition(t.config, t.changes[n])
                                 \/ Orphan(t, t.changes[n])
  THEN 1 ELSE 0

Init == verdict = Undecided

Decide ==
  /\ verdict = Undecided
  /\ verdict' \in {Judge(tree), 2}
  /\ UNCHANGED tree

Spec == Init /\ [][Decide]_<<tree, verdict>>

================================================================================
