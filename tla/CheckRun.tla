-------------------------------- MODULE CheckRun --------------------------------
(***************************************************************************)
(* One run of the command line (src/src/main.c run_command and below): the *)
(* changes are read, the configuration is loaded, the policy library       *)
(* (src/src/fs-lint.c) goes over the changes, then the counterpart check   *)
(* (src/src/counterparts.c) goes over changes and rules.  Reports are      *)
(* printed as they are found; the exit status is the worst result.         *)
(*                                                                         *)
(* The repository is read at up to three moments, and another process may  *)
(* replace it between them, if anybody else writes it (tree.shared).       *)
(***************************************************************************)
EXTENDS Integers, Sequences, Output

CONSTANTS Paths,    \* the paths of changes
          Targets,  \* the counterpart targets
          Trees,    \* the states of the repository (see LintVerdict)
          Invalid,  \* the paths that are not normalized
          Modes,    \* the commands: subset of AllModes
          MaxMoves  \* bound: how often another process replaces the tree

AllModes == {"config", "paths", "stdin0", "staged", "base"}
GitModes == {"staged", "base"}

\* The kinds are those fs_lint_check and cli_counterparts_check distinguish; the
\* command line itself only ever builds additions.
Changes == [path : Paths, kind : {"added", "modified", "deleted"}]
\* What a counterpart rule makes of each path.
Mappings == [Paths -> Targets \cup {"no match", "invalid"}]
Configs == [patterned : BOOLEAN, denied : SUBSET Paths, rules : Seq(Mappings)]
Found == {"file", "missing", "error"}
AllTrees == [changes : Seq(Changes), config : Configs,
             present : [Targets -> Found],
             shared : BOOLEAN]   \* somebody else writes the repository

ASSUME TreesAssumption == Trees \subseteq AllTrees
ASSUME ModesAssumption == Modes \subseteq AllModes
ASSUME MovesAssumption == MaxMoves \in Nat
\* A target is a normalized path, neither of the marks of a rule nor "none".
ASSUME TargetsAssumption == {"no match", "invalid", "none"} \cap Targets = {}

VARIABLES mode, tree,
          past,     \* the trees there have been since the start, tree the last of them
          step,     \* where the run is
          changes,  \* the list the run works on
          config,   \* the loaded configuration
          targets,  \* the counterpart files of the snapshot
          change,   \* index into changes
          rule,     \* index into config.rules
          missing,  \* the first missing target of this change, or "none"
          reports,  \* the diagnostics printed
          status    \* the worst result so far, at the end the exit status

vars == <<mode, tree, past, step, changes, config, targets, change, rule,
          missing, reports, status>>

Steps == {"start", "changes", "config", "validate", "policy", "counterparts",
          "rules", "done"}
ErrorCodes == {"input/invalid", "config/invalid", "runtime/allocation",
               "io/counterpart", "stderr"}
Codes == ErrorCodes \cup {"files/new", "files/counterpart"}

Reports == [code : Codes, change : Nat, target : Targets \cup {"none"}]

NoConfig == [patterned |-> FALSE, denied |-> {}, rules |-> <<>>]

Init ==
  /\ mode \in Modes /\ tree \in Trees /\ past = <<tree>>
  /\ step = "start" /\ changes = <<>> /\ config = NoConfig /\ targets = {}
  /\ change = 1 /\ rule = 1 /\ missing = "none"
  /\ reports = <<>> /\ status = 0

Report(code, n, target) == Append(reports, [code |-> code, change |-> n, target |-> target])

\* Report an error and end the run.
Abort(code, n, target) ==
  /\ reports' = Report(code, n, target)
  /\ status' = 2 /\ step' = "done"
  /\ UNCHANGED <<mode, tree, past, changes, config, targets, change, rule, missing>>

Goto(next) ==
  /\ step' = next
  /\ UNCHANGED <<mode, tree, past>>

--------------------------------------------------------------------------------
(* Another process *)

Shared == {other \in Trees : other.shared}

Replace ==
  /\ tree.shared /\ Len(past) <= MaxMoves /\ step # "done"
  /\ tree' \in Shared /\ past' = Append(past, tree')
  /\ UNCHANGED <<mode, step, changes, config, targets, change, rule, missing,
                 reports, status>>

--------------------------------------------------------------------------------
(* run_command, check_paths, check_batch, run_checks *)

Start ==
  /\ step = "start"
  /\ \/ mode = "config" /\ Goto("config") /\ UNCHANGED changes
     \/ mode = "paths" /\ Goto("config") /\ changes' = tree.changes
     \/ mode \in {"stdin0"} \cup GitModes /\ Goto("changes") /\ UNCHANGED changes
  /\ UNCHANGED <<config, targets, change, rule, missing, reports, status>>

\* calloc() of the paths, or the preparation of git's environment.
StartFails ==
  /\ step = "start"
  /\ \/ mode = "paths" /\ Abort("stderr", 0, "none")
     \/ mode \in GitModes /\ Abort("input/invalid", 0, "none")

LoadChanges ==
  /\ step = "changes"
  /\ Goto("config") /\ changes' = tree.changes
  /\ UNCHANGED <<config, targets, change, rule, missing, reports, status>>

LoadChangesFails == step = "changes" /\ Abort("input/invalid", 0, "none")

LoadConfig ==
  /\ step = "config"
  /\ Goto("validate") /\ config' = tree.config
  /\ UNCHANGED <<changes, targets, change, rule, missing, reports, status>>

\* Seeded fault: an unusable configuration is reported but the run goes on.
LoadConfigFailsSoftly ==
  /\ step = "config"
  /\ reports' = Report("config/invalid", 0, "none")
  /\ Goto("validate")
  /\ UNCHANGED <<changes, config, targets, change, rule, missing, status>>

LoadConfigFails == step = "config" /\ Abort("config/invalid", 0, "none")

--------------------------------------------------------------------------------
(* fs_lint_check *)

AnyInvalid == \E n \in DOMAIN changes : changes[n].path \in Invalid

Validate ==
  /\ step = "validate" /\ ~AnyInvalid
  /\ LET nothing == changes = <<>> \/ (~config.patterned /\ config.denied = {})
     IN  Goto(IF nothing THEN "counterparts" ELSE "policy")
  /\ UNCHANGED <<changes, config, targets, change, rule, missing, reports, status>>

ValidateFails ==
  step = "validate" /\ AnyInvalid /\ Abort("input/invalid", 0, "none")

\* The matcher cannot be built.
MatcherFails ==
  /\ step = "validate" /\ ~AnyInvalid /\ config.patterned /\ changes # <<>>
  /\ Abort("runtime/allocation", 0, "none")

\* Seeded fault: every change is judged as if it were an addition.
DeniedAnyKind(n) == changes[n].path \in config.denied

Denied(n) == changes[n].kind = "added" /\ changes[n].path \in config.denied

\* Seeded fault: the loop ends with the first violation.
CheckChangeFirstOnly ==
  /\ step = "policy" /\ change <= Len(changes)
  /\ IF Denied(change)
     THEN reports' = Report("files/new", change, "none") /\ status' = 1
          /\ change' = Len(changes) + 1
     ELSE UNCHANGED <<reports, status>> /\ change' = change + 1
  /\ UNCHANGED <<mode, tree, past, step, changes, config, targets, rule, missing>>

CheckChange ==
  /\ step = "policy" /\ change <= Len(changes)
  /\ IF Denied(change)
     THEN reports' = Report("files/new", change, "none") /\ status' = 1
     ELSE UNCHANGED <<reports, status>>
  /\ change' = change + 1
  /\ UNCHANGED <<mode, tree, past, step, changes, config, targets, rule, missing>>

CheckChangesEnd ==
  /\ step = "policy" /\ change > Len(changes)
  /\ Goto("counterparts") /\ change' = 1
  /\ UNCHANGED <<changes, config, targets, rule, missing, reports, status>>

--------------------------------------------------------------------------------
(* cli_counterparts_check *)

\* Nothing to check: the run ends with the result of the policy.
SkipCounterparts ==
  /\ step = "counterparts" /\ (changes = <<>> \/ config.rules = <<>>)
  /\ Goto("done")
  /\ UNCHANGED <<changes, config, targets, change, rule, missing, reports, status>>

Files == {target \in Targets : tree.present[target] = "file"}

\* Seeded fault: the snapshot is taken when the run begins.
BeginCounterpartsEarlySnapshot ==
  /\ step = "counterparts" /\ changes # <<>> /\ config.rules # <<>>
  /\ Goto("rules") /\ change' = 1 /\ rule' = 1 /\ missing' = "none"
  /\ targets' = IF mode \in GitModes
                THEN {target \in Targets : past[1].present[target] = "file"} ELSE {}
  /\ UNCHANGED <<changes, config, reports, status>>

BeginCounterparts ==
  /\ step = "counterparts" /\ changes # <<>> /\ config.rules # <<>>
  /\ Goto("rules") /\ change' = 1 /\ rule' = 1 /\ missing' = "none"
  /\ targets' = IF mode \in GitModes THEN Files ELSE {}
  /\ UNCHANGED <<changes, config, reports, status>>

SnapshotFails ==
  /\ step = "counterparts" /\ changes # <<>> /\ config.rules # <<>>
  /\ mode \in GitModes
  /\ Abort("input/invalid", 0, "none")

\* inspect_target: the snapshot of git, or stat() in the working tree.
Inspect(target) ==
  IF mode \in GitModes THEN IF target \in targets THEN "file" ELSE "missing"
  ELSE tree.present[target]

InRules == step = "rules" /\ change <= Len(changes)
Mapped == config.rules[rule][changes[change].path]
OnRule == InRules /\ changes[change].kind # "deleted" /\ rule <= Len(config.rules)

NextChange == change' = change + 1 /\ rule' = 1 /\ missing' = "none"

SkipDeleted ==
  /\ InRules /\ changes[change].kind = "deleted"
  /\ NextChange
  /\ UNCHANGED <<mode, tree, past, step, changes, config, targets, reports, status>>

RuleDoesNotMatch ==
  /\ OnRule /\ Mapped = "no match"
  /\ rule' = rule + 1
  /\ UNCHANGED <<mode, tree, past, step, changes, config, targets, change,
                 missing, reports, status>>

RuleTargetInvalid ==
  OnRule /\ Mapped = "invalid" /\ Abort("input/invalid", change, "none")

RuleTargetExists ==
  /\ OnRule /\ Mapped \in Targets /\ Inspect(Mapped) = "file"
  /\ NextChange
  /\ UNCHANGED <<mode, tree, past, step, changes, config, targets, reports, status>>

\* Seeded fault: one missing target is enough to report, whatever comes after.
RuleTargetMissingAtOnce ==
  /\ OnRule /\ Mapped \in Targets /\ Inspect(Mapped) = "missing"
  /\ NextChange
  /\ reports' = Report("files/counterpart", change, Mapped) /\ status' = 1
  /\ UNCHANGED <<mode, tree, past, step, changes, config, targets>>

RuleTargetMissing ==
  /\ OnRule /\ Mapped \in Targets /\ Inspect(Mapped) = "missing"
  /\ rule' = rule + 1
  /\ missing' = IF missing = "none" THEN Mapped ELSE missing
  /\ UNCHANGED <<mode, tree, past, step, changes, config, targets, change,
                 reports, status>>

RuleTargetError ==
  /\ OnRule /\ Mapped \in Targets /\ Inspect(Mapped) = "error"
  /\ Abort("io/counterpart", change, Mapped)

\* Seeded fault: the result of this change replaces the worst one.
RulesEndForgetting ==
  /\ InRules /\ changes[change].kind # "deleted" /\ rule > Len(config.rules)
  /\ NextChange
  /\ IF missing = "none"
     THEN status' = 0 /\ UNCHANGED reports
     ELSE reports' = Report("files/counterpart", change, missing) /\ status' = 1
  /\ UNCHANGED <<mode, tree, past, step, changes, config, targets>>

RulesEnd ==
  /\ InRules /\ changes[change].kind # "deleted" /\ rule > Len(config.rules)
  /\ NextChange
  /\ IF missing = "none"
     THEN UNCHANGED <<reports, status>>
     ELSE reports' = Report("files/counterpart", change, missing) /\ status' = 1
  /\ UNCHANGED <<mode, tree, past, step, changes, config, targets>>

End ==
  /\ step = "rules" /\ change > Len(changes)
  /\ Goto("done")
  /\ UNCHANGED <<changes, config, targets, change, rule, missing, reports, status>>

Finished == step = "done" /\ UNCHANGED vars

Load == \/ Start \/ StartFails \/ LoadChanges \/ LoadChangesFails
        \/ LoadConfig \/ LoadConfigFails

Policy == \/ Validate \/ ValidateFails \/ MatcherFails
          \/ CheckChange \/ CheckChangesEnd

Rules == \/ SkipCounterparts \/ BeginCounterparts \/ SnapshotFails \/ SkipDeleted
         \/ RuleDoesNotMatch \/ RuleTargetInvalid \/ RuleTargetExists
         \/ RuleTargetMissing \/ RuleTargetError \/ RulesEnd \/ End

Next == Load \/ Policy \/ Rules \/ Replace \/ Finished

Spec == Init /\ [][Next]_vars

--------------------------------------------------------------------------------
(* Properties *)

TypeOK ==
  /\ mode \in AllModes /\ step \in Steps
  /\ tree \in AllTrees /\ past \in Seq(AllTrees) /\ changes \in Seq(Changes) /\ config \in Configs
  /\ change \in 1..(Len(changes) + 1) /\ rule \in 1..(Len(config.rules) + 1)
  /\ targets \subseteq Targets /\ missing \in Targets \cup {"none"}
  /\ reports \in Seq(Reports)
  /\ status \in 0..2

IsError(n) == reports[n].code \in ErrorCodes

\* The exit status never says less or more than the diagnostics: 0 is silence,
\* 1 comes with rejected paths only, and 2 with exactly one error, which is the
\* last thing printed (README "Exit codes"; check_policies, run_checks).
ExitMatchesReports ==
  step = "done" =>
    /\ status = 0 <=> reports = <<>>
    /\ status = 2 <=> \E n \in DOMAIN reports : IsError(n)
    /\ \A n \in DOMAIN reports : IsError(n) => n = Len(reports)

NewFileReports == {n \in DOMAIN reports : reports[n].code = "files/new"}

\* The new-file reports are the denied changes among the first few, in order.
ReportedUpTo(last) ==
  /\ {reports[n].change : n \in NewFileReports} = {n \in 1..last : Denied(n)}
  /\ \A m, n \in NewFileReports : m < n => reports[m].change < reports[n].change

\* The policy reports each denied addition once, in the order of the changes,
\* and nothing else, also when the counterpart check stops early after it.
DenialsReportedInOrder ==
  step \in {"counterparts", "rules"} \/ (step = "done" /\ status # 2) =>
    ReportedUpTo(Len(changes))

\* The rules that have a target for a change, in their order.
Matching(n) == {m \in DOMAIN config.rules : config.rules[m][changes[n].path] \in Targets}

IsOrphan(n) ==
  /\ changes[n].kind # "deleted" /\ Matching(n) # {}
  /\ \A m \in Matching(n) : Inspect(config.rules[m][changes[n].path]) # "file"

FirstTarget(n) ==
  LET first == CHOOSE m \in Matching(n) : \A other \in Matching(n) : m <= other
  IN  config.rules[first][changes[n].path]

CounterpartReports == {n \in DOMAIN reports : reports[n].code = "files/counterpart"}

\* The orphans among the first few changes, and what has been reported of them.
Orphans(last) ==
  {[change |-> n, target |-> FirstTarget(n)] : n \in {m \in 1..last : IsOrphan(m)}}
ReportedOrphans ==
  {[change |-> reports[n].change, target |-> reports[n].target] : n \in CounterpartReports}

\* Nobody disturbs the reading of the targets.
Undisturbed == ~tree.shared \/ mode \in GitModes

\* A change is reported when and only when every matching rule misses its
\* target in the snapshot, with the target of the first matching rule; the
\* snapshot of git cannot change under the check, a working tree can.
OrphansReported ==
  step = "done" /\ status # 2 /\ Undisturbed => ReportedOrphans = Orphans(Len(changes))

\* What the changes are held against is read target by target, or from git at once:
\* the targets as a run may see them that looks at them at some moment after the jth.
Sights(j) ==
  {view \in [Targets -> Found] :
     \A target \in Targets :
       \E k \in j..Len(past) : view[target] = past[k].present[target]}
Snapshots(j) == {past[k].present : k \in j..Len(past)}

\* No target of a change is a file.
Lonely(view, n) ==
  /\ changes[n].kind # "deleted" /\ Matching(n) # {}
  /\ \A m \in Matching(n) : view[config.rules[m][changes[n].path]] # "file"

Rejected == {reports[k].change : k \in CounterpartReports}

\* Also where somebody writes the repository under the run, what it says was so: the
\* changes are those of one moment, the configuration that of the same or a later one,
\* and a change is rejected, or let through, because of targets as they were since:
\* in git all at one moment, in the working tree each when it was looked at.  Nothing
\* is a leftover of an earlier moment, or of another change (main.c run_checks).
ReportsHadCause ==
  step = "done" /\ status # 2 =>
    \E i \in DOMAIN past : \E j \in i..Len(past) :
      /\ changes = IF mode = "config" THEN <<>> ELSE past[i].changes
      /\ config = past[j].config
      /\ IF mode \in GitModes
         THEN \E view \in Snapshots(j) : Rejected = {n \in DOMAIN changes : Lonely(view, n)}
         ELSE \A n \in DOMAIN changes :
                \E view \in Sights(j) : n \in Rejected <=> Lonely(view, n)

\* An exit status only gets worse, what is printed stays printed, and nothing
\* is printed after an error.
ReportsOnlyGrow ==
  [][ /\ status' >= status
      /\ Len(reports') >= Len(reports)
      /\ \A n \in DOMAIN reports : reports'[n] = reports[n]
      /\ status = 2 => UNCHANGED reports ]_vars

\* With nobody else writing, the run as a whole is one judgement of one tree; a
\* shared repository has no one state that a run could be held to.
Judged == [changes |-> IF mode = "config" THEN <<>> ELSE tree.changes,
           config |-> tree.config, present |-> tree.present]

NoTree == [changes |-> <<>>, config |-> NoConfig, present |-> <<>>]

Verdict == INSTANCE LintVerdict WITH
  tree <- IF tree.shared THEN NoTree ELSE Judged,
  verdict <- IF step = "done" /\ ~tree.shared THEN status ELSE 3
ImplementsVerdict == Verdict!Spec

\* Whatever bytes the path of a diagnostic has, what is printed of it stays on its
\* line, is UTF-8, and in the text format can be read back; in JSON, where a byte
\* that is not UTF-8 looks like a character, a well-formed path can
\* (cli_output.c write_utf8_string).
PrintedFaithfully == \A n \in DOMAIN reports : Unfaithful = {}

================================================================================
