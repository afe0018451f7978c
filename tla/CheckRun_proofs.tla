---------------------------- MODULE CheckRun_proofs ----------------------------
(***************************************************************************)
(* The exit status agrees with the diagnostics, which only grow, the       *)
(* policy reports the denied additions in order, and the counterpart check *)
(* reports the orphans, for every list of changes, every set of rules, and *)
(* any number of replacements of the repository during the run; and every  *)
(* path is printed faithfully.                                             *)
(***************************************************************************)
EXTENDS CheckRun, SequenceTheorems, NaturalsInduction, WellFoundedInduction, TLAPS

--------------------------------------------------------------------------------
(* The inductive invariant *)

\* What makes ExitMatchesReports and DenialsReportedInOrder inductive: they hold
\* for the part of the run that is over, and an error ends the run.
ReportsExplainStatus ==
  /\ status = 0 <=> reports = <<>>
  /\ status = 2 <=> \E n \in DOMAIN reports : IsError(n)
  /\ \A n \in DOMAIN reports : IsError(n) => n = Len(reports)
  /\ status = 2 => step = "done"
  /\ step \in {"start", "changes", "config", "validate"} => reports = <<>>

DenialsReportedSoFar ==
  /\ step = "policy" => ReportedUpTo(change - 1)
  /\ step \in {"start", "changes", "config", "validate"} => change = 1 /\ rule = 1

IInv ==
  /\ TypeOK
  /\ ReportsExplainStatus
  /\ DenialsReportedSoFar
  /\ DenialsReportedInOrder

\* For OrphansReported: what the loops over changes and rules have established.
ScannedSoFar ==
  change <= Len(changes) =>
    /\ \A m \in Matching(change) :
         m < rule => Inspect(config.rules[m][changes[change].path]) # "file"
    /\ missing = "none" => \A m \in Matching(change) : m >= rule
    /\ missing # "none" =>
         /\ changes[change].kind # "deleted" /\ Matching(change) # {}
         /\ missing = FirstTarget(change)

OrphansSoFar ==
  /\ step \notin {"rules", "done"} => CounterpartReports = {}
  /\ step = "rules" /\ Undisturbed =>
       ReportedOrphans = Orphans(change - 1) /\ ScannedSoFar
  /\ step = "done" /\ status # 2 /\ Undisturbed =>
       ReportedOrphans = Orphans(Len(changes))

\* For the refinement of LintVerdict: with nobody else writing, whatever the
\* run has read at its three moments is the one tree.
ReadsTheTree ==
  ~tree.shared =>
    /\ step \in {"start", "changes"} => changes = <<>>
    /\ step = "changes" => mode # "config"
    /\ step \notin {"start", "changes"} /\ status # 2 => changes = Judged.changes
    /\ step \notin {"start", "changes", "config"} /\ status # 2 => config = tree.config
    /\ step \in {"rules", "done"} /\ status # 2 /\ mode \in GitModes =>
         targets = Files \/ changes = <<>> \/ config.rules = <<>>

--------------------------------------------------------------------------------
LEMMA TypesOfTree ==
  ASSUME NEW t \in AllTrees
  PROVE  t.changes \in Seq(Changes) /\ t.config \in Configs
BY DEF AllTrees

LEMMA TypesOfConfig ==
  ASSUME NEW c \in Configs
  PROVE  c.rules \in Seq(Mappings) /\ Len(c.rules) \in Nat
<1>1. c.rules \in Seq(Mappings)
  BY DEF Configs
<1> QED  BY <1>1

LEMMA InitIInv == Init => IInv
<1> SUFFICES ASSUME Init PROVE IInv
  OBVIOUS
<1> USE DEF Init
<1>1. NoConfig \in Configs /\ NoConfig.rules = <<>>
  BY DEF NoConfig, Configs
<1>2. TypeOK
  BY <1>1, TreesAssumption, ModesAssumption DEF TypeOK, Steps
<1>3. ReportsExplainStatus
  BY DEF ReportsExplainStatus
<1>4. DenialsReportedSoFar /\ DenialsReportedInOrder
  BY DEF DenialsReportedSoFar, DenialsReportedInOrder
<1> QED  BY <1>2, <1>3, <1>4 DEF IInv

\* What appending one diagnostic does to the list of them.
LEMMA ReportAppends ==
  ASSUME NEW list \in Seq(Reports), NEW report \in Reports,
         NEW longer, longer = Append(list, report)
  PROVE  /\ longer \in Seq(Reports)
         /\ Len(longer) = Len(list) + 1 /\ Len(list) \in Nat
         /\ DOMAIN longer = 1..(Len(list) + 1) /\ DOMAIN list = 1..Len(list)
         /\ longer[Len(list) + 1] = report
         /\ \A n \in DOMAIN list : longer[n] = list[n]
OBVIOUS

\* An error ends the run with status 2 and is the last diagnostic.
LEMMA AbortIInv ==
  ASSUME IInv, step # "done", NEW code \in ErrorCodes, NEW n \in Nat,
         NEW target \in Targets \cup {"none"}, Abort(code, n, target)
  PROVE  IInv'
<1> DEFINE report == [code |-> code, change |-> n, target |-> target]
<1> USE DEF Abort, IInv
<1>1. report \in Reports
  BY DEF Reports, Codes
<1>2. /\ reports' \in Seq(Reports) /\ Len(reports') = Len(reports) + 1
      /\ Len(reports) \in Nat
      /\ DOMAIN reports' = 1..(Len(reports) + 1) /\ DOMAIN reports = 1..Len(reports)
      /\ reports'[Len(reports) + 1] = report
      /\ \A m \in DOMAIN reports : reports'[m] = reports[m]
  BY <1>1, ReportAppends DEF Report, TypeOK
<1>3. TypeOK'
  BY <1>2 DEF TypeOK, Steps
<1>4. ReportsExplainStatus'
  <2>1. \A m \in DOMAIN reports : ~IsError(m) /\ reports'[m].code \notin ErrorCodes
    BY <1>2 DEF ReportsExplainStatus, IsError
  <2>2. reports'[Len(reports) + 1].code \in ErrorCodes
    BY <1>2
  <2> QED  BY <1>2, <2>1, <2>2 DEF ReportsExplainStatus, IsError
<1>5. DenialsReportedSoFar' /\ DenialsReportedInOrder'
  BY DEF DenialsReportedSoFar, DenialsReportedInOrder
<1> QED  BY <1>3, <1>4, <1>5

\* A rejected path raises the status to 1 and lets the run go on.
LEMMA RejectionExplainsStatus ==
  ASSUME IInv, step \in {"policy", "rules"}, step' = step, status' = 1,
         NEW report \in Reports, report.code \notin ErrorCodes,
         reports' = Append(reports, report)
  PROVE  ReportsExplainStatus'
<1>1. /\ Len(reports') = Len(reports) + 1 /\ Len(reports) \in Nat
      /\ DOMAIN reports' = 1..(Len(reports) + 1) /\ DOMAIN reports = 1..Len(reports)
      /\ reports'[Len(reports) + 1] = report
      /\ \A n \in DOMAIN reports : reports'[n] = reports[n]
  BY ReportAppends DEF IInv, TypeOK
<1>2. \A n \in DOMAIN reports' : ~IsError(n)'
  BY <1>1 DEF IInv, ReportsExplainStatus, IsError
<1> QED  BY <1>1, <1>2 DEF ReportsExplainStatus

\* A step that prints nothing.
LEMMA SilentIInv ==
  ASSUME IInv, TypeOK', UNCHANGED <<reports, status>>,
         step = "done" => step' = "done",
         step' \in {"start", "changes", "config", "validate"} =>
           step \in {"start", "changes", "config", "validate"},
         DenialsReportedSoFar', DenialsReportedInOrder'
  PROVE  IInv'
<1>1. ReportsExplainStatus'
  BY DEF IInv, ReportsExplainStatus, IsError
<1> QED  BY <1>1 DEF IInv

\* The reports on new files do not depend on anything else that changes.
LEMMA ReportedUpToStays ==
  ASSUME UNCHANGED <<reports, changes, config>>, NEW last
  PROVE  ReportedUpTo(last)' <=> ReportedUpTo(last)
BY DEF ReportedUpTo, NewFileReports, Denied

\* Without a denied addition there is nothing to report.
LEMMA NothingDenied ==
  ASSUME reports = <<>>, NEW last, \A n \in 1..last : ~Denied(n)
  PROVE  ReportedUpTo(last)
BY DEF ReportedUpTo, NewFileReports

LEMMA LoadIInv == IInv /\ Load => IInv'
<1> SUFFICES ASSUME IInv, Load PROVE IInv'
  OBVIOUS
<1>0. tree.changes \in Seq(Changes) /\ tree.config \in Configs
  BY TypesOfTree DEF IInv, TypeOK
<1>1. CASE Start
  <2> USE <1>1 DEF Start, Goto
  <2>1. step = "start" /\ change = 1 /\ rule = 1 /\ step' \in {"config", "changes"}
    BY DEF IInv, DenialsReportedSoFar
  <2>2. changes' \in Seq(Changes)
    BY <1>0 DEF IInv, TypeOK
  <2>3. TypeOK'
    BY <2>1, <2>2 DEF IInv, TypeOK, Steps
  <2>4. DenialsReportedSoFar' /\ DenialsReportedInOrder'
    BY <2>1 DEF DenialsReportedSoFar, DenialsReportedInOrder
  <2> QED  BY <2>1, <2>3, <2>4, SilentIInv
<1>2. CASE StartFails
  BY <1>2, AbortIInv DEF StartFails, ErrorCodes
<1>3. CASE LoadChanges
  <2> USE <1>3 DEF LoadChanges, Goto
  <2>1. step = "changes" /\ change = 1 /\ rule = 1 /\ step' = "config"
    BY DEF IInv, DenialsReportedSoFar
  <2>2. TypeOK'
    BY <1>0, <2>1 DEF IInv, TypeOK, Steps
  <2>3. DenialsReportedSoFar' /\ DenialsReportedInOrder'
    BY <2>1 DEF DenialsReportedSoFar, DenialsReportedInOrder
  <2> QED  BY <2>1, <2>2, <2>3, SilentIInv
<1>4. CASE LoadChangesFails
  BY <1>4, AbortIInv DEF LoadChangesFails, ErrorCodes
<1>5. CASE LoadConfig
  <2> USE <1>5 DEF LoadConfig, Goto
  <2>1. step = "config" /\ change = 1 /\ rule = 1 /\ step' = "validate"
    BY DEF IInv, DenialsReportedSoFar
  <2>2. Len(config'.rules) \in Nat
    BY <1>0, TypesOfConfig
  <2>3. rule' \in 1..(Len(config'.rules) + 1)
    BY <2>1, <2>2
  <2>4. TypeOK'
    BY <1>0, <2>1, <2>3 DEF IInv, TypeOK, Steps
  <2>5. DenialsReportedSoFar' /\ DenialsReportedInOrder'
    BY <2>1 DEF DenialsReportedSoFar, DenialsReportedInOrder
  <2> QED  BY <2>1, <2>4, <2>5, SilentIInv
<1>6. CASE LoadConfigFails
  BY <1>6, AbortIInv DEF LoadConfigFails, ErrorCodes
<1> QED  BY <1>1, <1>2, <1>3, <1>4, <1>5, <1>6 DEF Load

LEMMA ValidateIInv == IInv /\ Validate => IInv'
<1> SUFFICES ASSUME IInv, Validate PROVE IInv'
  OBVIOUS
<1> USE DEF Validate, Goto
<1>1. /\ step = "validate" /\ change = 1 /\ rule = 1 /\ reports = <<>>
      /\ step' \in {"counterparts", "policy"}
  BY DEF IInv, DenialsReportedSoFar, ReportsExplainStatus
<1>2. TypeOK'
  BY <1>1 DEF IInv, TypeOK, Steps
<1>3. step' = "counterparts" => changes = <<>> \/ config.denied = {}
  OBVIOUS
<1>4. step' = "counterparts" => ReportedUpTo(Len(changes))
  BY <1>1, <1>3, NothingDenied DEF Denied
<1>5. ReportedUpTo(0)
  BY <1>1, NothingDenied
<1>6. DenialsReportedSoFar'
  BY <1>1, <1>5, ReportedUpToStays DEF DenialsReportedSoFar
<1>7. DenialsReportedInOrder'
  BY <1>1, <1>4, ReportedUpToStays DEF DenialsReportedInOrder
<1> QED  BY <1>1, <1>2, <1>6, <1>7, SilentIInv

\* One more change is judged: its report, if it is denied, comes last.
LEMMA CheckChangeIInv == IInv /\ CheckChange => IInv'
<1> SUFFICES ASSUME IInv, CheckChange PROVE IInv'
  OBVIOUS
<1> USE DEF CheckChange, IInv
<1> DEFINE report == [code |-> "files/new", change |-> change, target |-> "none"]
<1>1. /\ change \in Nat /\ change >= 1 /\ change <= Len(changes) /\ Len(changes) \in Nat
      /\ step = "policy" /\ step' = "policy" /\ change' = change + 1
      /\ ReportedUpTo(change - 1)
      /\ UNCHANGED <<mode, tree, past, step, changes, config, targets, rule, missing>>
  BY DEF TypeOK, DenialsReportedSoFar
<1> PICK here \in Nat : here = change
  BY <1>1
<1>2. DenialsReportedInOrder'
  BY <1>1 DEF DenialsReportedInOrder
<1>3. 1..change = 1..(change - 1) \cup {change}
  BY <1>1
<1>4. CASE ~Denied(change)
  <2>1. TypeOK'
    BY <1>1, <1>4 DEF TypeOK
  <2>2. ReportedUpTo(here)
    BY <1>1, <1>3, <1>4 DEF ReportedUpTo
  <2>3. ReportedUpTo(here)'
    BY <1>1, <1>4, <2>2, ReportedUpToStays
  <2>4. DenialsReportedSoFar'
    BY <1>1, <2>3 DEF DenialsReportedSoFar, ReportedUpTo
  <2> QED  BY <1>1, <1>2, <1>4, <2>1, <2>4, SilentIInv
<1>5. CASE Denied(change)
  <2>1. /\ report \in Reports /\ report.code \notin ErrorCodes
        /\ reports' = Append(reports, report) /\ status' = 1
    BY <1>1, <1>5 DEF Reports, Codes, ErrorCodes, Report
  <2>2. /\ reports' \in Seq(Reports) /\ Len(reports) \in Nat
        /\ DOMAIN reports' = 1..(Len(reports) + 1) /\ DOMAIN reports = 1..Len(reports)
        /\ reports'[Len(reports) + 1] = report
        /\ \A n \in DOMAIN reports : reports'[n] = reports[n]
    BY <2>1, ReportAppends DEF TypeOK
  <2>3. TypeOK'
    <3> HIDE DEF CheckChange
    <3>1. change' \in 1..(Len(changes') + 1)
      BY <1>1
    <3>2. status' \in 0..2
      BY <2>1
    <3> QED  BY <1>1, <2>2, <3>1, <3>2 DEF TypeOK
  <2>4. ReportsExplainStatus'
    BY <1>1, <2>1, RejectionExplainsStatus
  <2>5. ReportedUpTo(here)'
    <3> DEFINE old == NewFileReports
               last == Len(reports) + 1
    <3>1. NewFileReports' = old \cup {last}
      BY <2>2 DEF NewFileReports
    <3>2. \A n \in old : n \in DOMAIN reports /\ reports'[n] = reports[n] /\ n < last
      BY <2>2 DEF NewFileReports
    <3>3. /\ {reports[n].change : n \in old} = {n \in 1..(change - 1) : Denied(n)}
          /\ \A m, n \in old : m < n => reports[m].change < reports[n].change
      BY <1>1 DEF ReportedUpTo
    <3>4. \A n : Denied(n)' <=> Denied(n)
      BY DEF Denied
    <3>5. {reports'[n].change : n \in old \cup {last}} = {n \in 1..change : Denied(n)}
      <4>1. {reports'[n].change : n \in old \cup {last}}
              = {reports[n].change : n \in old} \cup {change}
        BY <2>2, <3>2
      <4> QED  BY <1>3, <1>5, <3>3, <4>1
    <3>6. \A n \in old : reports[n].change \in 1..(change - 1)
      BY <3>3
    <3>7. \A m, n \in old \cup {last} : m < n => reports'[m].change < reports'[n].change
      BY <1>1, <2>2, <3>2, <3>3, <3>6
    <3> HIDE DEF old, last, CheckChange
    <3>8. {reports'[n].change : n \in NewFileReports'} = {n \in 1..here : Denied(n)'}
      BY <3>1, <3>4, <3>5
    <3> QED  BY <3>1, <3>7, <3>8 DEF ReportedUpTo
  <2>6. DenialsReportedSoFar'
    BY <1>1, <2>5 DEF DenialsReportedSoFar, ReportedUpTo
  <2> QED  BY <1>2, <2>3, <2>4, <2>6
<1> QED  BY <1>4, <1>5

LEMMA PolicyIInv == IInv /\ Policy => IInv'
<1> SUFFICES ASSUME IInv, Policy PROVE IInv'
  OBVIOUS
<1>1. CASE ValidateFails
  BY <1>1, AbortIInv DEF ValidateFails, ErrorCodes
<1>2. CASE MatcherFails
  BY <1>2, AbortIInv DEF MatcherFails, ErrorCodes
<1>3. CASE CheckChangesEnd
  <2> USE <1>3 DEF CheckChangesEnd, Goto
  <2>1. /\ step = "policy" /\ step' = "counterparts" /\ change' = 1
        /\ change - 1 = Len(changes) /\ Len(changes) \in Nat
    BY DEF IInv, TypeOK
  <2>2. TypeOK'
    BY <2>1 DEF IInv, TypeOK, Steps
  <2>3. ReportedUpTo(Len(changes))
    BY <2>1 DEF IInv, DenialsReportedSoFar
  <2>4. DenialsReportedInOrder' /\ DenialsReportedSoFar'
    BY <2>1, <2>3, ReportedUpToStays DEF DenialsReportedInOrder, DenialsReportedSoFar
  <2> QED  BY <2>1, <2>2, <2>4, SilentIInv
<1> QED  BY <1>1, <1>2, <1>3, ValidateIInv, CheckChangeIInv DEF Policy

\* The counterpart check leaves the reports of the policy as they are.
LEMMA SilentRules ==
  ASSUME IInv, TypeOK', step \in {"counterparts", "rules"},
         step' \in {"counterparts", "rules", "done"},
         UNCHANGED <<reports, status, changes, config>>
  PROVE  IInv'
<1>1. ReportedUpTo(Len(changes))
  BY DEF IInv, DenialsReportedInOrder
<1>2. DenialsReportedInOrder' /\ DenialsReportedSoFar'
  BY <1>1, ReportedUpToStays DEF DenialsReportedInOrder, DenialsReportedSoFar
<1> QED  BY <1>2, SilentIInv

LEMMA RulesEndIInv == IInv /\ RulesEnd => IInv'
<1> SUFFICES ASSUME IInv, RulesEnd PROVE IInv'
  OBVIOUS
<1>1. /\ step = "rules" /\ change \in Nat /\ change <= Len(changes) /\ Len(changes) \in Nat
      /\ Len(config.rules) \in Nat
      /\ change' = change + 1 /\ rule' = 1 /\ missing' = "none"
      /\ UNCHANGED <<mode, tree, past, step, changes, config, targets>>
  BY TypesOfConfig DEF IInv, TypeOK, RulesEnd, InRules, NextChange
<1>2. change' \in 1..(Len(changes') + 1) /\ rule' \in 1..(Len(config'.rules) + 1)
  BY <1>1 DEF IInv, TypeOK
<1>3. CASE missing = "none"
  <2>1. UNCHANGED <<reports, status>>
    BY <1>3 DEF RulesEnd
  <2>2. TypeOK'
    BY <1>1, <1>2, <2>1 DEF IInv, TypeOK
  <2> QED  BY <1>1, <2>1, <2>2, SilentRules
<1>4. CASE missing # "none"
  <2> DEFINE report == [code |-> "files/counterpart", change |-> change, target |-> missing]
  <2>1. /\ report \in Reports /\ report.code \notin ErrorCodes
        /\ reports' = Append(reports, report) /\ status' = 1
    BY <1>1, <1>4 DEF Reports, Codes, ErrorCodes, Report, RulesEnd, IInv, TypeOK
  <2>2. /\ reports' \in Seq(Reports) /\ Len(reports) \in Nat
        /\ DOMAIN reports' = 1..(Len(reports) + 1) /\ DOMAIN reports = 1..Len(reports)
        /\ reports'[Len(reports) + 1] = report
        /\ \A n \in DOMAIN reports : reports'[n] = reports[n]
    BY <2>1, ReportAppends DEF IInv, TypeOK
  <2>3. TypeOK'
    <3>1. status' \in 0..2
      BY <2>1
    <3> QED  BY <1>1, <1>2, <2>2, <3>1 DEF IInv, TypeOK
  <2>4. ReportsExplainStatus'
    BY <1>1, <2>1, RejectionExplainsStatus
  <2>5. NewFileReports' = NewFileReports
    BY <2>2 DEF NewFileReports
  <2>6. \A n \in NewFileReports : reports'[n] = reports[n]
    BY <2>2 DEF NewFileReports
  <2>7. ReportedUpTo(Len(changes))
    BY <1>1 DEF IInv, DenialsReportedInOrder
  <2>8. ReportedUpTo(Len(changes))'
    <3>1. {reports'[n].change : n \in NewFileReports} = {reports[n].change : n \in NewFileReports}
      BY <2>6
    <3>2. {n \in 1..Len(changes') : Denied(n)'} = {n \in 1..Len(changes) : Denied(n)}
      BY <1>1 DEF Denied
    <3>3. \A m, n \in NewFileReports : m < n => reports'[m].change < reports'[n].change
      BY <2>6, <2>7 DEF ReportedUpTo
    <3> QED  BY <2>5, <2>7, <3>1, <3>2, <3>3 DEF ReportedUpTo
  <2>9. DenialsReportedInOrder' /\ DenialsReportedSoFar'
    BY <1>1, <2>8 DEF DenialsReportedInOrder, DenialsReportedSoFar
  <2> QED  BY <2>3, <2>4, <2>9 DEF IInv
<1> QED  BY <1>3, <1>4

LEMMA RulesIInv == IInv /\ Rules => IInv'
<1> SUFFICES ASSUME IInv, Rules PROVE IInv'
  OBVIOUS
<1>0. Len(changes) \in Nat /\ Len(config.rules) \in Nat
  BY TypesOfConfig DEF IInv, TypeOK
<1>1. CASE SkipCounterparts
  <2>1. TypeOK'
    BY <1>1 DEF SkipCounterparts, Goto, IInv, TypeOK, Steps
  <2> QED  BY <1>1, <2>1, SilentRules DEF SkipCounterparts, Goto
<1>2. CASE BeginCounterparts
  <2>1. change' \in 1..(Len(changes') + 1) /\ rule' \in 1..(Len(config'.rules) + 1)
    BY <1>0, <1>2 DEF BeginCounterparts
  <2>2. TypeOK'
    BY <1>2, <2>1 DEF BeginCounterparts, Goto, IInv, TypeOK, Steps, Files
  <2> QED  BY <1>2, <2>2, SilentRules DEF BeginCounterparts, Goto
<1>3. CASE SnapshotFails
  BY <1>3, AbortIInv DEF SnapshotFails, ErrorCodes
<1>4. CASE SkipDeleted \/ RuleTargetExists
  <2>1. /\ change <= Len(changes) /\ step = "rules" /\ NextChange
        /\ UNCHANGED <<mode, tree, past, step, changes, config, targets, reports, status>>
    BY <1>4 DEF SkipDeleted, RuleTargetExists, InRules, OnRule
  <2>2. change' \in 1..(Len(changes') + 1) /\ rule' \in 1..(Len(config'.rules) + 1)
    BY <1>0, <2>1 DEF NextChange, IInv, TypeOK
  <2>3. TypeOK'
    BY <2>1, <2>2 DEF NextChange, IInv, TypeOK
  <2> QED  BY <2>1, <2>3, SilentRules
<1>5. CASE RuleDoesNotMatch \/ RuleTargetMissing
  <2>1. /\ rule <= Len(config.rules) /\ step = "rules" /\ rule' = rule + 1
        /\ missing' \in Targets \cup {"none"}
        /\ UNCHANGED <<mode, tree, past, step, changes, config, targets, change,
                       reports, status>>
    BY <1>5 DEF RuleDoesNotMatch, RuleTargetMissing, InRules, OnRule, IInv, TypeOK
  <2>2. rule' \in 1..(Len(config'.rules) + 1)
    BY <1>0, <2>1 DEF IInv, TypeOK
  <2>3. TypeOK'
    BY <2>1, <2>2 DEF IInv, TypeOK
  <2> QED  BY <2>1, <2>3, SilentRules
<1>6. CASE RuleTargetInvalid \/ RuleTargetError
  <2>1. change \in Nat /\ step = "rules"
    BY <1>0, <1>6 DEF RuleTargetInvalid, RuleTargetError, OnRule, InRules, IInv, TypeOK
  <2> QED  BY <1>6, <2>1, AbortIInv DEF RuleTargetInvalid, RuleTargetError, ErrorCodes
<1>7. CASE End
  <2>1. TypeOK'
    BY <1>7 DEF End, Goto, IInv, TypeOK, Steps
  <2> QED  BY <1>7, <2>1, SilentRules DEF End, Goto
<1> QED  BY <1>1, <1>2, <1>3, <1>4, <1>5, <1>6, <1>7, RulesEndIInv DEF Rules

\* What a replacement does to the list of trees.
LEMMA MomentAppends ==
  ASSUME NEW list \in Seq(AllTrees), NEW t \in AllTrees,
         NEW longer, longer = Append(list, t)
  PROVE  /\ longer \in Seq(AllTrees)
         /\ Len(longer) = Len(list) + 1 /\ Len(list) \in Nat
         /\ DOMAIN longer = 1..(Len(list) + 1) /\ DOMAIN list = 1..Len(list)
         /\ longer[Len(list) + 1] = t
         /\ \A n \in DOMAIN list : longer[n] = list[n]
OBVIOUS

\* Another process can replace the tree, never what the run has read.
LEMMA QuietIInv == IInv /\ (Replace \/ UNCHANGED vars) => IInv'
<1> SUFFICES ASSUME IInv, Replace \/ UNCHANGED vars PROVE IInv'
  OBVIOUS
<1>1. /\ UNCHANGED <<mode, step, changes, config, targets, change, rule, missing,
                     reports, status>>
      /\ tree' \in AllTrees
      /\ past' = past \/ past' = Append(past, tree')
  BY TreesAssumption DEF Replace, Shared, vars, IInv, TypeOK
<1>2. past' \in Seq(AllTrees)
  <2>1. past \in Seq(AllTrees)
    BY DEF IInv, TypeOK
  <2>2. CASE past' = past
    BY <2>1, <2>2
  <2>3. CASE past' = Append(past, tree')
    <3>1. tree' \in AllTrees
      BY <1>1
    <3> QED  BY <2>1, <2>3, <3>1, MomentAppends
  <2> QED  BY <1>1, <2>2, <2>3
<1>3. TypeOK'
  BY <1>1, <1>2 DEF IInv, TypeOK
<1>4. DenialsReportedSoFar' /\ DenialsReportedInOrder'
  BY <1>1 DEF IInv, DenialsReportedSoFar, DenialsReportedInOrder, ReportedUpTo,
              NewFileReports, Denied
<1> QED  BY <1>1, <1>3, <1>4, SilentIInv

\* The diagnostics explain the status and the denied additions are reported in
\* order at every point of every run (main.c run_checks, check_policies).
THEOREM CheckRunInvariant == Spec => []IInv
<1>1. IInv /\ [Next]_vars => IInv'
  BY LoadIInv, PolicyIInv, RulesIInv, QuietIInv DEF Next, Finished
<1> QED  BY InitIInv, <1>1, PTL DEF Spec

\* The exit status never says less or more than the diagnostics.
THEOREM ExitStatus == Spec => []ExitMatchesReports
<1>1. IInv => ExitMatchesReports
  BY DEF IInv, ReportsExplainStatus, ExitMatchesReports
<1> QED  BY CheckRunInvariant, <1>1, PTL

\* The policy reports each denied addition once, in the order of the changes.
THEOREM DenialsInOrder == Spec => []DenialsReportedInOrder
<1>1. IInv => DenialsReportedInOrder
  BY DEF IInv
<1> QED  BY CheckRunInvariant, <1>1, PTL

--------------------------------------------------------------------------------
(* Reports only grow *)

Grows ==
  /\ status' >= status
  /\ Len(reports') >= Len(reports)
  /\ \A n \in DOMAIN reports : reports'[n] = reports[n]
  /\ status = 2 => UNCHANGED reports

LEMMA AppendGrows ==
  ASSUME IInv, step # "done", status' \in {1, 2},
         NEW report \in Reports, reports' = Append(reports, report)
  PROVE  Grows
<1>1. /\ Len(reports') = Len(reports) + 1 /\ Len(reports) \in Nat
      /\ \A n \in DOMAIN reports : reports'[n] = reports[n]
  BY ReportAppends DEF IInv, TypeOK
<1>2. status \in {0, 1}
  BY DEF IInv, TypeOK, ReportsExplainStatus
<1> QED  BY <1>1, <1>2 DEF Grows

LEMMA SilentGrows ==
  ASSUME IInv, UNCHANGED <<reports, status>>
  PROVE  Grows
<1>1. Len(reports) \in Nat /\ status \in Nat
  BY DEF IInv, TypeOK
<1> QED  BY <1>1 DEF Grows

LEMMA AbortGrows ==
  ASSUME IInv, step # "done", NEW code \in ErrorCodes, NEW n \in Nat,
         NEW target \in Targets \cup {"none"}, Abort(code, n, target)
  PROVE  Grows
<1> DEFINE report == [code |-> code, change |-> n, target |-> target]
<1>1. report \in Reports
  BY DEF Reports, Codes
<1>2. reports' = Append(reports, report) /\ status' = 2
  BY DEF Abort, Report
<1> QED  BY <1>1, <1>2, AppendGrows

\* The diagnostics that end the run.
LEMMA AbortsAbort ==
  ASSUME IInv,
         \/ StartFails \/ LoadChangesFails \/ LoadConfigFails \/ ValidateFails
         \/ MatcherFails \/ SnapshotFails \/ RuleTargetInvalid \/ RuleTargetError
  PROVE  /\ step # "done"
         /\ \E code \in ErrorCodes, n \in Nat, target \in Targets \cup {"none"} :
              Abort(code, n, target)
<1>1. change \in Nat
  BY DEF IInv, TypeOK
<1>2. CASE StartFails \/ LoadChangesFails \/ LoadConfigFails \/ ValidateFails
           \/ MatcherFails \/ SnapshotFails
  BY <1>2 DEF StartFails, LoadChangesFails, LoadConfigFails, ValidateFails, MatcherFails,
              SnapshotFails, ErrorCodes
<1>3. CASE RuleTargetInvalid \/ RuleTargetError
  BY <1>1, <1>3 DEF RuleTargetInvalid, RuleTargetError, OnRule, InRules, ErrorCodes
<1> QED  BY <1>2, <1>3

LEMMA GrowsStep == IInv /\ [Next]_vars => Grows
<1> SUFFICES ASSUME IInv, [Next]_vars PROVE Grows
  OBVIOUS
<1>1. CASE StartFails \/ LoadChangesFails \/ LoadConfigFails \/ ValidateFails
           \/ MatcherFails \/ SnapshotFails \/ RuleTargetInvalid \/ RuleTargetError
  BY <1>1, AbortsAbort, AbortGrows
<1>2. CASE CheckChange
  <2>1. CASE Denied(change)
    <3> DEFINE report == [code |-> "files/new", change |-> change, target |-> "none"]
    <3>1. report \in Reports /\ step # "done"
      BY <1>2 DEF CheckChange, Reports, Codes, IInv, TypeOK
    <3>2. reports' = Append(reports, report) /\ status' = 1
      BY <1>2, <2>1 DEF CheckChange, Report
    <3> QED  BY <3>1, <3>2, AppendGrows
  <2>2. CASE ~Denied(change)
    BY <1>2, <2>2, SilentGrows DEF CheckChange
  <2> QED  BY <2>1, <2>2
<1>3. CASE RulesEnd
  <2>1. CASE missing = "none"
    BY <1>3, <2>1, SilentGrows DEF RulesEnd
  <2>2. CASE missing # "none"
    <3> DEFINE report == [code |-> "files/counterpart", change |-> change, target |-> missing]
    <3>1. report \in Reports /\ step # "done"
      BY <1>3, <2>2 DEF RulesEnd, InRules, Reports, Codes, IInv, TypeOK
    <3>2. reports' = Append(reports, report) /\ status' = 1
      BY <1>3, <2>2 DEF RulesEnd, Report
    <3> QED  BY <3>1, <3>2, AppendGrows
  <2> QED  BY <2>1, <2>2
<1>4. CASE Start \/ LoadChanges \/ LoadConfig \/ Validate \/ CheckChangesEnd
  BY <1>4, SilentGrows DEF Start, LoadChanges, LoadConfig, Validate, CheckChangesEnd
<1>5. CASE SkipCounterparts \/ BeginCounterparts \/ SkipDeleted \/ RuleDoesNotMatch
  BY <1>5, SilentGrows DEF SkipCounterparts, BeginCounterparts, SkipDeleted, RuleDoesNotMatch
<1>6. CASE RuleTargetExists \/ RuleTargetMissing \/ End
  BY <1>6, SilentGrows DEF RuleTargetExists, RuleTargetMissing, End
<1>7. CASE Replace \/ UNCHANGED vars
  BY <1>7, SilentGrows DEF Replace, vars
<1> QED
  BY <1>1, <1>2, <1>3, <1>4, <1>5, <1>6, <1>7 DEF Next, Load, Policy, Rules, Finished

\* The exit status only gets worse, what is printed stays printed, and nothing is
\* printed after an error (main.c check_policies, run_checks).
THEOREM ReportsKept == Spec => ReportsOnlyGrow
<1>1. IInv /\ [Next]_vars => Grows
  BY GrowsStep
<1>2. IInv /\ [Next]_vars =>
        [ /\ status' >= status
          /\ Len(reports') >= Len(reports)
          /\ \A n \in DOMAIN reports : reports'[n] = reports[n]
          /\ status = 2 => UNCHANGED reports ]_vars
  BY <1>1 DEF Grows
<1> QED  BY <1>2, CheckRunInvariant, PTL DEF Spec, ReportsOnlyGrow

--------------------------------------------------------------------------------
(* The orphans *)

\* The rules and changes a place in the loops refers to.
LEMMA RulesTyped ==
  ASSUME IInv
  PROVE  /\ DOMAIN config.rules = 1..Len(config.rules) /\ Len(config.rules) \in Nat
         /\ DOMAIN changes = 1..Len(changes) /\ Len(changes) \in Nat
         /\ change \in Nat \ {0} /\ rule \in Nat \ {0}
         /\ \A n : Matching(n) \subseteq 1..Len(config.rules)
<1>1. config.rules \in Seq(Mappings) /\ Len(config.rules) \in Nat
  BY TypesOfConfig DEF IInv, TypeOK
<1>2. DOMAIN config.rules = 1..Len(config.rules)
  BY <1>1
<1>3. change \in Nat \ {0} /\ rule \in Nat \ {0}
  BY <1>1 DEF IInv, TypeOK
<1> QED  BY <1>1, <1>2, <1>3 DEF IInv, TypeOK, Matching

\* The first matching rule is the only one that comes before all others.
LEMMA FirstTargetIs ==
  ASSUME IInv, NEW n, NEW first \in Matching(n), \A other \in Matching(n) : first <= other
  PROVE  FirstTarget(n) = config.rules[first][changes[n].path]
<1> DEFINE chosen == CHOOSE m \in Matching(n) : \A other \in Matching(n) : m <= other
<1>1. chosen \in Matching(n) /\ \A other \in Matching(n) : chosen <= other
  OBVIOUS
<1>2. chosen \in Nat /\ first \in Nat
  BY <1>1, RulesTyped
<1>3. chosen = first
  BY <1>1, <1>2
<1> QED  BY <1>3 DEF FirstTarget

\* What is reported and what is an orphan depends on nothing else.
LEMMA OrphansStay ==
  ASSUME UNCHANGED <<mode, changes, config, targets>>, mode \in GitModes \/ tree' = tree
  PROVE  /\ \A target : Inspect(target)' = Inspect(target)
         /\ \A n : Matching(n)' = Matching(n)
         /\ \A n : IsOrphan(n)' <=> IsOrphan(n)
         /\ \A n : FirstTarget(n)' = FirstTarget(n)
<1>1. \A target : Inspect(target)' = Inspect(target)
  BY DEF Inspect
<1>2. \A n : Matching(n)' = Matching(n)
  BY DEF Matching
<1>3. \A n : FirstTarget(n)' = FirstTarget(n)
  BY <1>2 DEF FirstTarget
<1>4. \A n : IsOrphan(n)' <=> IsOrphan(n)
  BY <1>1, <1>2 DEF IsOrphan
<1> QED  BY <1>1, <1>2, <1>3, <1>4

LEMMA SameOrphans ==
  ASSUME UNCHANGED <<mode, changes, config, targets>>, mode \in GitModes \/ tree' = tree,
         NEW last
  PROVE  Orphans(last)' = Orphans(last)
BY OrphansStay DEF Orphans

LEMMA SameReports ==
  ASSUME UNCHANGED reports
  PROVE  CounterpartReports' = CounterpartReports /\ ReportedOrphans' = ReportedOrphans
BY DEF CounterpartReports, ReportedOrphans

\* One change more, which is no orphan, or is reported.
LEMMA OneOrphanMore ==
  ASSUME NEW last \in Nat
  PROVE  Orphans(last + 1) =
           Orphans(last) \cup IF IsOrphan(last + 1)
                              THEN {[change |-> last + 1, target |-> FirstTarget(last + 1)]}
                              ELSE {}
<1>1. 1..(last + 1) = 1..last \cup {last + 1}
  OBVIOUS
<1> QED  BY <1>1 DEF Orphans

\* A scan that begins.
LEMMA FreshScan ==
  ASSUME IInv, UNCHANGED <<changes, config>>, rule' = 1, missing' = "none"
  PROVE  ScannedSoFar'
<1>1. \A n : Matching(n)' = Matching(n)
  BY DEF Matching
<1>2. \A n, m : m \in Matching(n) => m \in Nat \ {0}
  BY RulesTyped
<1> QED  BY <1>1, <1>2 DEF ScannedSoFar

\* A step before the check of counterparts.
LEMMA EarlyOrphans ==
  ASSUME OrphansSoFar, step \notin {"rules", "done"}, step' \notin {"rules", "done"},
         UNCHANGED reports
  PROVE  OrphansSoFar'
<1>1. CounterpartReports' = {}
  BY SameReports DEF OrphansSoFar
<1> QED  BY <1>1 DEF OrphansSoFar

\* A denied path is no counterpart.
LEMMA DenialOrphans ==
  ASSUME IInv, OrphansSoFar, CheckChange
  PROVE  OrphansSoFar'
<1>1. step = "policy" /\ step' = "policy"
  BY DEF CheckChange
<1>2. CASE Denied(change)
  <2> DEFINE report == [code |-> "files/new", change |-> change, target |-> "none"]
  <2>1. report \in Reports /\ reports' = Append(reports, report)
    BY <1>1, <1>2 DEF CheckChange, Report, Reports, Codes, IInv, TypeOK
  <2>2. /\ DOMAIN reports' = 1..(Len(reports) + 1) /\ DOMAIN reports = 1..Len(reports)
        /\ Len(reports) \in Nat
        /\ reports'[Len(reports) + 1] = report
        /\ \A n \in DOMAIN reports : reports'[n] = reports[n]
    BY <2>1, ReportAppends DEF IInv, TypeOK
  <2>3. \A n \in DOMAIN reports : reports[n].code # "files/counterpart"
    BY <1>1 DEF OrphansSoFar, CounterpartReports
  <2>4. \A n \in DOMAIN reports' : reports'[n].code # "files/counterpart"
    BY <2>2, <2>3
  <2>5. CounterpartReports' = {}
    BY <2>4 DEF CounterpartReports
  <2> QED  BY <1>1, <2>5 DEF OrphansSoFar
<1>3. CASE ~Denied(change)
  BY <1>1, <1>3, EarlyOrphans DEF CheckChange
<1> QED  BY <1>2, <1>3

\* A change is done with: the step to the next one keeps the account, if it
\* reports this one when it is an orphan.
LEMMA NextChangeOrphans ==
  ASSUME IInv, step = "rules", change <= Len(changes), NextChange,
         UNCHANGED <<mode, tree, step, changes, config, targets>>,
         Undisturbed =>
           ReportedOrphans' = Orphans(change - 1) \cup
             IF IsOrphan(change) THEN {[change |-> change, target |-> FirstTarget(change)]}
                                 ELSE {}
  PROVE  OrphansSoFar'
<1> PICK last \in Nat : change = last + 1
  <2>1. change \in Nat \ {0}
    BY RulesTyped
  <2>2. change - 1 \in Nat /\ change = (change - 1) + 1
    BY <2>1
  <2> QED  BY <2>2
<1>1. change' = last + 2 /\ change' - 1 = last + 1 /\ change - 1 = last
  BY DEF NextChange
<1>2. Undisturbed => ReportedOrphans' = Orphans(last + 1)
  BY <1>1, OneOrphanMore
<1> PICK this \in Nat : this = last + 1
  OBVIOUS
<1>3. Orphans(this)' = Orphans(this)
  BY SameOrphans
<1>4. Undisturbed => ReportedOrphans' = Orphans(this)'
  BY <1>2, <1>3
<1>5. Orphans(change - 1)' = Orphans(this)'
  BY <1>1 DEF Orphans
<1>6. ScannedSoFar'
  BY FreshScan DEF NextChange
<1>7. Undisturbed' <=> Undisturbed
  BY DEF Undisturbed
<1> QED  BY <1>4, <1>5, <1>6, <1>7 DEF OrphansSoFar

\* A rule is done with, and nothing is reported yet.
LEMMA NextRuleOrphans ==
  ASSUME IInv, OrphansSoFar, step = "rules", rule' = rule + 1,
         UNCHANGED <<mode, tree, step, changes, config, targets, change, reports>>,
         ScannedSoFar => ScannedSoFar'
  PROVE  OrphansSoFar'
<1>1. Undisturbed' <=> Undisturbed
  BY DEF Undisturbed
<1>2. Orphans(change - 1)' = Orphans(change - 1)
  BY OrphansStay DEF Orphans
<1>3. ReportedOrphans' = ReportedOrphans
  BY SameReports
<1> QED  BY <1>1, <1>2, <1>3 DEF OrphansSoFar

LEMMA RuleOrphans ==
  ASSUME IInv, OrphansSoFar, RuleDoesNotMatch \/ RuleTargetMissing
  PROVE  OrphansSoFar'
<1>1. /\ step = "rules" /\ change <= Len(changes) /\ rule' = rule + 1
      /\ changes[change].kind # "deleted" /\ rule <= Len(config.rules)
      /\ UNCHANGED <<mode, tree, step, changes, config, targets, change, reports>>
  BY DEF RuleDoesNotMatch, RuleTargetMissing, OnRule, InRules
<1>2. /\ \A target : Inspect(target)' = Inspect(target)
      /\ \A n : Matching(n)' = Matching(n)
      /\ \A n : FirstTarget(n)' = FirstTarget(n)
  BY <1>1, OrphansStay
<1>3. /\ rule \in Nat \ {0} /\ rule \in DOMAIN config.rules
      /\ \A m \in Matching(change) : m \in Nat
  BY <1>1, RulesTyped
<1>4. ASSUME ScannedSoFar PROVE ScannedSoFar'
  <2>0. /\ \A m \in Matching(change) :
             m < rule => Inspect(config.rules[m][changes[change].path]) # "file"
        /\ missing = "none" => \A m \in Matching(change) : m >= rule
        /\ missing # "none" => Matching(change) # {} /\ missing = FirstTarget(change)
    BY <1>1, <1>4 DEF ScannedSoFar
  <2>1. CASE RuleDoesNotMatch
    <3>1. rule \notin Matching(change) /\ missing' = missing
      BY <2>1, TargetsAssumption DEF RuleDoesNotMatch, Matching, Mapped
    <3>2. \A m \in Matching(change) : (m < rule + 1 => m < rule) /\ (m >= rule => m >= rule + 1)
      BY <1>3, <3>1
    <3> QED  BY <1>1, <1>2, <2>0, <3>1, <3>2 DEF ScannedSoFar
  <2>2. CASE RuleTargetMissing
    <3>1. /\ rule \in Matching(change) /\ Inspect(Mapped) # "file"
          /\ Mapped = config.rules[rule][changes[change].path] /\ Mapped # "none"
          /\ missing' = IF missing = "none" THEN Mapped ELSE missing
      BY <1>3, <2>2, TargetsAssumption DEF RuleTargetMissing, Matching, Mapped
    <3>2. \A m \in Matching(change) : m < rule + 1 => m < rule \/ m = rule
      BY <1>3
    <3>3. \A m \in Matching(change) :
            m < rule + 1 => Inspect(config.rules[m][changes[change].path]) # "file"
      BY <2>0, <3>1, <3>2
    <3>4. missing = "none" => Mapped = FirstTarget(change)
      BY <2>0, <3>1, FirstTargetIs
    <3>5. missing' # "none" /\ missing' = FirstTarget(change)
      BY <2>0, <3>1, <3>4
    <3> QED  BY <1>1, <1>2, <3>1, <3>3, <3>5 DEF ScannedSoFar
  <2> QED  BY <2>1, <2>2
<1> QED  BY <1>1, <1>4, NextRuleOrphans

LEMMA RulesEndOrphans ==
  ASSUME IInv, OrphansSoFar, RulesEnd
  PROVE  OrphansSoFar'
<1>1. /\ step = "rules" /\ change <= Len(changes) /\ NextChange
      /\ changes[change].kind # "deleted" /\ rule > Len(config.rules)
      /\ UNCHANGED <<mode, tree, step, changes, config, targets>>
  BY DEF RulesEnd, InRules
<1>2. \A m \in Matching(change) : m < rule /\ ~(m >= rule)
  BY <1>1, RulesTyped
<1>3. Undisturbed => ReportedOrphans = Orphans(change - 1) /\ ScannedSoFar
  BY <1>1 DEF OrphansSoFar
<1>4. CASE missing = "none"
  <2>1. UNCHANGED reports
    BY <1>4 DEF RulesEnd
  <2>2. Undisturbed => ~IsOrphan(change)
    BY <1>1, <1>2, <1>3, <1>4 DEF ScannedSoFar, IsOrphan
  <2>3. ReportedOrphans' = ReportedOrphans
    BY <2>1, SameReports
  <2> QED  BY <1>1, <1>3, <2>2, <2>3, NextChangeOrphans
<1>5. CASE missing # "none"
  <2> DEFINE report == [code |-> "files/counterpart", change |-> change, target |-> missing]
             told(r) == [change |-> r.change, target |-> r.target]
  <2>1. report \in Reports /\ reports' = Append(reports, report)
    BY <1>1, <1>5, RulesTyped DEF RulesEnd, Report, Reports, Codes, IInv, TypeOK
  <2>2. /\ DOMAIN reports' = 1..(Len(reports) + 1) /\ DOMAIN reports = 1..Len(reports)
        /\ Len(reports) \in Nat
        /\ reports'[Len(reports) + 1] = report
        /\ \A n \in DOMAIN reports : reports'[n] = reports[n]
    BY <2>1, ReportAppends DEF IInv, TypeOK
  <2>3. CounterpartReports' = CounterpartReports \cup {Len(reports) + 1}
    BY <2>2 DEF CounterpartReports
  <2>4. \A n \in CounterpartReports : reports'[n] = reports[n]
    BY <2>2 DEF CounterpartReports
  <2>5. ReportedOrphans' = ReportedOrphans \cup {[change |-> change, target |-> missing]}
    <3>1. ReportedOrphans' = {told(reports'[n]) : n \in CounterpartReports'}
      BY DEF ReportedOrphans
    <3>2. {told(reports'[n]) : n \in CounterpartReports}
            = {told(reports[n]) : n \in CounterpartReports}
      BY <2>4
    <3>3. told(reports'[Len(reports) + 1]) = [change |-> change, target |-> missing]
      BY <2>2
    <3>4. {told(reports'[n]) : n \in CounterpartReports \cup {Len(reports) + 1}}
            = {told(reports'[n]) : n \in CounterpartReports}
                \cup {told(reports'[Len(reports) + 1])}
      OBVIOUS
    <3>5. ReportedOrphans = {told(reports[n]) : n \in CounterpartReports}
      BY DEF ReportedOrphans
    <3> HIDE DEF told
    <3> QED  BY <2>3, <3>1, <3>2, <3>3, <3>4, <3>5
  <2>6. Undisturbed => IsOrphan(change) /\ missing = FirstTarget(change)
    BY <1>1, <1>2, <1>3, <1>5 DEF ScannedSoFar, IsOrphan
  <2> QED  BY <1>1, <1>3, <2>5, <2>6, NextChangeOrphans
<1> QED  BY <1>4, <1>5

LEMMA PassedOrphans ==
  ASSUME IInv, OrphansSoFar, SkipDeleted \/ RuleTargetExists
  PROVE  OrphansSoFar'
<1>1. /\ step = "rules" /\ change <= Len(changes) /\ NextChange
      /\ UNCHANGED <<mode, tree, step, changes, config, targets, reports>>
  BY DEF SkipDeleted, RuleTargetExists, OnRule, InRules
<1>2. ~IsOrphan(change)
  <2>1. CASE SkipDeleted
    BY <2>1 DEF SkipDeleted, IsOrphan
  <2>2. CASE RuleTargetExists
    <3>1. rule \in Matching(change)
      BY <2>2, RulesTyped DEF RuleTargetExists, OnRule, Mapped, Matching
    <3> QED  BY <2>2, <3>1 DEF RuleTargetExists, Mapped, IsOrphan
  <2> QED  BY <2>1, <2>2
<1>3. ReportedOrphans' = ReportedOrphans
  BY <1>1, SameReports
<1>4. Undisturbed => ReportedOrphans = Orphans(change - 1)
  BY <1>1 DEF OrphansSoFar
<1> QED  BY <1>1, <1>2, <1>3, <1>4, NextChangeOrphans

\* The check of counterparts begins, or there is nothing to check.
LEMMA BeginOrphans ==
  ASSUME IInv, OrphansSoFar, BeginCounterparts \/ SkipCounterparts
  PROVE  OrphansSoFar'
<1>1. step = "counterparts" /\ UNCHANGED <<mode, tree, changes, config, reports>>
  BY DEF BeginCounterparts, SkipCounterparts, Goto
<1>2. CounterpartReports' = {}
  BY <1>1, SameReports DEF OrphansSoFar
<1>3. ReportedOrphans' = {}
  BY <1>2 DEF ReportedOrphans
<1>4. CASE BeginCounterparts
  <2>1. step' = "rules" /\ change' = 1 /\ rule' = 1 /\ missing' = "none"
    BY <1>4 DEF BeginCounterparts, Goto
  <2>2. Orphans(change - 1)' = {}
    BY <2>1 DEF Orphans
  <2>3. ScannedSoFar'
    BY <1>1, <2>1, FreshScan
  <2> QED  BY <1>3, <2>1, <2>2, <2>3 DEF OrphansSoFar
<1>5. CASE SkipCounterparts
  <2>1. step' = "done" /\ (changes' = <<>> \/ config'.rules = <<>>)
    BY <1>1, <1>5 DEF SkipCounterparts, Goto
  <2>2. \A n \in 1..Len(changes') : ~IsOrphan(n)'
    BY <2>1 DEF IsOrphan, Matching
  <2>3. Orphans(Len(changes))' = {}
    BY <2>2 DEF Orphans
  <2> QED  BY <1>3, <2>1, <2>3 DEF OrphansSoFar
<1> QED  BY <1>4, <1>5

LEMMA EndOrphans ==
  ASSUME IInv, OrphansSoFar, End
  PROVE  OrphansSoFar'
<1>1. /\ step = "rules" /\ step' = "done" /\ change > Len(changes)
      /\ UNCHANGED <<mode, tree, changes, config, targets, reports>>
  BY DEF End, Goto
<1>2. change - 1 = Len(changes)
  BY <1>1 DEF IInv, TypeOK
<1>3. Undisturbed => ReportedOrphans = Orphans(Len(changes))
  BY <1>1, <1>2 DEF OrphansSoFar
<1>4. Orphans(Len(changes))' = Orphans(Len(changes))
  BY <1>1, OrphansStay DEF Orphans
<1>5. ReportedOrphans' = ReportedOrphans /\ (Undisturbed' <=> Undisturbed)
  BY <1>1, SameReports DEF Undisturbed
<1> QED  BY <1>1, <1>3, <1>4, <1>5 DEF OrphansSoFar

\* Who replaces the tree disturbs no reading of git's snapshot.
LEMMA QuietOrphans ==
  ASSUME IInv, OrphansSoFar, Replace \/ UNCHANGED vars
  PROVE  OrphansSoFar'
<1>1. /\ UNCHANGED <<mode, step, changes, config, targets, change, rule, missing,
                     reports, status>>
      /\ tree' = tree \/ (tree.shared /\ tree'.shared)
  BY DEF Replace, Shared, vars
<1>2. CounterpartReports' = CounterpartReports /\ ReportedOrphans' = ReportedOrphans
  BY <1>1, SameReports
<1>3. CASE Undisturbed'
  <2>1. Undisturbed /\ (mode \in GitModes \/ tree' = tree)
    BY <1>1, <1>3 DEF Undisturbed
  <2>2. /\ \A target : Inspect(target)' = Inspect(target)
        /\ \A n : Matching(n)' = Matching(n)
        /\ \A n : IsOrphan(n)' <=> IsOrphan(n)
        /\ \A n : FirstTarget(n)' = FirstTarget(n)
    BY <1>1, <2>1, OrphansStay
  <2>3. ScannedSoFar' <=> ScannedSoFar
    BY <1>1, <2>2 DEF ScannedSoFar
  <2>4. /\ Orphans(change - 1)' = Orphans(change - 1)
        /\ Orphans(Len(changes))' = Orphans(Len(changes))
    BY <1>1, <2>2 DEF Orphans
  <2> QED  BY <1>1, <1>2, <2>1, <2>3, <2>4 DEF OrphansSoFar
<1>4. CASE ~Undisturbed'
  BY <1>1, <1>2, <1>4 DEF OrphansSoFar
<1> QED  BY <1>3, <1>4

LEMMA OrphansStep == IInv /\ OrphansSoFar /\ [Next]_vars => OrphansSoFar'
<1> SUFFICES ASSUME IInv, OrphansSoFar, [Next]_vars PROVE OrphansSoFar'
  OBVIOUS
<1>1. CASE StartFails \/ LoadChangesFails \/ LoadConfigFails \/ ValidateFails
           \/ MatcherFails \/ SnapshotFails \/ RuleTargetInvalid \/ RuleTargetError
  <2>1. step' = "done" /\ status' = 2
    BY <1>1, AbortsAbort DEF Abort
  <2> QED  BY <2>1 DEF OrphansSoFar
<1>2. CASE Start \/ LoadChanges \/ LoadConfig \/ Validate \/ CheckChangesEnd
  <2>1. /\ step \notin {"rules", "done"} /\ step' \notin {"rules", "done"}
        /\ UNCHANGED reports
    BY <1>2 DEF Start, LoadChanges, LoadConfig, Validate, CheckChangesEnd, Goto
  <2> QED  BY <2>1, EarlyOrphans
<1> QED
  BY <1>1, <1>2, DenialOrphans, BeginOrphans, PassedOrphans, RuleOrphans, RulesEndOrphans,
     EndOrphans, QuietOrphans DEF Next, Load, Policy, Rules, Finished

\* A change is reported when and only when every matching rule misses its target,
\* with the target of the first one (counterparts.c check_change), whatever the
\* changes, the rules and the snapshot.
THEOREM OrphansInOrder == Spec => []OrphansReported
<1>1. Init => OrphansSoFar
  BY DEF Init, OrphansSoFar, CounterpartReports
<1>2. OrphansSoFar => OrphansReported
  BY DEF OrphansSoFar, OrphansReported
<1> QED  BY <1>1, <1>2, OrphansStep, CheckRunInvariant, PTL DEF Spec

--------------------------------------------------------------------------------
(* What a run says of a repository that changes under it *)

\* The changes and the configuration, as of the ith and the jth moment.
ReadAt(i, j) ==
  /\ step \notin {"start", "changes"} =>
       changes = IF mode = "config" THEN <<>> ELSE past[i].changes
  /\ step \notin {"start", "changes", "config"} => config = past[j].config

\* What was said of a change was so at some moment since the jth.
Justified(n, j) == \E view \in Sights(j) : n \in Rejected <=> Lonely(view, n)

\* The targets of the rules that have been gone over were all missing once.
MissedSoFar(j) ==
  change <= Len(changes) =>
    /\ \E view \in Sights(j) : \A m \in Matching(change) :
         m < rule => view[config.rules[m][changes[change].path]] # "file"
    /\ missing = "none" => \A m \in Matching(change) : m >= rule
    /\ missing # "none" => changes[change].kind # "deleted" /\ Matching(change) # {}

\* The check of counterparts in the working tree ...
CheckedInTree(j) ==
  /\ step = "rules" =>
       /\ Rejected \subseteq 1..(change - 1)
       /\ \A n \in 1..(change - 1) : Justified(n, j)
       /\ MissedSoFar(j)
  /\ step = "done" => \A n \in 1..Len(changes) : Justified(n, j)

\* ... and against a snapshot.
FilesAt(k) == {target \in Targets : past[k].present[target] = "file"}
CheckedInGit(j) ==
  step \in {"rules", "done"} =>
    changes = <<>> \/ config.rules = <<>> \/ \E k \in j..Len(past) : targets = FilesAt(k)

CheckedSince(j) == IF mode \in GitModes THEN CheckedInGit(j) ELSE CheckedInTree(j)

CausesSoFar ==
  /\ past # <<>> /\ past[Len(past)] = tree
  /\ step \in {"start", "changes"} => changes = <<>>
  /\ step = "changes" => mode # "config"
  /\ status # 2 =>
       \E i \in DOMAIN past : \E j \in i..Len(past) : ReadAt(i, j) /\ CheckedSince(j)

LEMMA InitCauses == Init => CausesSoFar
<1> SUFFICES ASSUME Init PROVE CausesSoFar
  OBVIOUS
<1>1. past # <<>> /\ Len(past) = 1 /\ past[Len(past)] = tree /\ 1 \in DOMAIN past /\ 1 \in 1..Len(past)
  BY DEF Init
<1>2. ReadAt(1, 1) /\ CheckedSince(1)
  BY DEF Init, ReadAt, CheckedSince, CheckedInGit, CheckedInTree
<1> QED  BY <1>1, <1>2 DEF Init, CausesSoFar

\* The moments are numbered, and the last is now.
LEMMA MomentsTyped ==
  ASSUME IInv, CausesSoFar
  PROVE  /\ Len(past) \in Nat \ {0} /\ DOMAIN past = 1..Len(past)
         /\ Len(past) \in DOMAIN past /\ past[Len(past)] = tree
         /\ tree.present \in [Targets -> Found]
         /\ \A k \in DOMAIN past : past[k].present \in [Targets -> Found]
<1>1. past \in Seq(AllTrees) /\ past # <<>> /\ past[Len(past)] = tree /\ tree \in AllTrees
  BY DEF IInv, TypeOK, CausesSoFar
<1>2. Len(past) \in Nat \ {0} /\ DOMAIN past = 1..Len(past)
  BY <1>1
<1>3. \A t \in AllTrees : t.present \in [Targets -> Found]
  BY DEF AllTrees
<1>4. \A k \in DOMAIN past : past[k] \in AllTrees
  BY <1>1
<1> QED  BY <1>1, <1>2, <1>3, <1>4

\* Any moment may be the present one, and any target may be looked at now.
LEMMA SightNow ==
  ASSUME IInv, CausesSoFar, NEW j \in 1..Len(past)
  PROVE  /\ tree.present \in Sights(j)
         /\ \A view \in Sights(j), target \in Targets :
              [view EXCEPT ![target] = tree.present[target]] \in Sights(j)
<1>1. /\ Len(past) \in j..Len(past) /\ past[Len(past)] = tree
      /\ tree.present \in [Targets -> Found]
  BY MomentsTyped
<1>2. tree.present \in Sights(j)
  BY <1>1 DEF Sights
<1>3. ASSUME NEW view \in Sights(j), NEW target \in Targets
      PROVE  [view EXCEPT ![target] = tree.present[target]] \in Sights(j)
  <2> DEFINE seen == [view EXCEPT ![target] = tree.present[target]]
  <2>1. /\ view \in [Targets -> Found]
        /\ \A other \in Targets : \E k \in j..Len(past) : view[other] = past[k].present[other]
    BY DEF Sights
  <2>2. tree.present[target] \in Found
    BY <1>1
  <2>3. seen \in [Targets -> Found]
    BY <2>1, <2>2
  <2>4. \A other \in Targets : \E k \in j..Len(past) : seen[other] = past[k].present[other]
    BY <1>1, <2>1
  <2> HIDE DEF seen
  <2>5. seen \in Sights(j)
    BY <2>3, <2>4 DEF Sights
  <2> QED  BY <2>5 DEF seen
<1> QED  BY <1>2, <1>3

\* What is seen, and who is alone, depends on nothing else.
LEMMA SightsStay ==
  ASSUME UNCHANGED past
  PROVE  \A j : Sights(j)' = Sights(j)
BY DEF Sights

LEMMA LonelyStay ==
  ASSUME UNCHANGED <<changes, config>>
  PROVE  /\ \A n : Matching(n)' = Matching(n)
         /\ \A view, n : Lonely(view, n)' <=> Lonely(view, n)
<1>1. \A n : Matching(n)' = Matching(n)
  BY DEF Matching
<1> QED  BY <1>1 DEF Lonely

LEMMA RejectedStay ==
  ASSUME UNCHANGED reports
  PROVE  Rejected' = Rejected
BY SameReports DEF Rejected

\* Before the check of counterparts nothing is rejected for them.
LEMMA NoneRejected ==
  ASSUME OrphansSoFar, step \notin {"rules", "done"}, UNCHANGED reports
  PROVE  Rejected' = {}
<1>1. CounterpartReports' = {}
  BY SameReports DEF OrphansSoFar
<1> QED  BY <1>1 DEF Rejected

\* A step that reads nothing.
LEMMA StillCaused ==
  ASSUME CausesSoFar, UNCHANGED <<mode, tree, past, changes, config>>, status # 2,
         step \notin {"start", "changes", "config"},
         step' \notin {"start", "changes", "config"},
         NEW i \in DOMAIN past, NEW j \in i..Len(past), ReadAt(i, j), CheckedSince(j)'
  PROVE  CausesSoFar'
<1>1. ReadAt(i, j)'
  BY DEF ReadAt
<1> QED  BY <1>1 DEF CausesSoFar

LEMMA LoadCauses ==
  ASSUME IInv, CausesSoFar, Start \/ LoadChanges \/ LoadConfig
  PROVE  CausesSoFar'
<1> PICK now \in Nat : now = Len(past)
  BY MomentsTyped
<1>1. /\ UNCHANGED <<mode, tree, past>>
      /\ step \in {"start", "changes", "config"}
      /\ step' \in {"changes", "config", "validate"}
      /\ UNCHANGED status
  BY DEF Start, LoadChanges, LoadConfig, Goto
<1>2. /\ now \in Nat \ {0} /\ DOMAIN past = 1..now /\ now \in DOMAIN past
      /\ past[now] = tree /\ past # <<>>
  BY MomentsTyped DEF CausesSoFar
<1>3. now \in DOMAIN past' /\ now \in now..Len(past') /\ past'[now] = tree'
  BY <1>1, <1>2
<1>4. \A j : CheckedSince(j)'
  BY <1>1 DEF CheckedSince, CheckedInGit, CheckedInTree
<1>5. status # 2
  BY <1>1 DEF IInv, ReportsExplainStatus
<1>6. CASE Start
  <2>1. step = "start" /\ changes = <<>>
    BY <1>6 DEF Start, CausesSoFar
  <2>2. step' = "changes" => changes' = <<>> /\ mode' # "config"
    BY <1>1, <1>6, <2>1 DEF Start, Goto, GitModes
  <2>3. step' = "config" => changes' = IF mode' = "config" THEN <<>> ELSE past'[now].changes
    BY <1>1, <1>2, <1>6, <2>1 DEF Start, Goto
  <2>4. step' \in {"changes", "config"}
    BY <1>6 DEF Start, Goto
  <2>5. ReadAt(now, now)'
    BY <2>3, <2>4 DEF ReadAt
  <2> QED  BY <1>1, <1>2, <1>3, <1>4, <2>2, <2>4, <2>5 DEF CausesSoFar
<1>7. CASE LoadChanges
  <2>1. step' = "config" /\ mode # "config" /\ changes' = tree.changes
    BY <1>7 DEF LoadChanges, Goto, CausesSoFar
  <2>2. ReadAt(now, now)'
    BY <1>1, <1>2, <2>1 DEF ReadAt
  <2> QED  BY <1>1, <1>2, <1>3, <1>4, <2>1, <2>2 DEF CausesSoFar
<1>8. CASE LoadConfig
  <2>1. step = "config" /\ step' = "validate" /\ config' = tree.config /\ UNCHANGED changes
    BY <1>8 DEF LoadConfig, Goto
  <2>2. PICK i \in DOMAIN past : \E j \in i..Len(past) : ReadAt(i, j)
    BY <1>5 DEF CausesSoFar
  <2>3. ReadAt(i, now)'
    BY <1>1, <1>2, <2>1, <2>2 DEF ReadAt
  <2>4. i \in DOMAIN past' /\ now \in i..Len(past')
    BY <1>1, <1>2, <2>2
  <2> QED  BY <1>1, <1>2, <1>4, <2>1, <2>3, <2>4 DEF CausesSoFar
<1> QED  BY <1>6, <1>7, <1>8

LEMMA PolicyCauses ==
  ASSUME IInv, CausesSoFar, Validate \/ CheckChange \/ CheckChangesEnd
  PROVE  CausesSoFar'
<1>1. /\ step \in {"validate", "policy"} /\ step' \in {"policy", "counterparts"}
      /\ UNCHANGED <<mode, tree, past, changes, config>>
  BY DEF Validate, CheckChange, CheckChangesEnd, Goto
<1>2. status # 2
  BY <1>1 DEF IInv, ReportsExplainStatus
<1>3. PICK i \in DOMAIN past : \E j \in i..Len(past) : ReadAt(i, j)
  BY <1>2 DEF CausesSoFar
<1>4. PICK j \in i..Len(past) : ReadAt(i, j)
  BY <1>3
<1>5. CheckedSince(j)'
  BY <1>1 DEF CheckedSince, CheckedInGit, CheckedInTree
<1> QED  BY <1>1, <1>2, <1>4, <1>5, StillCaused

\* The check of counterparts begins, or there is nothing to check.
LEMMA BeginCauses ==
  ASSUME IInv, OrphansSoFar, CausesSoFar, BeginCounterparts \/ SkipCounterparts
  PROVE  CausesSoFar'
<1>1. /\ step = "counterparts" /\ step' \in {"rules", "done"}
      /\ UNCHANGED <<mode, tree, past, changes, config, reports>>
  BY DEF BeginCounterparts, SkipCounterparts, Goto
<1>2. status # 2
  BY <1>1 DEF IInv, ReportsExplainStatus
<1>3. PICK i \in DOMAIN past : \E j \in i..Len(past) : ReadAt(i, j)
  BY <1>2 DEF CausesSoFar
<1>4. PICK j \in i..Len(past) : ReadAt(i, j)
  BY <1>3
<1>5. j \in 1..Len(past) /\ Len(past) \in j..Len(past) /\ past[Len(past)] = tree
  BY MomentsTyped
<1>6. tree.present \in Sights(j)'
  BY <1>1, <1>5, SightNow, SightsStay
<1>7. Rejected' = {}
  BY <1>1, NoneRejected
<1>8. CASE BeginCounterparts
  <2>1. /\ step' = "rules" /\ change' = 1 /\ rule' = 1 /\ missing' = "none"
        /\ mode \in GitModes => targets' = Files
    BY <1>8 DEF BeginCounterparts, Goto
  <2>2. CASE mode \in GitModes
    <3>1. targets' = FilesAt(Len(past))'
      BY <1>1, <1>5, <2>1, <2>2 DEF Files, FilesAt
    <3>2. CheckedInGit(j)'
      BY <1>1, <1>5, <3>1 DEF CheckedInGit
    <3> QED  BY <1>1, <1>2, <1>4, <2>2, <3>2, StillCaused DEF CheckedSince
  <2>3. CASE mode \notin GitModes
    <3>1. \A n, m : m \in Matching(n)' => m \in Nat \ {0}
      BY <1>1, RulesTyped, LonelyStay
    <3>2. MissedSoFar(j)'
      <4>1. \A m \in Matching(change)' : ~(m < 1) /\ m >= 1
        BY <3>1
      <4> QED  BY <1>6, <2>1, <4>1 DEF MissedSoFar
    <3>3. 1..(change' - 1) = {}
      BY <2>1
    <3>4. CheckedInTree(j)'
      BY <1>7, <2>1, <3>2, <3>3 DEF CheckedInTree
    <3> QED  BY <1>1, <1>2, <1>4, <2>3, <3>4, StillCaused DEF CheckedSince
  <2> QED  BY <2>2, <2>3
<1>9. CASE SkipCounterparts
  <2>1. step' = "done" /\ (changes' = <<>> \/ config'.rules = <<>>)
    BY <1>1, <1>9 DEF SkipCounterparts, Goto
  <2>2. \A n \in 1..Len(changes') : \A view : ~Lonely(view, n)'
    BY <2>1 DEF Lonely, Matching
  <2>3. \A n \in 1..Len(changes') : Justified(n, j)'
    BY <1>6, <1>7, <2>2 DEF Justified
  <2>4. CheckedInGit(j)' /\ CheckedInTree(j)'
    BY <2>1, <2>3 DEF CheckedInGit, CheckedInTree
  <2> QED  BY <1>1, <1>2, <1>4, <2>1, <2>4, StillCaused DEF CheckedSince
<1> QED  BY <1>8, <1>9

\* The loops over changes and rules leave a snapshot as it is.
LEMMA SnapshotCauses ==
  ASSUME IInv, CausesSoFar, mode \in GitModes, step = "rules", step' \in {"rules", "done"},
         UNCHANGED <<mode, tree, past, changes, config, targets>>
  PROVE  CausesSoFar'
<1>1. status # 2
  BY DEF IInv, ReportsExplainStatus
<1>2. PICK i \in DOMAIN past : \E j \in i..Len(past) : ReadAt(i, j) /\ CheckedSince(j)
  BY <1>1 DEF CausesSoFar
<1>3. PICK j \in i..Len(past) : ReadAt(i, j) /\ CheckedSince(j)
  BY <1>2
<1>4. CheckedInGit(j)
  BY <1>3 DEF CheckedSince
<1>5. \A k : FilesAt(k)' = FilesAt(k)
  BY DEF FilesAt
<1>6. CheckedInGit(j)'
  BY <1>4, <1>5 DEF CheckedInGit
<1> QED  BY <1>1, <1>3, <1>6, StillCaused DEF CheckedSince

\* A change of the working tree is done with, for a cause.
LEMMA NextChangeCaused ==
  ASSUME IInv, CausesSoFar, step = "rules", change <= Len(changes), NextChange,
         UNCHANGED <<mode, tree, past, step, changes, config>>,
         NEW j \in 1..Len(past), CheckedInTree(j),
         \/ Rejected' = Rejected /\ \E view \in Sights(j) : ~Lonely(view, change)
         \/ Rejected' = Rejected \cup {change} /\ \E view \in Sights(j) : Lonely(view, change)
  PROVE  CheckedInTree(j)'
<1> PICK here \in Nat \ {0} : here = change
  BY RulesTyped
<1>1. /\ change' = here + 1 /\ change' - 1 = here /\ rule' = 1 /\ missing' = "none"
      /\ step' = "rules"
  BY DEF NextChange
<1>2. /\ Rejected \subseteq 1..(here - 1) /\ \A n \in 1..(here - 1) : Justified(n, j)
  BY DEF CheckedInTree
<1>3. /\ 1..here = 1..(here - 1) \cup {here} /\ here \notin 1..(here - 1)
  BY SMT
<1>4. /\ Sights(j)' = Sights(j) /\ \A view, n : Lonely(view, n)' <=> Lonely(view, n)
      /\ \A n : Matching(n)' = Matching(n)
  BY SightsStay, LonelyStay
<1>5. Rejected' \subseteq 1..here
  BY <1>2, <1>3
<1>6. ASSUME NEW n \in 1..(here - 1) PROVE Justified(n, j)'
  <2>1. n \in Rejected' <=> n \in Rejected
    BY <1>3
  <2>2. PICK view \in Sights(j) : n \in Rejected <=> Lonely(view, n)
    BY <1>2 DEF Justified
  <2> QED  BY <1>4, <2>1, <2>2 DEF Justified
<1>7. Justified(here, j)'
  <2>1. here \notin Rejected
    BY <1>2, <1>3
  <2>2. CASE Rejected' = Rejected /\ \E view \in Sights(j) : ~Lonely(view, change)
    BY <1>4, <2>1, <2>2 DEF Justified
  <2>3. CASE Rejected' = Rejected \cup {change} /\ \E view \in Sights(j) : Lonely(view, change)
    BY <1>4, <2>3 DEF Justified
  <2> QED  BY <2>2, <2>3
<1>8. MissedSoFar(j)'
  <2>1. \A m \in Matching(change)' : ~(m < 1) /\ m >= 1
    <3>1. \A n : Matching(n)' \subseteq 1..Len(config.rules)
      BY <1>4, RulesTyped
    <3>2. \A m \in 1..Len(config.rules) : ~(m < 1) /\ m >= 1
      BY RulesTyped
    <3> QED  BY <3>1, <3>2
  <2>2. tree.present \in Sights(j)'
    BY <1>4, SightNow
  <2> QED  BY <1>1, <2>1, <2>2 DEF MissedSoFar
<1>9. \A n \in 1..here : Justified(n, j)'
  BY <1>3, <1>6, <1>7
<1> QED  BY <1>1, <1>5, <1>8, <1>9 DEF CheckedInTree

\* A matching rule that finds its target, or a change that is deleted.
LEMMA PassedCaused ==
  ASSUME IInv, CausesSoFar, mode \notin GitModes, SkipDeleted \/ RuleTargetExists,
         NEW j \in 1..Len(past), CheckedInTree(j)
  PROVE  CheckedInTree(j)'
<1>1. /\ step = "rules" /\ change <= Len(changes) /\ NextChange
      /\ UNCHANGED <<mode, tree, past, step, changes, config, reports>>
  BY DEF SkipDeleted, RuleTargetExists, OnRule, InRules
<1>2. ~Lonely(tree.present, change)
  <2>1. CASE SkipDeleted
    BY <2>1 DEF SkipDeleted, Lonely
  <2>2. CASE RuleTargetExists
    <3>1. rule \in Matching(change)
      BY <2>2, RulesTyped DEF RuleTargetExists, OnRule, Mapped, Matching
    <3>2. tree.present[config.rules[rule][changes[change].path]] = "file"
      BY <2>2 DEF RuleTargetExists, Mapped, Inspect
    <3> QED  BY <3>1, <3>2 DEF Lonely
  <2> QED  BY <2>1, <2>2
<1>3. Rejected' = Rejected
  BY <1>1, RejectedStay
<1> QED  BY <1>1, <1>2, <1>3, SightNow, NextChangeCaused

\* A rule that does not save the change.
LEMMA RuleCaused ==
  ASSUME IInv, CausesSoFar, mode \notin GitModes, RuleDoesNotMatch \/ RuleTargetMissing,
         NEW j \in 1..Len(past), CheckedInTree(j)
  PROVE  CheckedInTree(j)'
<1>1. /\ step = "rules" /\ change <= Len(changes) /\ rule' = rule + 1
      /\ changes[change].kind # "deleted" /\ rule <= Len(config.rules)
      /\ UNCHANGED <<mode, tree, past, step, changes, config, change, reports>>
  BY DEF RuleDoesNotMatch, RuleTargetMissing, OnRule, InRules
<1>2. /\ rule \in Nat \ {0} /\ rule \in DOMAIN config.rules
      /\ \A m \in Matching(change) : m \in Nat
  BY <1>1, RulesTyped
<1>3. /\ Sights(j)' = Sights(j) /\ \A view, n : Lonely(view, n)' <=> Lonely(view, n)
      /\ \A n : Matching(n)' = Matching(n)
      /\ Rejected' = Rejected
  BY <1>1, SightsStay, LonelyStay, RejectedStay
<1>4. /\ Rejected \subseteq 1..(change - 1) /\ \A n \in 1..(change - 1) : Justified(n, j)
      /\ MissedSoFar(j)
  BY <1>1 DEF CheckedInTree
<1>5. PICK view \in Sights(j) : \A m \in Matching(change) :
        m < rule => view[config.rules[m][changes[change].path]] # "file"
  BY <1>1, <1>4 DEF MissedSoFar
<1>6. MissedSoFar(j)'
  <2>1. CASE RuleDoesNotMatch
    <3>1. rule \notin Matching(change) /\ missing' = missing
      BY <2>1, TargetsAssumption DEF RuleDoesNotMatch, Matching, Mapped
    <3>2. \A m \in Matching(change) : (m < rule + 1 => m < rule) /\ (m >= rule => m >= rule + 1)
      BY <1>2, <3>1
    <3>3. \A m \in Matching(change) :
            m < rule + 1 => view[config.rules[m][changes[change].path]] # "file"
      BY <1>5, <3>2
    <3> QED  BY <1>1, <1>3, <1>4, <3>1, <3>2, <3>3 DEF MissedSoFar
  <2>2. CASE RuleTargetMissing
    <3>1. /\ rule \in Matching(change) /\ Mapped \in Targets /\ tree.present[Mapped] = "missing"
          /\ Mapped = config.rules[rule][changes[change].path] /\ Mapped # "none"
          /\ missing' = IF missing = "none" THEN Mapped ELSE missing
      BY <1>2, <2>2, TargetsAssumption DEF RuleTargetMissing, Matching, Mapped, Inspect
    <3> DEFINE seen == [view EXCEPT ![Mapped] = tree.present[Mapped]]
    <3>2. seen \in Sights(j)
      BY <3>1, SightNow
    <3>3. view \in [Targets -> Found]
      BY DEF Sights
    <3>4. \A target \in Targets : seen[target] = IF target = Mapped THEN "missing" ELSE view[target]
      BY <3>1, <3>3
    <3>5. \A m \in Matching(change) : m < rule + 1 => m < rule \/ m = rule
      BY <1>2
    <3>6. \A m \in Matching(change) : config.rules[m][changes[change].path] \in Targets
      BY DEF Matching
    <3> HIDE DEF seen
    <3>7. \A m \in Matching(change) :
            m < rule + 1 => seen[config.rules[m][changes[change].path]] # "file"
      BY <1>5, <3>1, <3>4, <3>5, <3>6
    <3>8. missing' # "none" /\ changes[change].kind # "deleted" /\ Matching(change) # {}
      BY <1>1, <3>1
    <3> QED  BY <1>1, <1>3, <3>2, <3>7, <3>8 DEF MissedSoFar
  <2> QED  BY <2>1, <2>2
<1>7. \A n \in 1..(change - 1) : Justified(n, j)'
  BY <1>3, <1>4 DEF Justified
<1> QED  BY <1>1, <1>3, <1>4, <1>6, <1>7 DEF CheckedInTree

\* One rejection more.
LEMMA RulesEndRejects ==
  ASSUME IInv, RulesEnd
  PROVE  Rejected' = IF missing = "none" THEN Rejected ELSE Rejected \cup {change}
<1>1. CASE missing = "none"
  BY <1>1, RejectedStay DEF RulesEnd
<1>2. CASE missing # "none"
  <2> DEFINE report == [code |-> "files/counterpart", change |-> change, target |-> missing]
  <2>1. report \in Reports /\ reports' = Append(reports, report)
    BY <1>2, RulesTyped DEF RulesEnd, Report, Reports, Codes, IInv, TypeOK
  <2>2. /\ DOMAIN reports' = 1..(Len(reports) + 1) /\ DOMAIN reports = 1..Len(reports)
        /\ Len(reports) \in Nat
        /\ reports'[Len(reports) + 1] = report
        /\ \A n \in DOMAIN reports : reports'[n] = reports[n]
    BY <2>1, ReportAppends DEF IInv, TypeOK
  <2>3. CounterpartReports' = CounterpartReports \cup {Len(reports) + 1}
    BY <2>2 DEF CounterpartReports
  <2>4. \A n \in CounterpartReports : reports'[n].change = reports[n].change
    BY <2>2 DEF CounterpartReports
  <2>5. reports'[Len(reports) + 1].change = change
    BY <2>2
  <2>6. Rejected' = {reports'[n].change : n \in CounterpartReports \cup {Len(reports) + 1}}
    BY <2>3 DEF Rejected
  <2> QED  BY <1>2, <2>4, <2>5, <2>6 DEF Rejected
<1> QED  BY <1>1, <1>2

LEMMA RulesEndCaused ==
  ASSUME IInv, CausesSoFar, RulesEnd, NEW j \in 1..Len(past), CheckedInTree(j)
  PROVE  CheckedInTree(j)'
<1>1. /\ step = "rules" /\ change <= Len(changes) /\ NextChange
      /\ rule > Len(config.rules) /\ changes[change].kind # "deleted"
      /\ UNCHANGED <<mode, tree, past, step, changes, config>>
  BY DEF RulesEnd, InRules
<1>2. \A m \in Matching(change) : m < rule /\ ~(m >= rule)
  BY <1>1, RulesTyped
<1>3. MissedSoFar(j)
  BY <1>1 DEF CheckedInTree
<1>4. CASE missing = "none"
  <2>1. Matching(change) = {}
    BY <1>1, <1>2, <1>3, <1>4 DEF MissedSoFar
  <2>2. ~Lonely(tree.present, change)
    BY <2>1 DEF Lonely
  <2>3. Rejected' = Rejected
    BY <1>4, RulesEndRejects
  <2> QED  BY <1>1, <2>2, <2>3, SightNow, NextChangeCaused
<1>5. CASE missing # "none"
  <2>1. PICK view \in Sights(j) : \A m \in Matching(change) :
          m < rule => view[config.rules[m][changes[change].path]] # "file"
    BY <1>1, <1>3 DEF MissedSoFar
  <2>2. Matching(change) # {}
    BY <1>1, <1>3, <1>5 DEF MissedSoFar
  <2>3. Lonely(view, change)
    BY <1>1, <1>2, <2>1, <2>2 DEF Lonely
  <2>4. Rejected' = Rejected \cup {change}
    BY <1>5, RulesEndRejects
  <2> QED  BY <1>1, <2>3, <2>4, NextChangeCaused
<1> QED  BY <1>4, <1>5

LEMMA EndCaused ==
  ASSUME IInv, End, NEW j \in 1..Len(past), CheckedInTree(j)
  PROVE  CheckedInTree(j)'
<1>1. /\ step = "rules" /\ step' = "done" /\ change > Len(changes)
      /\ UNCHANGED <<past, changes, config, reports>>
  BY DEF End, Goto
<1>2. change - 1 = Len(changes)
  BY <1>1 DEF IInv, TypeOK
<1>3. \A n \in 1..Len(changes) : Justified(n, j)
  BY <1>1, <1>2 DEF CheckedInTree
<1>4. /\ Sights(j)' = Sights(j) /\ Rejected' = Rejected
      /\ \A view, n : Lonely(view, n)' <=> Lonely(view, n)
  BY <1>1, SightsStay, RejectedStay, LonelyStay
<1>5. \A n \in 1..Len(changes) : Justified(n, j)'
  BY <1>3, <1>4 DEF Justified
<1> QED  BY <1>1, <1>5 DEF CheckedInTree

LEMMA RulesCauses ==
  ASSUME IInv, CausesSoFar,
         \/ SkipDeleted \/ RuleDoesNotMatch \/ RuleTargetExists
         \/ RuleTargetMissing \/ RulesEnd \/ End
  PROVE  CausesSoFar'
<1>1. /\ step = "rules" /\ step' \in {"rules", "done"}
      /\ UNCHANGED <<mode, tree, past, changes, config, targets>>
  BY DEF SkipDeleted, RuleDoesNotMatch, RuleTargetExists, RuleTargetMissing, RulesEnd, End,
         OnRule, InRules, Goto
<1>2. status # 2
  BY <1>1 DEF IInv, ReportsExplainStatus
<1>3. CASE mode \in GitModes
  BY <1>1, <1>3, SnapshotCauses
<1>4. CASE mode \notin GitModes
  <2>1. PICK i \in DOMAIN past : \E j \in i..Len(past) : ReadAt(i, j) /\ CheckedSince(j)
    BY <1>2 DEF CausesSoFar
  <2>2. PICK j \in i..Len(past) : ReadAt(i, j) /\ CheckedSince(j)
    BY <2>1
  <2>3. j \in 1..Len(past) /\ CheckedInTree(j)
    BY <1>4, <2>2, MomentsTyped DEF CheckedSince
  <2>4. CheckedInTree(j)'
    BY <1>4, <2>3, PassedCaused, RuleCaused, RulesEndCaused, EndCaused
  <2> QED  BY <1>1, <1>2, <1>4, <2>2, <2>4, StillCaused DEF CheckedSince
<1> QED  BY <1>3, <1>4

\* Who replaces the tree adds a moment, and takes none away.
LEMMA ReplaceCauses ==
  ASSUME IInv, CausesSoFar, Replace
  PROVE  CausesSoFar'
<1>1. /\ UNCHANGED <<mode, step, changes, config, targets, change, rule, missing,
                     reports, status>>
      /\ past' = Append(past, tree') /\ tree' \in AllTrees /\ past \in Seq(AllTrees)
  BY TreesAssumption DEF Replace, Shared, IInv, TypeOK
<1> PICK size \in Nat : size = Len(past)
  BY MomentsTyped
<1>2. /\ Len(past') = size + 1 /\ DOMAIN past' = 1..(size + 1) /\ DOMAIN past = 1..size
      /\ past'[size + 1] = tree' /\ \A k \in 1..size : past'[k] = past[k]
  BY <1>1, MomentAppends
<1>3. past' # <<>> /\ past'[Len(past')] = tree'
  BY <1>2
<1>4. ASSUME NEW j \in 1..size PROVE CheckedSince(j) => CheckedSince(j)'
  <2>1. /\ \A k \in j..size : k \in 1..size /\ k \in j..(size + 1)
    OBVIOUS
  <2>2. \A view \in Sights(j) : view \in Sights(j)'
    BY <1>2, <2>1 DEF Sights
  <2>3. /\ \A n : Matching(n)' = Matching(n)
        /\ \A view, n : Lonely(view, n)' <=> Lonely(view, n)
        /\ Rejected' = Rejected
    BY <1>1, LonelyStay, RejectedStay
  <2>4. \A n : Justified(n, j) => Justified(n, j)'
    BY <2>2, <2>3 DEF Justified
  <2>5. MissedSoFar(j) => MissedSoFar(j)'
    BY <1>1, <2>2, <2>3 DEF MissedSoFar
  <2>6. CheckedInTree(j) => CheckedInTree(j)'
    BY <1>1, <2>3, <2>4, <2>5 DEF CheckedInTree
  <2>7. \A k \in j..size : FilesAt(k)' = FilesAt(k)
    BY <1>2, <2>1 DEF FilesAt
  <2>8. CheckedInGit(j) => CheckedInGit(j)'
    BY <1>1, <1>2, <2>1, <2>7 DEF CheckedInGit
  <2> QED  BY <1>1, <2>6, <2>8 DEF CheckedSince
<1>5. ASSUME status # 2
      PROVE  \E i \in DOMAIN past' : \E j \in i..Len(past') : ReadAt(i, j)' /\ CheckedSince(j)'
  <2>1. PICK i \in DOMAIN past : \E j \in i..Len(past) : ReadAt(i, j) /\ CheckedSince(j)
    BY <1>5 DEF CausesSoFar
  <2>2. PICK j \in i..Len(past) : ReadAt(i, j) /\ CheckedSince(j)
    BY <2>1
  <2>3. i \in 1..size /\ j \in 1..size /\ i \in DOMAIN past' /\ j \in i..Len(past')
    BY <1>2, <2>2
  <2>4. ReadAt(i, j)'
    <3>1. past'[i] = past[i] /\ past'[j] = past[j]
      BY <1>2, <2>3
    <3> QED  BY <1>1, <2>2, <3>1 DEF ReadAt
  <2> QED  BY <1>4, <2>2, <2>3, <2>4
<1> QED  BY <1>1, <1>3, <1>5 DEF CausesSoFar

LEMMA CausesStep ==
  IInv /\ OrphansSoFar /\ CausesSoFar /\ [Next]_vars => CausesSoFar'
<1> SUFFICES ASSUME IInv, OrphansSoFar, CausesSoFar, [Next]_vars PROVE CausesSoFar'
  OBVIOUS
<1>1. CASE StartFails \/ LoadChangesFails \/ LoadConfigFails \/ ValidateFails
           \/ MatcherFails \/ SnapshotFails \/ RuleTargetInvalid \/ RuleTargetError
  <2>1. step' = "done" /\ status' = 2 /\ UNCHANGED <<tree, past>>
    BY <1>1, AbortsAbort DEF Abort
  <2> QED  BY <2>1 DEF CausesSoFar
<1>2. CASE UNCHANGED vars
  <2>1. UNCHANGED <<mode, tree, past, step, changes, config, targets, change, rule,
                    missing, reports, status>>
    BY <1>2 DEF vars
  <2>2. /\ \A j : Sights(j)' = Sights(j)
        /\ \A n : Matching(n)' = Matching(n)
        /\ \A view, n : Lonely(view, n)' <=> Lonely(view, n)
        /\ Rejected' = Rejected
    BY <2>1, SightsStay, LonelyStay, RejectedStay
  <2>3. ASSUME NEW j PROVE CheckedInTree(j) => CheckedInTree(j)'
    <3>1. MissedSoFar(j) => MissedSoFar(j)'
      BY <2>1, <2>2 DEF MissedSoFar
    <3>2. \A n : Justified(n, j) => Justified(n, j)'
      BY <2>2 DEF Justified
    <3> QED  BY <2>1, <2>2, <3>1, <3>2 DEF CheckedInTree
  <2>4. ASSUME NEW j PROVE CheckedInGit(j) => CheckedInGit(j)'
    BY <2>1 DEF CheckedInGit, FilesAt
  <2>5. \A i, j : ReadAt(i, j) => ReadAt(i, j)'
    BY <2>1 DEF ReadAt
  <2>6. \A j : CheckedSince(j) => CheckedSince(j)'
    BY <2>1, <2>3, <2>4 DEF CheckedSince
  <2> QED  BY <2>1, <2>5, <2>6 DEF CausesSoFar
<1> QED
  BY <1>1, <1>2, LoadCauses, PolicyCauses, BeginCauses, RulesCauses, ReplaceCauses
  DEF Next, Load, Policy, Rules, Finished

\* Against a snapshot a change is an orphan when no target was a file at its moment.
LEMMA OrphanIsLonely ==
  ASSUME IInv, mode \in GitModes, NEW k, targets = FilesAt(k), NEW n
  PROVE  IsOrphan(n) <=> Lonely(past[k].present, n)
<1>1. \A m \in Matching(n) : config.rules[m][changes[n].path] \in Targets
  BY DEF Matching
<1>2. \A target \in Targets : Inspect(target) = "file" <=> past[k].present[target] = "file"
  BY DEF Inspect, FilesAt
<1> QED  BY <1>1, <1>2 DEF IsOrphan, Lonely

\* What a run says was so, of each thing at the moment it was read, and the moments
\* come in their order, however often another process replaces the tree (main.c
\* run_checks, counterparts.c check_snapshot).
THEOREM CausesWereThere == Spec => []ReportsHadCause
<1>1. IInv /\ OrphansSoFar /\ CausesSoFar => ReportsHadCause
  <2> SUFFICES ASSUME IInv, OrphansSoFar, CausesSoFar, step = "done", status # 2
               PROVE  \E i \in DOMAIN past : \E j \in i..Len(past) :
                        /\ changes = IF mode = "config" THEN <<>> ELSE past[i].changes
                        /\ config = past[j].config
                        /\ IF mode \in GitModes
                           THEN \E view \in Snapshots(j) :
                                  Rejected = {n \in DOMAIN changes : Lonely(view, n)}
                           ELSE \A n \in DOMAIN changes :
                                  \E view \in Sights(j) : n \in Rejected <=> Lonely(view, n)
    BY DEF ReportsHadCause
  <2>1. PICK i \in DOMAIN past : \E j \in i..Len(past) : ReadAt(i, j) /\ CheckedSince(j)
    BY DEF CausesSoFar
  <2>2. PICK j \in i..Len(past) : ReadAt(i, j) /\ CheckedSince(j)
    BY <2>1
  <2>3. /\ changes = IF mode = "config" THEN <<>> ELSE past[i].changes
        /\ config = past[j].config
    BY <2>2 DEF ReadAt
  <2>4. DOMAIN changes = 1..Len(changes)
    BY RulesTyped
  <2>5. CASE mode \in GitModes
    <3>1. Rejected = {n \in 1..Len(changes) : IsOrphan(n)}
      <4>1. ReportedOrphans = Orphans(Len(changes))
        BY <2>5 DEF OrphansSoFar, Undisturbed
      <4>2. Rejected = {r.change : r \in ReportedOrphans}
        <5> DEFINE told(n) == [change |-> reports[n].change, target |-> reports[n].target]
        <5>1. \A n : told(n).change = reports[n].change
          OBVIOUS
        <5>2. ReportedOrphans = {told(n) : n \in CounterpartReports}
          BY DEF ReportedOrphans
        <5> HIDE DEF told
        <5> QED  BY <5>1, <5>2 DEF Rejected
      <4>3. {r.change : r \in Orphans(Len(changes))} = {n \in 1..Len(changes) : IsOrphan(n)}
        <5> DEFINE told(n) == [change |-> n, target |-> FirstTarget(n)]
        <5>1. \A n : told(n).change = n
          OBVIOUS
        <5>2. Orphans(Len(changes)) = {told(n) : n \in {m \in 1..Len(changes) : IsOrphan(m)}}
          BY DEF Orphans
        <5> HIDE DEF told
        <5> QED  BY <5>1, <5>2
      <4> QED  BY <4>1, <4>2, <4>3
    <3>2. CASE changes = <<>> \/ config.rules = <<>>
      <4>1. \A n \in 1..Len(changes) : Matching(n) = {}
        BY <3>2 DEF Matching
      <4>2. /\ \A n \in 1..Len(changes) : ~IsOrphan(n)
            /\ \A n \in 1..Len(changes) : \A view : ~Lonely(view, n)
        BY <4>1 DEF IsOrphan, Lonely
      <4>3. tree.present \in Snapshots(j)
        <5>1. Len(past) \in j..Len(past) /\ past[Len(past)] = tree
          BY <2>2, MomentsTyped
        <5> QED  BY <5>1 DEF Snapshots
      <4>4. Rejected = {n \in DOMAIN changes : Lonely(tree.present, n)}
        BY <2>4, <3>1, <4>2
      <4> QED  BY <2>3, <2>5, <4>3, <4>4
    <3>3. CASE \E k \in j..Len(past) : targets = FilesAt(k)
      <4>1. PICK k \in j..Len(past) : targets = FilesAt(k)
        BY <3>3
      <4>2. past[k].present \in Snapshots(j)
        BY DEF Snapshots
      <4>3. \A n : IsOrphan(n) <=> Lonely(past[k].present, n)
        BY <2>5, <4>1, OrphanIsLonely
      <4>4. Rejected = {n \in DOMAIN changes : Lonely(past[k].present, n)}
        BY <2>4, <3>1, <4>3
      <4> QED  BY <2>3, <2>5, <4>2, <4>4
    <3> QED  BY <2>2, <2>5, <3>2, <3>3 DEF CheckedSince, CheckedInGit
  <2>6. CASE mode \notin GitModes
    <3>1. \A n \in DOMAIN changes : Justified(n, j)
      BY <2>2, <2>4, <2>6 DEF CheckedSince, CheckedInTree
    <3>2. \A n \in DOMAIN changes : \E view \in Sights(j) : n \in Rejected <=> Lonely(view, n)
      BY <3>1 DEF Justified
    <3> QED  BY <2>3, <2>6, <3>2
  <2> QED  BY <2>5, <2>6
<1>2. Init => OrphansSoFar
  BY DEF Init, OrphansSoFar, CounterpartReports
<1> QED
  BY <1>1, <1>2, InitCauses, CausesStep, OrphansStep, CheckRunInvariant, PTL DEF Spec

--------------------------------------------------------------------------------
(* One judgement of one tree *)

LEMMA InitReads == Init => ReadsTheTree
BY DEF Init, ReadsTheTree

\* A step that ends the run with an error leaves nothing to answer for.
LEMMA AbortReads ==
  ASSUME step' = "done", status' = 2
  PROVE  ReadsTheTree'
BY DEF ReadsTheTree

\* A step that reads nothing, once the tree is read.
LEMMA StillReads ==
  ASSUME ReadsTheTree, UNCHANGED <<mode, tree, changes, config, targets>>,
         step \notin {"start", "changes", "config"},
         step' \notin {"start", "changes", "config"},
         status # 2,
         step' \in {"rules", "done"} =>
           step = "rules" \/ changes = <<>> \/ config.rules = <<>>
  PROVE  ReadsTheTree'
<1>1. Judged' = Judged /\ Files' = Files
  BY DEF Judged, Files
<1> QED  BY <1>1 DEF ReadsTheTree

LEMMA LoadReads ==
  ASSUME IInv, ReadsTheTree, Start \/ LoadChanges \/ LoadConfig
  PROVE  ReadsTheTree'
<1>1. status # 2 /\ UNCHANGED <<mode, tree>>
  BY DEF Start, LoadChanges, LoadConfig, Goto, IInv, ReportsExplainStatus
<1>2. Judged' = Judged
  BY <1>1 DEF Judged
<1>3. CASE Start
  BY <1>1, <1>2, <1>3 DEF Start, Goto, ReadsTheTree, Judged, GitModes
<1>4. CASE LoadChanges
  BY <1>1, <1>2, <1>4 DEF LoadChanges, Goto, ReadsTheTree, Judged
<1>5. CASE LoadConfig
  BY <1>1, <1>2, <1>5 DEF LoadConfig, Goto, ReadsTheTree
<1> QED  BY <1>3, <1>4, <1>5

LEMMA ReadsStep == IInv /\ ReadsTheTree /\ [Next]_vars => ReadsTheTree'
<1> SUFFICES ASSUME IInv, ReadsTheTree, [Next]_vars PROVE ReadsTheTree'
  OBVIOUS
<1>0. step # "done" => status # 2
  BY DEF IInv, ReportsExplainStatus
<1>1. CASE StartFails \/ LoadChangesFails \/ LoadConfigFails \/ ValidateFails
           \/ MatcherFails \/ SnapshotFails \/ RuleTargetInvalid \/ RuleTargetError
  <2>1. step' = "done" /\ status' = 2
    BY <1>1, AbortsAbort DEF Abort
  <2> QED  BY <2>1, AbortReads
<1>2. CASE Start \/ LoadChanges \/ LoadConfig
  BY <1>2, LoadReads
<1>3. CASE Validate \/ CheckChange \/ CheckChangesEnd \/ SkipCounterparts
  BY <1>0, <1>3, StillReads
     DEF Validate, CheckChange, CheckChangesEnd, SkipCounterparts, Goto
<1>4. CASE BeginCounterparts
  <2>1. Judged' = Judged /\ Files' = Files
    BY <1>4 DEF BeginCounterparts, Goto, Judged, Files
  <2> QED  BY <1>0, <1>4, <2>1 DEF BeginCounterparts, Goto, ReadsTheTree
<1>5. CASE SkipDeleted \/ RuleDoesNotMatch \/ RuleTargetExists \/ RuleTargetMissing
  BY <1>0, <1>5, StillReads
     DEF SkipDeleted, RuleDoesNotMatch, RuleTargetExists, RuleTargetMissing, InRules, OnRule
<1>6. CASE RulesEnd \/ End
  BY <1>0, <1>6, StillReads DEF RulesEnd, InRules, End, Goto
<1>7. CASE Replace
  BY <1>7 DEF Replace, Shared, ReadsTheTree
<1>8. CASE UNCHANGED vars
  BY <1>8 DEF vars, ReadsTheTree, Judged, Files
<1> QED
  BY <1>1, <1>2, <1>3, <1>4, <1>5, <1>6, <1>7, <1>8
     DEF Next, Load, Policy, Rules, Finished

\* What the run calls an orphan is one of the tree, if the tree is what it read.
LEMMA SameOrphan ==
  ASSUME IInv, changes = Judged.changes, config = tree.config,
         mode \in GitModes => targets = Files,
         NEW n \in 1..Len(changes)
  PROVE  IsOrphan(n) <=> Verdict!Orphan(Judged, Judged.changes[n])
<1>1. Judged.config = config /\ Judged.present = tree.present
  BY DEF Judged
<1>2. \A target \in Targets : Inspect(target) = "file" <=> Judged.present[target] = "file"
  BY <1>1 DEF Inspect, Files
<1> DEFINE mapped == Verdict!RuleTargets(Judged.config, Judged.changes[n])
<1>3. mapped = {config.rules[m][changes[n].path] : m \in Matching(n)}
  BY <1>1 DEF Verdict!RuleTargets, Matching
<1>4. mapped \subseteq Targets
  BY DEF Verdict!RuleTargets
<1>5. Verdict!Orphan(Judged, Judged.changes[n]) <=>
        /\ changes[n].kind # "deleted" /\ mapped # {}
        /\ \A target \in mapped : Judged.present[target] # "file"
  BY <1>1 DEF Verdict!Orphan
<1>6. IsOrphan(n) <=>
        /\ changes[n].kind # "deleted" /\ mapped # {}
        /\ \A target \in mapped : Inspect(target) # "file"
  BY <1>3 DEF IsOrphan
<1> HIDE DEF mapped
<1> QED  BY <1>2, <1>4, <1>5, <1>6

\* A run that ends without an error has status 0 exactly when it has printed
\* nothing, and it has printed something exactly when a change is rejected.
StatusIsJudgement ==
  step = "done" /\ status # 2 /\ ~tree.shared => status = Verdict!Judge(Judged)

LEMMA Judgement == IInv /\ OrphansSoFar /\ ReadsTheTree => StatusIsJudgement
<1> SUFFICES ASSUME IInv, OrphansSoFar, ReadsTheTree,
                    step = "done", status # 2, ~tree.shared
             PROVE  status = Verdict!Judge(Judged)
  BY DEF StatusIsJudgement
<1>1. changes = Judged.changes /\ config = tree.config
  BY DEF ReadsTheTree
<1>2. Undisturbed
  BY DEF Undisturbed
<1>3. ReportedOrphans = Orphans(Len(changes)) /\ ReportedUpTo(Len(changes))
  BY <1>2 DEF OrphansSoFar, IInv, DenialsReportedInOrder
<1>4. DOMAIN changes = 1..Len(changes)
  BY RulesTyped
<1>5. status \in {0, 1} /\ (status = 0 <=> reports = <<>>)
  BY DEF IInv, TypeOK, ReportsExplainStatus
<1>6. \A n \in DOMAIN reports : n \in NewFileReports \cup CounterpartReports
  <2>1. \A n \in DOMAIN reports : reports[n].code \in Codes /\ reports[n].code \notin ErrorCodes
    <3>1. \A n \in DOMAIN reports : reports[n] \in Reports
      BY DEF IInv, TypeOK
    <3>2. \A n \in DOMAIN reports : ~IsError(n)
      BY DEF IInv, ReportsExplainStatus
    <3> QED  BY <3>1, <3>2 DEF IsError, Reports
  <2> QED  BY <2>1 DEF Codes, NewFileReports, CounterpartReports
<1>7. reports = <<>> <=> NewFileReports = {} /\ CounterpartReports = {}
  <2>1. reports = <<>> <=> DOMAIN reports = {}
    BY DEF IInv, TypeOK
  <2> QED  BY <1>6, <2>1 DEF NewFileReports, CounterpartReports
<1>8. NewFileReports = {} <=> \A n \in DOMAIN changes : ~Denied(n)
  BY <1>3, <1>4 DEF ReportedUpTo
<1>9. CounterpartReports = {} <=> \A n \in DOMAIN changes : ~IsOrphan(n)
  BY <1>3, <1>4 DEF ReportedOrphans, Orphans
<1>10. \A n \in DOMAIN changes :
         Denied(n) <=> Verdict!DeniedAddition(Judged.config, Judged.changes[n])
  BY <1>1 DEF Denied, Verdict!DeniedAddition, Judged
<1>11. \A n \in DOMAIN changes : IsOrphan(n) <=> Verdict!Orphan(Judged, Judged.changes[n])
  <2>1. CASE mode \in GitModes => targets = Files
    BY <1>1, <1>4, <2>1, SameOrphan
  <2>2. CASE changes = <<>>
    BY <1>4, <2>2
  <2>3. CASE config.rules = <<>>
    <3>1. \A n : Matching(n) = {}
      BY <2>3 DEF Matching
    <3>2. \A n : Verdict!RuleTargets(Judged.config, Judged.changes[n]) = {}
      BY <1>1, <2>3 DEF Verdict!RuleTargets, Judged
    <3> QED  BY <3>1, <3>2 DEF IsOrphan, Verdict!Orphan
  <2> QED  BY <2>1, <2>2, <2>3 DEF ReadsTheTree
<1> QED
  BY <1>1, <1>5, <1>7, <1>8, <1>9, <1>10, <1>11 DEF Verdict!Judge

\* The tree that is judged is the same at every step, and a run that has decided
\* takes no other step.
LEMMA JudgedStays ==
  ASSUME IInv, [Next]_vars
  PROVE  /\ tree'.shared = tree.shared
         /\ ~tree.shared => Judged' = Judged
         /\ step = "done" => step' = "done" /\ status' = status
<1>1. CASE StartFails \/ LoadChangesFails \/ LoadConfigFails \/ ValidateFails
           \/ MatcherFails \/ SnapshotFails \/ RuleTargetInvalid \/ RuleTargetError
  <2>1. step # "done" /\ UNCHANGED <<mode, tree>>
    BY <1>1, AbortsAbort DEF Abort
  <2> QED  BY <2>1 DEF Judged
<1>2. CASE Start \/ LoadChanges \/ LoadConfig \/ Validate \/ CheckChange \/ CheckChangesEnd
  <2>1. step # "done" /\ UNCHANGED <<mode, tree>>
    BY <1>2 DEF Start, LoadChanges, LoadConfig, Validate, CheckChange, CheckChangesEnd, Goto
  <2> QED  BY <2>1 DEF Judged
<1>3. CASE SkipCounterparts \/ BeginCounterparts \/ SkipDeleted \/ RuleDoesNotMatch
           \/ RuleTargetExists \/ RuleTargetMissing \/ RulesEnd \/ End
  <2>1. step # "done" /\ UNCHANGED <<mode, tree>>
    BY <1>3 DEF SkipCounterparts, BeginCounterparts, SkipDeleted, RuleDoesNotMatch,
                RuleTargetExists, RuleTargetMissing, RulesEnd, End, InRules, OnRule, Goto
  <2> QED  BY <2>1 DEF Judged
<1>4. CASE Replace
  BY <1>4 DEF Replace, Shared, IInv, TypeOK, AllTrees
<1>5. CASE UNCHANGED vars
  BY <1>5 DEF vars, Judged
<1> QED
  BY <1>1, <1>2, <1>3, <1>4, <1>5 DEF Next, Load, Policy, Rules, Finished

\* With nobody else writing, a run is one judgement of one tree: its exit status is
\* that of the abstract specification LintVerdict, or 2 when something kept it from
\* judging (main.c run_command, check_policies), for every list of changes and rules.
THEOREM RefinesVerdict == Spec => ImplementsVerdict
<1> DEFINE seen == IF tree.shared THEN NoTree ELSE Judged
           said == IF step = "done" /\ ~tree.shared THEN status ELSE 3
<1>1. Init => Verdict!Init
  BY DEF Init, Verdict!Init, Verdict!Undecided
<1>2. IInv /\ StatusIsJudgement' /\ [Next]_vars => [Verdict!Decide]_<<seen, said>>
  <2> SUFFICES ASSUME IInv, StatusIsJudgement', [Next]_vars
               PROVE  [Verdict!Decide]_<<seen, said>>
    OBVIOUS
  <2>1. /\ tree'.shared = tree.shared
        /\ ~tree.shared => Judged' = Judged
        /\ step = "done" => step' = "done" /\ status' = status
    BY JudgedStays
  <2>2. NoTree' = NoTree
    BY DEF NoTree, NoConfig
  <2>3. seen' = seen
    BY <2>1, <2>2
  <2>4. CASE step' = "done" /\ step # "done" /\ ~tree.shared
    <3>1. said = 3 /\ said' = status' /\ seen = Judged /\ seen' = Judged'
      BY <2>1, <2>4
    <3>2. status' # 2 => status' = Verdict!Judge(Judged)'
      BY <2>1, <2>4 DEF StatusIsJudgement
    <3>3. Verdict!Judge(Judged)' = Verdict!Judge(Judged)
      BY <2>1, <2>4 DEF Verdict!Judge, Verdict!DeniedAddition, Verdict!Orphan, Verdict!RuleTargets
    <3> HIDE DEF said, seen
    <3>4. said' \in {Verdict!Judge(seen), 2}
      BY <3>1, <3>2, <3>3
    <3> QED  BY <2>3, <3>1, <3>4 DEF Verdict!Decide, Verdict!Undecided, said, seen
  <2>5. CASE ~(step' = "done" /\ step # "done" /\ ~tree.shared)
    <3>1. said' = said
      BY <2>1, <2>5
    <3> QED  BY <2>3, <3>1
  <2> QED  BY <2>4, <2>5
<1>3. Init => OrphansSoFar
  BY DEF Init, OrphansSoFar, CounterpartReports
<1> QED
  BY <1>1, <1>2, <1>3, InitReads, OrphansStep, ReadsStep, Judgement, CheckRunInvariant, PTL
     DEF Spec, ImplementsVerdict, Verdict!Spec

--------------------------------------------------------------------------------
(* What is printed of a path *)

\* A set of natural numbers that contains 0 and each successor contains them all.
LEMMA NatSetInduction ==
  ASSUME NEW S, 0 \in S, \A n \in Nat : n \in S => n + 1 \in S
  PROVE  Nat \subseteq S
<1> DEFINE rest == Nat \ S
           below == OpToRel(<, Nat)
<1>1. IsWellFoundedOn(below, Nat)
  BY NatLessThanWellFounded
<1>2. \A x, y \in Nat : y < x => <<y, x>> \in below
  BY DEF OpToRel
<1>3. SUFFICES ASSUME rest # {} PROVE FALSE
  OBVIOUS
<1> HIDE DEF below
<1>4. PICK x \in rest : \A y \in rest : ~(<<y, x>> \in below)
  <2>1. rest \subseteq Nat
    OBVIOUS
  <2> HIDE DEF rest
  <2> QED  BY <1>1, <1>3, <2>1, WFMin
<1>5. x # 0 /\ x - 1 \in Nat /\ x - 1 < x
  OBVIOUS
<1>6. x - 1 \in S
  BY <1>2, <1>4, <1>5
<1>7. (x - 1) + 1 \in S
  BY <1>5, <1>6
<1> QED  BY <1>4, <1>5, <1>7

\* Induction from the end of a loop to its start.
LEMMA DownwardInduction ==
  ASSUME NEW size \in Nat, NEW S, size + 1 \in S,
         \A k \in 1..size : (\A later \in (k + 1)..(size + 1) : later \in S) => k \in S
  PROVE  1..(size + 1) \subseteq S
<1> DEFINE reached == {n \in Nat : \A k \in 1..(size + 1) : k >= size + 1 - n => k \in S}
<1>1. 0 \in reached
  OBVIOUS
<1>2. ASSUME NEW n \in Nat, n \in reached PROVE n + 1 \in reached
  <2>1. ASSUME NEW k \in 1..(size + 1), k >= size + 1 - (n + 1) PROVE k \in S
    <3>1. CASE k >= size + 1 - n
      BY <1>2, <3>1
    <3>2. CASE k = size + 1 - (n + 1)
      <4>1. k \in 1..size
        BY <3>2
      <4>2. \A later \in (k + 1)..(size + 1) : later \in S
        BY <1>2, <3>2
      <4> QED  BY <4>1, <4>2
    <3> QED  BY <2>1, <3>1, <3>2
  <2> QED  BY <2>1
<1>3. size + 1 \in reached
  <2> HIDE DEF reached
  <2>1. Nat \subseteq reached
    BY <1>1, <1>2, NatSetInduction
  <2> QED  BY <2>1
<1> QED  BY <1>3

\* The steps of a loop lead on, and not beyond its end.
Advances(size, steps) == \A k \in 1..size : steps[k] \in 1..(size + 1 - k)

\* What is left to print: nothing at the end, and before it a piece and what follows it.
Unfolds(it, size, pieces, steps) ==
  /\ it[size + 1] = <<>>
  /\ \A k \in 1..size : it[k] = pieces[k] \o it[k + steps[k]]

LEMMA RemainingIs ==
  ASSUME NEW size \in Nat, NEW pieces, NEW steps, Advances(size, steps)
  PROVE  Unfolds(Remaining(size, pieces, steps), size, pieces, steps)
<1> DEFINE end == <<>>
           More(d, k) == pieces[k] \o d[k + steps[k]]
           Body(d, k) == IF k > size THEN end ELSE More(d, k)
           Solves(d, m) == d = [k \in m..(size + 1) |-> Body(d, k)]
           solved == {m \in 1..(size + 1) : \E d : Solves(d, m)}
<1> HIDE DEF end, More
<1>1. size + 1 \in solved
  <2>1. Solves([k \in (size + 1)..(size + 1) |-> end], size + 1)
    OBVIOUS
  <2> HIDE DEF Solves
  <2> QED  BY <2>1
<1>2. ASSUME NEW m \in 1..size, m + 1 \in solved PROVE m \in solved
  <2>1. PICK d : Solves(d, m + 1)
    BY <1>2
  <2> DEFINE e == [k \in m..(size + 1) |-> Body(d, k)]
  <2>2. \A k \in (m + 1)..(size + 1) : d[k] = Body(d, k)
    BY <2>1
  <2>3. \A k \in m..(size + 1) : e[k] = Body(d, k)
    OBVIOUS
  <2>4. e = [k \in m..(size + 1) |-> e[k]]
    OBVIOUS
  <2> HIDE DEF e
  <2>5. \A k \in (m + 1)..(size + 1) : e[k] = d[k]
    BY <2>2, <2>3
  <2>6. ASSUME NEW k \in m..(size + 1) PROVE e[k] = Body(e, k)
    <3>1. CASE k > size
      BY <2>3, <3>1
    <3>2. CASE k \in 1..size
      <4>1. k + steps[k] \in (m + 1)..(size + 1)
        BY <3>2 DEF Advances
      <4>2. e[k + steps[k]] = d[k + steps[k]]
        BY <2>5, <4>1
      <4>3. More(e, k) = More(d, k)
        BY <4>2 DEF More
      <4> QED  BY <2>3, <3>2, <4>3
    <3> QED  BY <3>1, <3>2
  <2>7. Solves(e, m)
    <3> HIDE DEF Body
    <3> QED  BY <2>4, <2>6
  <2> HIDE DEF Solves
  <2> QED  BY <2>7
<1>3. \E d : Solves(d, 1)
  <2> HIDE DEF solved
  <2>1. \A k \in 1..size : (\A later \in (k + 1)..(size + 1) : later \in solved) => k \in solved
    BY <1>2
  <2>2. 1..(size + 1) \subseteq solved
    BY <1>1, <2>1, DownwardInduction
  <2>3. 1 \in solved
    BY <2>2
  <2> QED  BY <2>3 DEF solved
<1> DEFINE it == Remaining(size, pieces, steps)
<1>4. it = CHOOSE d : Solves(d, 1)
  BY DEF Remaining, end, More
<1> HIDE DEF it
<1>5. it = [k \in 1..(size + 1) |-> Body(it, k)]
  BY <1>3, <1>4
<1>6. \A k \in 1..(size + 1) : it[k] = Body(it, k)
  BY <1>5
<1>7. it[size + 1] = end
  BY <1>6
<1>8. ASSUME NEW k \in 1..size PROVE it[k] = More(it, k)
  BY <1>6
<1> QED  BY <1>7, <1>8 DEF Unfolds, it, end, More

\* From some place on a loop does what another does from its start.
Continued(before, size, pieces, steps, others, otherSteps) ==
  /\ Advances(before + size, steps)
  /\ Advances(size, otherSteps)
  /\ \A k \in 1..size : pieces[before + k] = others[k] /\ steps[before + k] = otherSteps[k]

\* It prints from there on what the other prints.
LEMMA LoopsAgree ==
  ASSUME NEW size \in Nat, NEW before \in Nat,
         NEW pieces, NEW steps, NEW others, NEW otherSteps,
         Continued(before, size, pieces, steps, others, otherSteps)
  PROVE  Remaining(before + size, pieces, steps)[before + 1] = Joined(size, others, otherSteps)
<1> DEFINE it == Remaining(before + size, pieces, steps)
           other == Remaining(size, others, otherSteps)
           agreed == {k \in 1..(size + 1) : it[before + k] = other[k]}
<1>0. /\ before + size \in Nat /\ Advances(before + size, steps) /\ Advances(size, otherSteps)
      /\ \A k \in 1..size : pieces[before + k] = others[k] /\ steps[before + k] = otherSteps[k]
  BY DEF Continued
<1>1. Unfolds(it, before + size, pieces, steps)
  BY <1>0, RemainingIs
<1>2. Unfolds(other, size, others, otherSteps)
  BY <1>0, RemainingIs
<1> HIDE DEF it, other
<1>3. size + 1 \in agreed
  <2>1. it[(before + size) + 1] = <<>> /\ other[size + 1] = <<>>
    BY <1>1, <1>2 DEF Unfolds
  <2> QED  BY <2>1
<1>4. ASSUME NEW k \in 1..size, \A later \in (k + 1)..(size + 1) : later \in agreed
      PROVE  k \in agreed
  <2>1. otherSteps[k] \in 1..(size + 1 - k)
    BY <1>0 DEF Advances
  <2>2. k + otherSteps[k] \in agreed
    BY <1>4, <2>1
  <2>3. it[before + (k + otherSteps[k])] = other[k + otherSteps[k]]
    BY <2>2
  <2>4. before + k \in 1..(before + size)
    OBVIOUS
  <2>5. it[before + k] = pieces[before + k] \o it[(before + k) + steps[before + k]]
    BY <1>1, <2>4 DEF Unfolds
  <2>6. (before + k) + steps[before + k] = before + (k + otherSteps[k])
    BY <1>0, <2>1
  <2>7. it[before + k] = other[k]
    BY <1>0, <1>2, <2>3, <2>5, <2>6 DEF Unfolds
  <2> QED  BY <2>7
<1>5. 1 \in agreed
  <2> HIDE DEF agreed
  <2>1. 1..(size + 1) \subseteq agreed
    BY <1>3, <1>4, DownwardInduction
  <2> QED  BY <2>1
<1> QED  BY <1>5 DEF it, other, Joined

\* What a loop prints is made of what its pieces are made of.
LEMMA RemainingTyped ==
  ASSUME NEW size \in Nat, NEW S, NEW pieces, NEW steps, Advances(size, steps),
         \A k \in 1..size : pieces[k] \in Seq(S)
  PROVE  \A k \in 1..(size + 1) : Remaining(size, pieces, steps)[k] \in Seq(S)
<1> DEFINE it == Remaining(size, pieces, steps)
           typed == {k \in 1..(size + 1) : it[k] \in Seq(S)}
<1>1. Unfolds(it, size, pieces, steps)
  BY RemainingIs
<1> HIDE DEF it
<1>2. size + 1 \in typed
  <2>1. it[size + 1] \in Seq(S)
    BY <1>1, EmptySeq DEF Unfolds
  <2> QED  BY <2>1
<1>3. ASSUME NEW k \in 1..size, \A later \in (k + 1)..(size + 1) : later \in typed
      PROVE  k \in typed
  <2>1. k + steps[k] \in (k + 1)..(size + 1)
    BY DEF Advances
  <2>2. it[k + steps[k]] \in Seq(S)
    BY <1>3, <2>1
  <2>3. it[k] \in Seq(S)
    BY <1>1, <2>2, ConcatProperties DEF Unfolds
  <2> QED  BY <2>3
<1>4. 1..(size + 1) \subseteq typed
  <2> HIDE DEF typed
  <2> QED  BY <1>2, <1>3, DownwardInduction
<1> QED  BY <1>4 DEF it

--------------------------------------------------------------------------------
(* UTF-8: the length by ranges is that of what is encoded *)

\* The bytes by what they announce.
Ascii == 1..127
Tails == 128..191
LeadsOfTwo == 192..223
LeadsOfThree == 224..239
LeadsOfFour == 240..247
NoLeads == Tails \cup 248..255

LEMMA EveryByte ==
  1..255 = Ascii \cup LeadsOfTwo \cup LeadsOfThree \cup LeadsOfFour \cup NoLeads
BY SMT DEF Ascii, Tails, LeadsOfTwo, LeadsOfThree, LeadsOfFour, NoLeads

LEMMA AnnouncedIs ==
  /\ \A byte \in Ascii : Announced(byte) = 1
  /\ \A byte \in LeadsOfTwo : Announced(byte) = 2
  /\ \A byte \in LeadsOfThree : Announced(byte) = 3
  /\ \A byte \in LeadsOfFour : Announced(byte) = 4
  /\ \A byte \in NoLeads : Announced(byte) = 0
BY SMT DEF Announced, Ascii, Tails, LeadsOfTwo, LeadsOfThree, LeadsOfFour, NoLeads

LEMMA Remainders ==
  /\ \A byte \in Tails : byte % 64 = byte - 128
  /\ \A byte \in LeadsOfTwo : byte % 32 = byte - 192
  /\ \A byte \in LeadsOfThree : byte % 16 = byte - 224
  /\ \A byte \in LeadsOfFour : byte % 8 = byte - 240
BY SMT DEF Tails, LeadsOfTwo, LeadsOfThree, LeadsOfFour

\* Whether bytes are a character depends on those bytes alone.
LEMMA EncodesSame ==
  ASSUME NEW s, NEW i \in Nat, NEW t, NEW k \in Nat, NEW length \in 1..4,
         Len(s) \in Nat, Len(t) \in Nat,
         i + length - 1 <= Len(s), k + length - 1 <= Len(t),
         \A n \in 0..(length - 1) : s[i + n] = t[k + n]
  PROVE  Encodes(s, i, length) <=> Encodes(t, k, length)
<1>1. \A n \in 1..(length - 1) : s[i + n] = t[k + n]
  OBVIOUS
<1>2. Continues(s, i, length) <=> Continues(t, k, length)
  BY <1>1 DEF Continues
<1>3. s[i] = t[k]
  <2>1. 0 \in 0..(length - 1) /\ i + 0 = i /\ k + 0 = k
    OBVIOUS
  <2> QED  BY <2>1
<1>4. Scalar(s, i, length) = Scalar(t, k, length)
  <2>1. CASE length = 1
    BY <1>3, <2>1 DEF Scalar
  <2>2. CASE length = 2
    BY <1>1, <1>3, <2>2 DEF Scalar
  <2>3. CASE length = 3
    BY <1>1, <1>3, <2>3 DEF Scalar
  <2>4. CASE length = 4
    BY <1>1, <1>3, <2>4 DEF Scalar
  <2> QED  BY <2>1, <2>2, <2>3, <2>4
<1> QED  BY <1>2, <1>4 DEF Encodes

\* A number that `least` or more, and a character, can have.
IsScalar(n, least) == n >= least /\ n <= 1114111 /\ n \notin 55296..57343

\* The numbers that two, three and four bytes hold, and what is asked of those bytes.
Two(a, b) == (a - 192) * 64 + (b - 128)
Three(a, b, c) == (a - 224) * 4096 + (b - 128) * 64 + (c - 128)
Four(a, b, c, d) == (a - 240) * 262144 + (b - 128) * 4096 + (c - 128) * 64 + (d - 128)

TwoInRange(a) == a \in 194..223
ThreeInRange(a, b) == (a = 224 => b >= 160) /\ (a = 237 => b <= 159)
FourInRange(a, b) == a \in 240..244 /\ (a = 240 => b >= 144) /\ (a = 244 => b <= 143)

LEMMA TwoBytes ==
  ASSUME NEW a \in LeadsOfTwo, NEW b \in Tails
  PROVE  TwoInRange(a) <=> IsScalar(Two(a, b), Smallest[2])
<1>1. Smallest[2] = 128
  BY SMT DEF Smallest
<1>2. TwoInRange(a) <=> IsScalar(Two(a, b), 128)
  BY SMT DEF TwoInRange, IsScalar, Two, LeadsOfTwo, Tails
<1> QED  BY <1>1, <1>2

LEMMA ThreeBytes ==
  ASSUME NEW a \in LeadsOfThree, NEW b \in Tails, NEW c \in Tails
  PROVE  ThreeInRange(a, b) <=> IsScalar(Three(a, b, c), Smallest[3])
<1>1. Smallest[3] = 2048
  BY SMT DEF Smallest
<1>2. ThreeInRange(a, b) <=> IsScalar(Three(a, b, c), 2048)
  BY SMT DEF ThreeInRange, IsScalar, Three, LeadsOfThree, Tails
<1> QED  BY <1>1, <1>2, SMT

LEMMA FourBytes ==
  ASSUME NEW a \in LeadsOfFour, NEW b \in Tails, NEW c \in Tails, NEW d \in Tails
  PROVE  FourInRange(a, b) <=> IsScalar(Four(a, b, c, d), Smallest[4])
<1>1. Smallest[4] = 65536
  BY SMT DEF Smallest
<1>2. FourInRange(a, b) <=> IsScalar(Four(a, b, c, d), 65536)
  BY SMT DEF FourInRange, IsScalar, Four, LeadsOfFour, Tails
<1> QED  BY <1>1, <1>2, SMT

LEMMA ScalarIs ==
  ASSUME NEW text, NEW k, text[k + 1] \in Tails
  PROVE  /\ text[k] \in LeadsOfTwo => Scalar(text, k, 2) = Two(text[k], text[k + 1])
         /\ text[k] \in LeadsOfThree /\ text[k + 2] \in Tails
              => Scalar(text, k, 3) = Three(text[k], text[k + 1], text[k + 2])
         /\ text[k] \in LeadsOfFour /\ text[k + 2] \in Tails /\ text[k + 3] \in Tails
              => Scalar(text, k, 4) = Four(text[k], text[k + 1], text[k + 2], text[k + 3])
<1>1. ASSUME text[k] \in LeadsOfTwo PROVE Scalar(text, k, 2) = Two(text[k], text[k + 1])
  <2>1. text[k] % 32 = text[k] - 192 /\ text[k + 1] % 64 = text[k + 1] - 128
    BY <1>1, Remainders
  <2> QED  BY <2>1, SMT DEF Scalar, Two
<1>2. ASSUME text[k] \in LeadsOfThree, text[k + 2] \in Tails
      PROVE  Scalar(text, k, 3) = Three(text[k], text[k + 1], text[k + 2])
  <2>1. /\ text[k] % 16 = text[k] - 224 /\ text[k + 1] % 64 = text[k + 1] - 128
        /\ text[k + 2] % 64 = text[k + 2] - 128
    BY <1>2, Remainders
  <2> QED  BY <2>1, SMT DEF Scalar, Three
<1>3. ASSUME text[k] \in LeadsOfFour, text[k + 2] \in Tails, text[k + 3] \in Tails
      PROVE  Scalar(text, k, 4) = Four(text[k], text[k + 1], text[k + 2], text[k + 3])
  <2>1. /\ text[k] % 8 = text[k] - 240 /\ text[k + 1] % 64 = text[k + 1] - 128
        /\ text[k + 2] % 64 = text[k + 2] - 128 /\ text[k + 3] % 64 = text[k + 3] - 128
    BY <1>3, Remainders
  <2> QED  BY <2>1, SMT DEF Scalar, Four
<1> QED  BY <1>1, <1>2, <1>3

LEMMA EncodesIs ==
  ASSUME NEW text, NEW k, NEW length \in 1..4
  PROVE  Encodes(text, k, length)
         <=> Continues(text, k, length) /\ IsScalar(Scalar(text, k, length), Smallest[length])
BY SMT DEF Encodes, IsScalar

LEMMA ContinuesIs ==
  ASSUME NEW text, NEW k
  PROVE  /\ Continues(text, k, 2) => text[k + 1] \in Tails
         /\ Continues(text, k, 3) => text[k + 1] \in Tails /\ text[k + 2] \in Tails
         /\ Continues(text, k, 4)
              => text[k + 1] \in Tails /\ text[k + 2] \in Tails /\ text[k + 3] \in Tails
BY SMT DEF Continues, Tails

\* What utf8_sequence_length answers, by the kind of the first byte.
LEMMA SequenceLengthIs ==
  ASSUME NEW text, NEW k
  PROVE  /\ text[k] \in Ascii => SequenceLength(text, k) = 1
         /\ text[k] \in LeadsOfTwo =>
              SequenceLength(text, k)
                = IF TwoInRange(text[k]) /\ Continues(text, k, 2) THEN 2 ELSE 0
         /\ text[k] \in LeadsOfThree =>
              SequenceLength(text, k)
                = IF ThreeInRange(text[k], text[k + 1]) /\ Continues(text, k, 3) THEN 3 ELSE 0
         /\ text[k] \in LeadsOfFour =>
              SequenceLength(text, k)
                = IF FourInRange(text[k], text[k + 1]) /\ Continues(text, k, 4) THEN 4 ELSE 0
         /\ text[k] \in NoLeads => SequenceLength(text, k) = 0
<1>1. /\ \A a \in Ascii : a < 128
      /\ \A a \in LeadsOfTwo \cup LeadsOfThree \cup LeadsOfFour \cup NoLeads : ~(a < 128)
      /\ \A a \in LeadsOfThree \cup LeadsOfFour \cup NoLeads : a \notin 194..223
      /\ \A a \in LeadsOfThree : a \in 224..239
      /\ \A a \in LeadsOfTwo \cup LeadsOfFour \cup NoLeads : a \notin 224..239
      /\ \A a \in LeadsOfTwo \cup LeadsOfThree \cup NoLeads : a \notin 240..244
  BY SMT DEF Ascii, Tails, LeadsOfTwo, LeadsOfThree, LeadsOfFour, NoLeads
<1>2. ASSUME text[k] \in Ascii PROVE SequenceLength(text, k) = 1
  <2>1. text[k] < 128 /\ text[k] \notin 194..223 /\ text[k] \notin 224..239 /\ text[k] \notin 240..244
    <3>1. \A a \in Ascii : a < 128 /\ a \notin 194..223 /\ a \notin 224..239 /\ a \notin 240..244
      BY SMT DEF Ascii
    <3> QED  BY <1>2, <3>1
  <2> QED  BY <2>1 DEF SequenceLength, ValidThree, ValidFour
<1>3. ASSUME text[k] \in LeadsOfTwo
      PROVE  SequenceLength(text, k)
               = IF TwoInRange(text[k]) /\ Continues(text, k, 2) THEN 2 ELSE 0
  <2>1. ~(text[k] < 128) /\ text[k] \notin 224..239 /\ text[k] \notin 240..244
    BY <1>1, <1>3
  <2> QED  BY <2>1 DEF SequenceLength, ValidThree, ValidFour, TwoInRange
<1>4. ASSUME text[k] \in LeadsOfThree
      PROVE  SequenceLength(text, k)
               = IF ThreeInRange(text[k], text[k + 1]) /\ Continues(text, k, 3) THEN 3 ELSE 0
  <2>1. /\ ~(text[k] < 128) /\ text[k] \notin 194..223
        /\ text[k] \in 224..239 /\ text[k] \notin 240..244
    BY <1>1, <1>4
  <2> QED  BY <2>1 DEF SequenceLength, ValidThree, ValidFour, ThreeInRange
<1>5. ASSUME text[k] \in LeadsOfFour
      PROVE  SequenceLength(text, k)
               = IF FourInRange(text[k], text[k + 1]) /\ Continues(text, k, 4) THEN 4 ELSE 0
  <2>1. ~(text[k] < 128) /\ text[k] \notin 194..223 /\ text[k] \notin 224..239
    BY <1>1, <1>5
  <2> QED  BY <2>1 DEF SequenceLength, ValidThree, ValidFour, FourInRange
<1>6. ASSUME text[k] \in NoLeads PROVE SequenceLength(text, k) = 0
  <2>1. /\ ~(text[k] < 128) /\ text[k] \notin 194..223
        /\ text[k] \notin 224..239 /\ text[k] \notin 240..244
    BY <1>1, <1>6
  <2> QED  BY <2>1 DEF SequenceLength, ValidThree, ValidFour
<1> QED  BY <1>2, <1>3, <1>4, <1>5, <1>6

LEMMA AsciiEncodes ==
  ASSUME NEW text, NEW k \in Nat, k <= Len(text), Len(text) \in Nat, text[k] \in Ascii
  PROVE  Encodes(text, k, 1)
<1>1. Scalar(text, k, 1) = text[k]
  BY DEF Scalar
<1>2. Continues(text, k, 1)
  BY DEF Continues
<1>3. \A a \in Ascii : IsScalar(a, Smallest[1])
  BY SMTT(30) DEF Ascii, IsScalar, Smallest
<1> QED  BY <1>1, <1>2, <1>3, EncodesIs

\* The ranges of bytes of utf8_sequence_length (cli_output.c) are those of UTF-8: the shortest
\* encodings of the numbers up to U+10FFFF that are no surrogates.
THEOREM RangesAreUtf8 ==
  ASSUME NEW text \in Seq(1..255), NEW k \in 1..Len(text)
  PROVE  SequenceLength(text, k) = IF Encodes(text, k, Announced(text[k]))
                                   THEN Announced(text[k]) ELSE 0
<1> DEFINE byte == text[k]
<1>1. byte \in 1..255
  BY ElementOfSeq
<1>2. Len(text) \in Nat
  BY LenProperties
<1>3. CASE byte \in Ascii
  <2>1. k \in Nat /\ k <= Len(text)
    BY <1>2
  <2>2. Encodes(text, k, 1)
    BY <1>2, <1>3, <2>1, AsciiEncodes
  <2> QED  BY <1>3, <2>2, AnnouncedIs, SequenceLengthIs
<1>4. CASE byte \in LeadsOfTwo
  <2>1. Continues(text, k, 2) => (TwoInRange(byte) <=> IsScalar(Scalar(text, k, 2), Smallest[2]))
    BY <1>4, ContinuesIs, ScalarIs, TwoBytes
  <2> QED  BY <1>4, <2>1, EncodesIs, AnnouncedIs, SequenceLengthIs
<1>5. CASE byte \in LeadsOfThree
  <2>1. Continues(text, k, 3) =>
          (ThreeInRange(byte, text[k + 1]) <=> IsScalar(Scalar(text, k, 3), Smallest[3]))
    BY <1>5, ContinuesIs, ScalarIs, ThreeBytes
  <2> QED  BY <1>5, <2>1, EncodesIs, AnnouncedIs, SequenceLengthIs
<1>6. CASE byte \in LeadsOfFour
  <2>1. Continues(text, k, 4) =>
          (FourInRange(byte, text[k + 1]) <=> IsScalar(Scalar(text, k, 4), Smallest[4]))
    BY <1>6, ContinuesIs, ScalarIs, FourBytes
  <2> QED  BY <1>6, <2>1, EncodesIs, AnnouncedIs, SequenceLengthIs
<1>7. CASE byte \in NoLeads
  <2>1. Announced(byte) = 0 /\ SequenceLength(text, k) = 0
    BY <1>7, AnnouncedIs, SequenceLengthIs
  <2> QED  BY <2>1
<1> QED  BY <1>1, <1>3, <1>4, <1>5, <1>6, <1>7, EveryByte

--------------------------------------------------------------------------------
(* The three loops *)

\* What each prints and how far it goes.
StrayPieces(text) ==
  [k \in 1..Len(text) |-> IF Encodes(text, k, Announced(text[k])) THEN <<>> ELSE <<text[k]>>]
StraySteps(text) ==
  [k \in 1..Len(text) |-> IF Encodes(text, k, Announced(text[k])) THEN Announced(text[k]) ELSE 1]
ReadPieces(line) ==
  [k \in 1..Len(line) |-> <<IF IsEscape(line, k) THEN Unescaped(line, k) ELSE line[k]>>]
ReadSteps(line) ==
  [k \in 1..Len(line) |-> IF IsEscape(line, k) THEN EscapeLength(line[k + 1]) ELSE 1]
PrintedPieces(format, text) == [k \in 1..Len(text) |-> Printed(format, text, k)]
PrintedSteps(text) == [k \in 1..Len(text) |-> Taken(text, k)]

LEMMA LoopsAre ==
  /\ \A text : Strays(text) = Joined(Len(text), StrayPieces(text), StraySteps(text))
  /\ \A line : ReadBack(line) = Joined(Len(line), ReadPieces(line), ReadSteps(line))
  /\ \A format, text :
       Written(format, text) = Joined(Len(text), PrintedPieces(format, text), PrintedSteps(text))
BY Zenon DEF Strays, StrayPieces, StraySteps, ReadBack, ReadPieces, ReadSteps,
             Written, PrintedPieces, PrintedSteps

\* A byte announces at most four, and a character has its bytes in the text.
LEMMA EncodesInside ==
  ASSUME NEW text \in Seq(1..255), NEW k \in 1..Len(text),
         Encodes(text, k, Announced(text[k]))
  PROVE  Announced(text[k]) \in 1..4 /\ k + Announced(text[k]) - 1 <= Len(text)
<1>1. text[k] \in 1..255
  BY ElementOfSeq
<1>2. Announced(text[k]) \in 0..4
  <2>1. 0 \in 0..4 /\ 1 \in 0..4 /\ 2 \in 0..4 /\ 3 \in 0..4 /\ 4 \in 0..4
    BY SMT
  <2>2. text[k] \in Ascii \cup LeadsOfTwo \cup LeadsOfThree \cup LeadsOfFour \cup NoLeads
    BY <1>1, EveryByte
  <2>3. \A byte \in Ascii \cup LeadsOfTwo \cup LeadsOfThree \cup LeadsOfFour \cup NoLeads :
          Announced(byte) \in 0..4
    BY <2>1, AnnouncedIs
  <2> QED  BY <2>2, <2>3
<1>3. \A n \in 0..4 : Encodes(text, k, n) => n > 0 /\ k + n - 1 <= Len(text)
  BY SMT DEF Encodes, Continues
<1>4. Announced(text[k]) > 0 /\ k + Announced(text[k]) - 1 <= Len(text)
  BY <1>2, <1>3
<1>5. \A n \in 0..4 : n > 0 => n \in 1..4
  BY SMT
<1> QED  BY <1>2, <1>4, <1>5

LEMMA StraysAdvance ==
  ASSUME NEW text \in Seq(1..255)
  PROVE  Advances(Len(text), StraySteps(text))
<1> SUFFICES ASSUME NEW k \in 1..Len(text) PROVE StraySteps(text)[k] \in 1..(Len(text) + 1 - k)
  BY DEF Advances
<1>1. Len(text) \in Nat
  BY LenProperties
<1>2. CASE Encodes(text, k, Announced(text[k]))
  <2>1. StraySteps(text)[k] = Announced(text[k])
    BY <1>2 DEF StraySteps
  <2>2. \A n \in 1..4 : k + n - 1 <= Len(text) => n \in 1..(Len(text) + 1 - k)
    BY <1>1
  <2> QED  BY <1>2, <2>1, <2>2, EncodesInside
<1>3. CASE ~Encodes(text, k, Announced(text[k]))
  <2>1. StraySteps(text)[k] = 1
    BY <1>3 DEF StraySteps
  <2> QED  BY <1>1, <2>1
<1> QED  BY <1>2, <1>3

LEMMA EscapeLengthIs == \A character : EscapeLength(character) \in {2, 4, 6}
BY SMT DEF EscapeLength

LEMMA ReadAdvances ==
  ASSUME NEW line \in Seq(1..255)
  PROVE  Advances(Len(line), ReadSteps(line))
<1> SUFFICES ASSUME NEW k \in 1..Len(line) PROVE ReadSteps(line)[k] \in 1..(Len(line) + 1 - k)
  BY DEF Advances
<1>1. Len(line) \in Nat
  BY LenProperties
<1>2. CASE IsEscape(line, k)
  <2>1. ReadSteps(line)[k] = EscapeLength(line[k + 1])
    BY <1>2 DEF ReadSteps
  <2>2. \A n \in {2, 4, 6} : k + n <= Len(line) + 1 => n \in 1..(Len(line) + 1 - k)
    BY <1>1
  <2>3. k + EscapeLength(line[k + 1]) <= Len(line) + 1
    BY <1>2 DEF IsEscape
  <2> QED  BY <2>1, <2>2, <2>3, EscapeLengthIs
<1>3. CASE ~IsEscape(line, k)
  <2>1. ReadSteps(line)[k] = 1
    BY <1>3 DEF ReadSteps
  <2> QED  BY <1>1, <2>1
<1> QED  BY <1>2, <1>3

LEMMA TakenIs ==
  ASSUME NEW text \in Seq(1..255), NEW k \in 1..Len(text)
  PROVE  Taken(text, k) = StraySteps(text)[k] /\ Taken(text, k) \in 1..4
<1>1. CASE Encodes(text, k, Announced(text[k]))
  <2>1. SequenceLength(text, k) = Announced(text[k])
    BY <1>1, RangesAreUtf8
  <2>2. Announced(text[k]) \in 1..4
    BY <1>1, EncodesInside
  <2>3. \A n \in 1..4 : n # 0
    BY SMT
  <2>4. Taken(text, k) = Announced(text[k])
    BY <2>1, <2>2, <2>3 DEF Taken
  <2> QED  BY <1>1, <2>2, <2>4 DEF StraySteps
<1>2. CASE ~Encodes(text, k, Announced(text[k]))
  <2>1. SequenceLength(text, k) = 0
    BY <1>2, RangesAreUtf8
  <2>2. 1 \in 1..4
    BY SMT
  <2> QED  BY <1>2, <2>1, <2>2 DEF Taken, StraySteps
<1> QED  BY <1>1, <1>2

LEMMA WrittenAdvances ==
  ASSUME NEW text \in Seq(1..255)
  PROVE  Advances(Len(text), PrintedSteps(text))
<1>1. \A k \in 1..Len(text) : PrintedSteps(text)[k] = StraySteps(text)[k]
  BY TakenIs DEF PrintedSteps
<1> QED  BY <1>1, StraysAdvance DEF Advances

\* A line made of a token and a rest, place by place.
LEMMA Behind ==
  ASSUME NEW token \in Seq(1..255), NEW rest \in Seq(1..255)
  PROVE  /\ token \o rest \in Seq(1..255)
         /\ Len(token \o rest) = Len(token) + Len(rest)
         /\ Len(token) \in Nat /\ Len(rest) \in Nat
         /\ \A n \in 1..Len(token) : (token \o rest)[n] = token[n]
         /\ \A n \in 1..Len(rest) : (token \o rest)[Len(token) + n] = rest[n]
<1>1. Len(token) \in Nat /\ Len(rest) \in Nat
  BY LenProperties
<1>2. /\ token \o rest \in Seq(1..255)
      /\ Len(token \o rest) = Len(token) + Len(rest)
      /\ \A i \in 1..(Len(token) + Len(rest)) :
           (token \o rest)[i] = IF i <= Len(token) THEN token[i] ELSE rest[i - Len(token)]
  BY ConcatProperties
<1>3. ASSUME NEW n \in 1..Len(token) PROVE (token \o rest)[n] = token[n]
  <2>1. n \in 1..(Len(token) + Len(rest)) /\ n <= Len(token)
    BY <1>1
  <2> QED  BY <1>2, <2>1
<1>4. ASSUME NEW n \in 1..Len(rest) PROVE (token \o rest)[Len(token) + n] = rest[n]
  <2>1. /\ Len(token) + n \in 1..(Len(token) + Len(rest)) /\ ~(Len(token) + n <= Len(token))
        /\ (Len(token) + n) - Len(token) = n
    BY <1>1
  <2> QED  BY <1>2, <2>1
<1> QED  BY <1>1, <1>2, <1>3, <1>4

\* A loop whose first step takes a token goes on with the rest as if that were all.
LEMMA FirstToken ==
  ASSUME NEW taken \in Nat, NEW size \in Nat, taken # 0,
         NEW pieces, NEW steps, NEW others, NEW otherSteps, steps[1] = taken,
         Continued(taken, size, pieces, steps, others, otherSteps)
  PROVE  Joined(taken + size, pieces, steps) = pieces[1] \o Joined(size, others, otherSteps)
<1>1. Remaining(taken + size, pieces, steps)[taken + 1] = Joined(size, others, otherSteps)
  BY LoopsAgree
<1>2. taken + size \in Nat /\ 1 \in 1..(taken + size) /\ 1 + taken = taken + 1
  OBVIOUS
<1>3. Unfolds(Remaining(taken + size, pieces, steps), taken + size, pieces, steps)
  <2>1. Advances(taken + size, steps)
    BY DEF Continued
  <2> QED  BY <1>2, <2>1, RemainingIs
<1>4. Remaining(taken + size, pieces, steps)[1]
        = pieces[1] \o Remaining(taken + size, pieces, steps)[1 + steps[1]]
  BY <1>2, <1>3 DEF Unfolds
<1> QED  BY <1>1, <1>2, <1>4 DEF Joined

\* Behind a token the rest holds the characters that it holds alone.
LEMMA EncodesBehind ==
  ASSUME NEW token \in Seq(1..255), NEW rest \in Seq(1..255), NEW k \in 1..Len(rest)
  PROVE  LET line == token \o rest
             at == Len(token) + k
         IN  Encodes(line, at, Announced(line[at])) <=> Encodes(rest, k, Announced(rest[k]))
<1> DEFINE line == token \o rest
           at == Len(token) + k
<1>1. /\ line \in Seq(1..255) /\ Len(line) = Len(token) + Len(rest)
      /\ Len(token) \in Nat /\ Len(rest) \in Nat
      /\ \A n \in 1..Len(rest) : line[Len(token) + n] = rest[n]
  BY Behind
<1> HIDE DEF line
<1>2. line[at] = rest[k] /\ at \in 1..Len(line)
  BY <1>1
<1> DEFINE length == Announced(rest[k])
<1>3. ASSUME NEW size \in 1..4, k + size - 1 <= Len(rest)
      PROVE  Encodes(line, at, size) <=> Encodes(rest, k, size)
  <2>1. at \in Nat /\ k \in Nat /\ at + size - 1 <= Len(line) /\ Len(line) \in Nat
    BY <1>1, <1>3
  <2>2. ASSUME NEW n \in 0..(size - 1) PROVE line[at + n] = rest[k + n]
    <3>1. k + n \in 1..Len(rest) /\ Len(token) + (k + n) = at + n
      BY <1>1, <1>3
    <3> QED  BY <1>1, <3>1
  <2> QED  BY <1>1, <1>3, <2>1, <2>2, EncodesSame
<1>4. Encodes(rest, k, length) => Encodes(line, at, length)
  BY <1>3, EncodesInside
<1>5. ASSUME Encodes(line, at, length) PROVE Encodes(rest, k, length)
  <2>1. length \in 1..4 /\ at + length - 1 <= Len(line)
    BY <1>1, <1>2, <1>5, EncodesInside
  <2>2. k + length - 1 <= Len(rest)
    <3> HIDE DEF length
    <3> QED  BY <1>1, <2>1
  <2> QED  BY <1>3, <1>5, <2>1, <2>2
<1> QED  BY <1>2, <1>4, <1>5 DEF line

LEMMA StraysBehind ==
  ASSUME NEW token \in Seq(1..255), NEW rest \in Seq(1..255), Len(token) # 0,
         StraySteps(token \o rest)[1] = Len(token)
  PROVE  Strays(token \o rest) = StrayPieces(token \o rest)[1] \o Strays(rest)
<1> DEFINE line == token \o rest
<1>1. /\ line \in Seq(1..255) /\ Len(line) = Len(token) + Len(rest)
      /\ Len(token) \in Nat /\ Len(rest) \in Nat
      /\ \A n \in 1..Len(rest) : line[Len(token) + n] = rest[n]
  BY Behind
<1>2. ASSUME NEW k \in 1..Len(rest)
      PROVE  /\ StrayPieces(line)[Len(token) + k] = StrayPieces(rest)[k]
             /\ StraySteps(line)[Len(token) + k] = StraySteps(rest)[k]
  <2>1. line[Len(token) + k] = rest[k] /\ Len(token) + k \in 1..Len(line)
    BY <1>1
  <2>2. Encodes(line, Len(token) + k, Announced(line[Len(token) + k]))
          <=> Encodes(rest, k, Announced(rest[k]))
    BY EncodesBehind
  <2> HIDE DEF line
  <2> QED  BY <2>1, <2>2 DEF StrayPieces, StraySteps
<1>3. Advances(Len(token) + Len(rest), StraySteps(line)) /\ Advances(Len(rest), StraySteps(rest))
  BY <1>1, StraysAdvance
<1> HIDE DEF line
<1>4. Continued(Len(token), Len(rest), StrayPieces(line), StraySteps(line),
                StrayPieces(rest), StraySteps(rest))
  BY <1>2, <1>3 DEF Continued
<1>5. Joined(Len(token) + Len(rest), StrayPieces(line), StraySteps(line))
        = StrayPieces(line)[1] \o Joined(Len(rest), StrayPieces(rest), StraySteps(rest))
  <2>1. StraySteps(line)[1] = Len(token)
    BY DEF line
  <2> QED  BY <1>1, <1>4, <2>1, FirstToken
<1> QED  BY <1>1, <1>5, LoopsAre DEF line

LEMMA StraysTyped ==
  ASSUME NEW text \in Seq(1..255)
  PROVE  /\ Strays(text) \in Seq(1..255)
         /\ \A k \in 1..(Len(text) + 1) :
              Remaining(Len(text), StrayPieces(text), StraySteps(text))[k] \in Seq(1..255)
<1>1. Len(text) \in Nat
  BY LenProperties
<1>2. ASSUME NEW k \in 1..Len(text) PROVE StrayPieces(text)[k] \in Seq(1..255)
  <2>1. text[k] \in 1..255
    BY ElementOfSeq
  <2>2. <<>> \in Seq(1..255) /\ <<text[k]>> \in Seq(1..255)
    BY <2>1, EmptySeq
  <2> QED  BY <2>2 DEF StrayPieces
<1>3. \A k \in 1..(Len(text) + 1) :
        Remaining(Len(text), StrayPieces(text), StraySteps(text))[k] \in Seq(1..255)
  BY <1>1, <1>2, StraysAdvance, RemainingTyped
<1>4. 1 \in 1..(Len(text) + 1)
  BY <1>1
<1> QED  BY <1>3, <1>4, LoopsAre DEF Joined

\* A character in front adds no stray, and an ASCII character is one.
LEMMA CharacterInFront ==
  ASSUME NEW token \in Seq(1..255), NEW rest \in Seq(1..255), Len(token) # 0,
         Announced((token \o rest)[1]) = Len(token), Encodes(token \o rest, 1, Len(token))
  PROVE  Strays(token \o rest) = Strays(rest)
<1> DEFINE line == token \o rest
<1>1. 1 \in 1..Len(line)
  BY Behind
<1> HIDE DEF line
<1>2. StraySteps(line)[1] = Len(token) /\ StrayPieces(line)[1] = <<>>
  BY <1>1 DEF StraySteps, StrayPieces, line
<1>3. Strays(line) = <<>> \o Strays(rest)
  BY <1>2, StraysBehind DEF line
<1> QED  BY <1>3, StraysTyped, ConcatEmptySeq DEF line

LEMMA AsciiInFront ==
  ASSUME NEW byte \in Ascii, NEW rest \in Seq(1..255)
  PROVE  Strays(<<byte>> \o rest) = Strays(rest)
<1> DEFINE token == <<byte>>
<1>1. token \in Seq(1..255) /\ Len(token) = 1 /\ token[1] = byte
  <2>1. byte \in 1..255
    BY EveryByte
  <2> QED  BY <2>1
<1> HIDE DEF token
<1>2. /\ token \o rest \in Seq(1..255) /\ (token \o rest)[1] = byte
      /\ Len(token \o rest) \in Nat /\ 1 <= Len(token \o rest)
  BY <1>1, Behind
<1>3. Encodes(token \o rest, 1, 1)
  BY <1>2, AsciiEncodes
<1>4. Announced((token \o rest)[1]) = Len(token) /\ Encodes(token \o rest, 1, Len(token))
  BY <1>1, <1>2, <1>3, AnnouncedIs
<1>5. Len(token) # 0
  BY <1>1
<1>6. Strays(token \o rest) = Strays(rest)
  BY <1>1, <1>4, <1>5, CharacterInFront
<1> QED  BY <1>6 DEF token

--------------------------------------------------------------------------------
(* Reading escapes back *)

LEMMA LettersAre ==
  /\ Letter.b = 98 /\ Letter.f = 102 /\ Letter.n = 110 /\ Letter.r = 114
  /\ Letter.t = 116 /\ Letter.u = 117 /\ Letter.x = 120
BY SMT DEF Letter

\* Whether bytes are an escape, and of what, depends on those bytes alone.
LEMMA EscapeSame ==
  ASSUME NEW s \in Seq(1..255), NEW i \in Nat, NEW t \in Seq(1..255), NEW k \in 1..Len(t),
         IsEscape(t, k), i + EscapeLength(t[k + 1]) <= Len(s) + 1,
         \A n \in 0..(EscapeLength(t[k + 1]) - 1) : s[i + n] = t[k + n]
  PROVE  /\ IsEscape(s, i) /\ EscapeLength(s[i + 1]) = EscapeLength(t[k + 1])
         /\ Unescaped(s, i) = Unescaped(t, k)
<1> DEFINE character == t[k + 1]
           length == EscapeLength(character)
<1>1. Len(s) \in Nat /\ Len(t) \in Nat
  BY LenProperties
<1>2. length \in {2, 4, 6}
  BY EscapeLengthIs
<1>3. t[k] = Backslash /\ k < Len(t)
  BY DEF IsEscape
<1>4. s[i] = t[k] /\ s[i + 1] = t[k + 1]
  <2>1. 0 \in 0..(length - 1) /\ 1 \in 0..(length - 1) /\ i + 0 = i /\ k + 0 = k
    BY <1>2
  <2>2. s[i + 0] = t[k + 0] /\ s[i + 1] = t[k + 1]
    BY <2>1
  <2> QED  BY <2>1, <2>2
<1>5. i < Len(s)
  <2>1. \A n \in {2, 4, 6} : i + n <= Len(s) + 1 => i < Len(s)
    BY <1>1
  <2> QED  BY <1>2, <2>1
<1>6. IsEscape(s, i)
  BY <1>3, <1>4, <1>5 DEF IsEscape
<1>7. CASE character = Letter.x
  <2>1. length = 4
    BY <1>7, LettersAre DEF EscapeLength
  <2>2. 2 \in 0..(4 - 1) /\ 3 \in 0..(4 - 1)
    BY SMT
  <2>3. s[i + 2] = t[k + 2] /\ s[i + 3] = t[k + 3]
    BY <2>1, <2>2
  <2>4. (i + 2) + 1 = i + 3 /\ (k + 2) + 1 = k + 3
    OBVIOUS
  <2>5. Byte(s, i + 2) = Byte(t, k + 2)
    BY <2>3, <2>4, Zenon DEF Byte
  <2>6. Unescaped(s, i) = Byte(s, i + 2) /\ Unescaped(t, k) = Byte(t, k + 2)
    BY <1>4, <1>7, LettersAre DEF Unescaped
  <2> QED  BY <1>4, <1>6, <2>5, <2>6
<1>8. CASE character = Letter.u
  <2>1. length = 6
    BY <1>8, LettersAre DEF EscapeLength
  <2>2. 4 \in 0..(6 - 1) /\ 5 \in 0..(6 - 1)
    BY SMT
  <2>3. s[i + 4] = t[k + 4] /\ s[i + 5] = t[k + 5]
    BY <2>1, <2>2
  <2>4. (i + 4) + 1 = i + 5 /\ (k + 4) + 1 = k + 5
    OBVIOUS
  <2>5. Byte(s, i + 4) = Byte(t, k + 4)
    BY <2>3, <2>4, Zenon DEF Byte
  <2>6. Unescaped(s, i) = Byte(s, i + 4) /\ Unescaped(t, k) = Byte(t, k + 4)
    BY <1>4, <1>8, LettersAre DEF Unescaped
  <2> QED  BY <1>4, <1>6, <2>5, <2>6
<1>9. CASE character # Letter.x /\ character # Letter.u
  <2>1. Unescaped(s, i) = Unescaped(t, k)
    BY <1>4, <1>9 DEF Unescaped
  <2> QED  BY <1>4, <1>6, <2>1
<1> QED  BY <1>7, <1>8, <1>9

LEMMA EscapeBehind ==
  ASSUME NEW token \in Seq(1..255), NEW rest \in Seq(1..255), NEW k \in 1..Len(rest)
  PROVE  LET line == token \o rest
             at == Len(token) + k
         IN  /\ IsEscape(line, at) <=> IsEscape(rest, k)
             /\ IsEscape(rest, k) => /\ EscapeLength(line[at + 1]) = EscapeLength(rest[k + 1])
                                     /\ Unescaped(line, at) = Unescaped(rest, k)
<1> DEFINE line == token \o rest
           at == Len(token) + k
<1>1. /\ line \in Seq(1..255) /\ Len(line) = Len(token) + Len(rest)
      /\ Len(token) \in Nat /\ Len(rest) \in Nat
      /\ \A n \in 1..Len(rest) : line[Len(token) + n] = rest[n]
  BY Behind
<1> HIDE DEF line
<1>2. ASSUME IsEscape(rest, k)
      PROVE  /\ IsEscape(line, at) /\ EscapeLength(line[at + 1]) = EscapeLength(rest[k + 1])
             /\ Unescaped(line, at) = Unescaped(rest, k)
  <2> DEFINE length == EscapeLength(rest[k + 1])
  <2>1. length \in {2, 4, 6}
    BY EscapeLengthIs
  <2>2. k + length <= Len(rest) + 1
    BY <1>2 DEF IsEscape
  <2> HIDE DEF length
  <2>3. at \in Nat /\ at + length <= Len(line) + 1
    BY <1>1, <2>1, <2>2
  <2>4. ASSUME NEW n \in 0..(length - 1) PROVE line[at + n] = rest[k + n]
    <3>1. k + n \in 1..Len(rest) /\ Len(token) + (k + n) = at + n
      BY <1>1, <2>1, <2>2
    <3> QED  BY <1>1, <3>1
  <2> QED  BY <1>1, <1>2, <2>3, <2>4, EscapeSame, ZenonT(60) DEF length
<1>3. ASSUME IsEscape(line, at) PROVE IsEscape(rest, k)
  <2>1. line[at] = Backslash /\ at < Len(line) /\ at + EscapeLength(line[at + 1]) <= Len(line) + 1
    BY <1>3 DEF IsEscape
  <2>2. k < Len(rest)
    BY <1>1, <2>1
  <2>3. k + 1 \in 1..Len(rest) /\ Len(token) + (k + 1) = at + 1
    BY <1>1, <2>2
  <2>4. line[at + 1] = rest[k + 1] /\ line[at] = rest[k]
    BY <1>1, <2>3
  <2>5. \A n \in {2, 4, 6} : at + n <= Len(line) + 1 => k + n <= Len(rest) + 1
    BY <1>1
  <2>6. k + EscapeLength(rest[k + 1]) <= Len(rest) + 1
    BY <2>1, <2>4, <2>5, EscapeLengthIs
  <2> QED  BY <2>1, <2>2, <2>4, <2>6 DEF IsEscape
<1> QED  BY <1>2, <1>3 DEF line

LEMMA ReadBehind ==
  ASSUME NEW token \in Seq(1..255), NEW rest \in Seq(1..255), Len(token) # 0,
         ReadSteps(token \o rest)[1] = Len(token)
  PROVE  ReadBack(token \o rest) = ReadPieces(token \o rest)[1] \o ReadBack(rest)
<1> DEFINE line == token \o rest
<1>1. /\ line \in Seq(1..255) /\ Len(line) = Len(token) + Len(rest)
      /\ Len(token) \in Nat /\ Len(rest) \in Nat
      /\ \A n \in 1..Len(rest) : line[Len(token) + n] = rest[n]
  BY Behind
<1>2. ASSUME NEW k \in 1..Len(rest)
      PROVE  /\ ReadPieces(line)[Len(token) + k] = ReadPieces(rest)[k]
             /\ ReadSteps(line)[Len(token) + k] = ReadSteps(rest)[k]
  <2>1. line[Len(token) + k] = rest[k] /\ Len(token) + k \in 1..Len(line)
    BY <1>1
  <2>2. /\ IsEscape(line, Len(token) + k) <=> IsEscape(rest, k)
        /\ IsEscape(rest, k) =>
             /\ EscapeLength(line[(Len(token) + k) + 1]) = EscapeLength(rest[k + 1])
             /\ Unescaped(line, Len(token) + k) = Unescaped(rest, k)
    BY EscapeBehind
  <2> HIDE DEF line
  <2> QED  BY <2>1, <2>2 DEF ReadPieces, ReadSteps
<1>3. Advances(Len(token) + Len(rest), ReadSteps(line)) /\ Advances(Len(rest), ReadSteps(rest))
  BY <1>1, ReadAdvances
<1> HIDE DEF line
<1>4. Continued(Len(token), Len(rest), ReadPieces(line), ReadSteps(line),
                ReadPieces(rest), ReadSteps(rest))
  BY <1>2, <1>3 DEF Continued
<1>5. Joined(Len(token) + Len(rest), ReadPieces(line), ReadSteps(line))
        = ReadPieces(line)[1] \o Joined(Len(rest), ReadPieces(rest), ReadSteps(rest))
  <2>1. ReadSteps(line)[1] = Len(token)
    BY DEF line
  <2> QED  BY <1>1, <1>4, <2>1, FirstToken
<1> QED  BY <1>1, <1>5, LoopsAre DEF line

\* A byte other than a backslash is read as it is.
LEMMA PlainInFront ==
  ASSUME NEW byte \in 1..255, byte # Backslash, NEW rest \in Seq(1..255)
  PROVE  ReadBack(<<byte>> \o rest) = <<byte>> \o ReadBack(rest)
<1> DEFINE token == <<byte>>
<1>1. token \in Seq(1..255) /\ Len(token) = 1 /\ token[1] = byte
  OBVIOUS
<1> HIDE DEF token
<1>2. (token \o rest)[1] = byte /\ 1 \in 1..Len(token \o rest)
  BY <1>1, Behind
<1>3. ~IsEscape(token \o rest, 1)
  BY <1>2 DEF IsEscape
<1>4. ReadSteps(token \o rest)[1] = 1 /\ ReadPieces(token \o rest)[1] = <<byte>>
  BY <1>2, <1>3 DEF ReadSteps, ReadPieces
<1>5. Len(token) # 0
  BY <1>1
<1>6. ReadBack(token \o rest) = ReadPieces(token \o rest)[1] \o ReadBack(rest)
  BY <1>1, <1>4, <1>5, ReadBehind
<1> QED  BY <1>4, <1>6 DEF token

\* An escape is read as what it stands for.
LEMMA EscapeInFront ==
  ASSUME NEW token \in Seq(1..255), NEW rest \in Seq(1..255),
         Len(token) \in {2, 4, 6}, token[1] = Backslash, EscapeLength(token[2]) = Len(token)
  PROVE  ReadBack(token \o rest) = <<Unescaped(token, 1)>> \o ReadBack(rest)
<1> DEFINE line == token \o rest
<1>1. /\ line \in Seq(1..255) /\ Len(line) = Len(token) + Len(rest)
      /\ Len(token) \in Nat /\ Len(rest) \in Nat
      /\ \A n \in 1..Len(token) : line[n] = token[n]
  BY Behind
<1> HIDE DEF line
<1>2. 1 \in 1..Len(token) /\ 1 \in 1..Len(line) /\ 1 < Len(token) /\ Len(token) # 0
  BY <1>1
<1>3. EscapeLength(token[1 + 1]) = Len(token) /\ 1 + Len(token) <= Len(token) + 1
  BY <1>1
<1>4. IsEscape(token, 1)
  BY <1>2, <1>3 DEF IsEscape
<1>5. 1 + Len(token) <= Len(line) + 1 /\ 1 \in Nat
  BY <1>1
<1>6. \A n \in 0..(EscapeLength(token[1 + 1]) - 1) : line[1 + n] = token[1 + n]
  <2>1. ASSUME NEW n \in 0..(Len(token) - 1) PROVE line[1 + n] = token[1 + n]
    <3>1. 1 + n \in 1..Len(token)
      BY <1>1
    <3> QED  BY <1>1, <3>1
  <2> QED  BY <1>3, <2>1
<1>7. /\ IsEscape(line, 1) /\ EscapeLength(line[1 + 1]) = Len(token)
      /\ Unescaped(line, 1) = Unescaped(token, 1)
  <2>1. 1 + EscapeLength(token[1 + 1]) <= Len(line) + 1
    BY <1>3, <1>5
  <2> QED  BY <1>1, <1>2, <1>3, <1>4, <1>5, <1>6, <2>1, EscapeSame, ZenonT(60)
<1>8. ReadSteps(line)[1] = Len(token) /\ ReadPieces(line)[1] = <<Unescaped(token, 1)>>
  BY <1>2, <1>7 DEF ReadSteps, ReadPieces
<1>9. ReadBack(line) = ReadPieces(line)[1] \o ReadBack(rest)
  BY <1>2, <1>8, ReadBehind DEF line
<1> QED  BY <1>8, <1>9 DEF line

--------------------------------------------------------------------------------
(* Every step of the loop prints one token *)

\* A token that is read as one byte.
Printable == 32..126
EscapeOf(token, byte) ==
  /\ token \in Seq(Printable)
  /\ Len(token) \in {2, 4, 6}
  /\ token[1] = Backslash /\ EscapeLength(token[2]) = Len(token)
  /\ Unescaped(token, 1) = byte

LEMMA HexDigitIs ==
  ASSUME NEW n \in 0..15
  PROVE  HexDigit(n) \in Printable /\ Value(HexDigit(n)) = n
BY SMT DEF HexDigit, Value, Zero, Printable

LEMMA HexIs ==
  ASSUME NEW byte \in 1..255
  PROVE  \E high, low \in Printable :
           Hex(byte) = <<high, low>> /\ 16 * Value(high) + Value(low) = byte
<1>1. byte \div 16 \in 0..15 /\ byte % 16 \in 0..15
  BY SMT
<1>2. 16 * (byte \div 16) + (byte % 16) = byte
  BY SMT
<1>3. Hex(byte) = <<HexDigit(byte \div 16), HexDigit(byte % 16)>>
  BY DEF Hex
<1>4. /\ HexDigit(byte \div 16) \in Printable /\ Value(HexDigit(byte \div 16)) = byte \div 16
      /\ HexDigit(byte % 16) \in Printable /\ Value(HexDigit(byte % 16)) = byte % 16
  BY <1>1, HexDigitIs
<1> QED  BY <1>2, <1>3, <1>4

LEMMA PrintableBytes == Printable \subseteq 1..255 /\ Printable \subseteq Ascii
BY SMT DEF Printable, Ascii

LEMMA UnicodeEscapes ==
  ASSUME NEW byte \in 1..255
  PROVE  EscapeOf(Unicode(byte), byte)
<1>1. PICK high \in Printable, low \in Printable :
        Hex(byte) = <<high, low>> /\ 16 * Value(high) + Value(low) = byte
  BY HexIs
<1> DEFINE front == <<Backslash, Letter.u, Zero, Zero>>
           back == <<high, low>>
<1>2. /\ front \in Seq(Printable) /\ Len(front) = 4
      /\ front[1] = Backslash /\ front[2] = Letter.u
  <2>1. Backslash \in Printable /\ Letter.u \in Printable /\ Zero \in Printable
    BY LettersAre, SMT DEF Backslash, Zero, Printable
  <2> QED  BY <2>1
<1>3. back \in Seq(Printable) /\ Len(back) = 2 /\ back[1] = high /\ back[2] = low
  OBVIOUS
<1>4. Unicode(byte) = front \o back
  BY <1>1 DEF Unicode
<1> DEFINE token == front \o back
<1> HIDE DEF front, back
<1>5. /\ token \in Seq(Printable) /\ Len(token) = 6
      /\ token[1] = Backslash /\ token[2] = Letter.u /\ token[5] = high /\ token[6] = low
  <2>1. /\ token \in Seq(Printable) /\ Len(token) = Len(front) + Len(back)
        /\ \A i \in 1..(Len(front) + Len(back)) :
             token[i] = IF i <= Len(front) THEN front[i] ELSE back[i - Len(front)]
    BY <1>2, <1>3, ConcatProperties
  <2> HIDE DEF token
  <2>2. \A i \in 1..6 : token[i] = IF i <= 4 THEN front[i] ELSE back[i - 4]
    BY <1>2, <1>3, <2>1
  <2> QED  BY <1>2, <1>3, <2>1, <2>2
<1> HIDE DEF token
<1>6. EscapeLength(token[2]) = 6
  BY <1>5, LettersAre DEF EscapeLength
<1>7. Unescaped(token, 1) = Byte(token, 1 + 4)
  BY <1>5, LettersAre DEF Unescaped
<1>8. Byte(token, 1 + 4) = 16 * Value(high) + Value(low)
  <2>1. 1 + 4 = 5 /\ (1 + 4) + 1 = 6
    OBVIOUS
  <2> QED  BY <1>5, <2>1, Zenon DEF Byte
<1>9. EscapeOf(token, byte)
  BY <1>1, <1>5, <1>6, <1>7, <1>8 DEF EscapeOf
<1> QED  BY <1>4, <1>9 DEF token

LEMMA HexEscapes ==
  ASSUME NEW byte \in 1..255
  PROVE  EscapeOf(<<Backslash, Letter.x>> \o Hex(byte), byte)
<1>1. PICK high \in Printable, low \in Printable :
        Hex(byte) = <<high, low>> /\ 16 * Value(high) + Value(low) = byte
  BY HexIs
<1> DEFINE front == <<Backslash, Letter.x>>
           back == <<high, low>>
<1>2. /\ front \in Seq(Printable) /\ Len(front) = 2
      /\ front[1] = Backslash /\ front[2] = Letter.x
  <2>1. Backslash \in Printable /\ Letter.x \in Printable
    BY LettersAre, SMT DEF Backslash, Printable
  <2> QED  BY <2>1
<1>3. back \in Seq(Printable) /\ Len(back) = 2 /\ back[1] = high /\ back[2] = low
  OBVIOUS
<1> DEFINE token == front \o back
<1>4. <<Backslash, Letter.x>> \o Hex(byte) = token
  BY <1>1
<1> HIDE DEF front, back
<1>5. /\ token \in Seq(Printable) /\ Len(token) = 4
      /\ token[1] = Backslash /\ token[2] = Letter.x /\ token[3] = high /\ token[4] = low
  <2>1. /\ token \in Seq(Printable) /\ Len(token) = Len(front) + Len(back)
        /\ \A i \in 1..(Len(front) + Len(back)) :
             token[i] = IF i <= Len(front) THEN front[i] ELSE back[i - Len(front)]
    BY <1>2, <1>3, ConcatProperties
  <2> HIDE DEF token
  <2>2. \A i \in 1..4 : token[i] = IF i <= 2 THEN front[i] ELSE back[i - 2]
    BY <1>2, <1>3, <2>1
  <2> QED  BY <1>2, <1>3, <2>1, <2>2
<1> HIDE DEF token
<1>6. EscapeLength(token[2]) = 4
  BY <1>5, LettersAre DEF EscapeLength
<1>7. Unescaped(token, 1) = Byte(token, 1 + 2)
  BY <1>5, LettersAre DEF Unescaped
<1>8. Byte(token, 1 + 2) = 16 * Value(high) + Value(low)
  <2>1. 1 + 2 = 3 /\ (1 + 2) + 1 = 4
    OBVIOUS
  <2> QED  BY <1>5, <2>1, Zenon DEF Byte
<1>9. EscapeOf(token, byte)
  BY <1>1, <1>5, <1>6, <1>7, <1>8 DEF EscapeOf
<1> QED  BY <1>4, <1>9

\* A character behind a backslash.
LEMMA PairEscapes ==
  ASSUME NEW character \in Printable, character # Letter.x, character # Letter.u
  PROVE  EscapeOf(<<Backslash, character>>, Unescaped(<<Backslash, character>>, 1))
<1>1. Backslash \in Printable
  BY SMT DEF Backslash, Printable
<1>2. EscapeLength(character) = 2
  BY DEF EscapeLength
<1> QED  BY <1>1, <1>2 DEF EscapeOf

LEMMA ControlEscapes ==
  ASSUME NEW byte \in 1..255
  PROVE  EscapeOf(Control(byte), byte)
<1>1. CASE byte \in {8, 9, 10, 12, 13}
  <2> DEFINE character == Short[byte]
  <2>1. /\ byte = 8 => character = Letter.b
        /\ byte = 9 => character = Letter.t
        /\ byte = 10 => character = Letter.n
        /\ byte = 12 => character = Letter.f
        /\ byte = 13 => character = Letter.r
    BY <1>1 DEF Short
  <2>2. character \in Printable /\ character # Letter.x /\ character # Letter.u
    BY <1>1, <2>1, LettersAre DEF Printable
  <2>3. Unescaped(<<Backslash, character>>, 1) = byte
    <3>1. <<Backslash, character>>[1 + 1] = character
      OBVIOUS
    <3> HIDE DEF character
    <3> QED  BY <1>1, <2>1, <3>1, LettersAre DEF Unescaped
  <2>4. Control(byte) = <<Backslash, character>>
    BY <1>1 DEF Control, Short
  <2> HIDE DEF character
  <2> QED  BY <2>2, <2>3, <2>4, PairEscapes
<1>2. CASE byte \notin {8, 9, 10, 12, 13}
  <2>1. Control(byte) = Unicode(byte)
    BY <1>2 DEF Control, Short
  <2> QED  BY <2>1, UnicodeEscapes
<1> QED  BY <1>1, <1>2

LEMMA QuotedEscapes ==
  ASSUME NEW byte \in {Quote, Backslash}
  PROVE  EscapeOf(<<Backslash, byte>>, byte)
<1>1. byte = 34 \/ byte = 92
  BY SMT DEF Quote, Backslash, Printable
<1>2. byte \in Printable
  BY SMT DEF Quote, Backslash, Printable
<1>3. byte # Letter.x /\ byte # Letter.u
  BY <1>1, LettersAre
<1>4. Unescaped(<<Backslash, byte>>, 1) = byte
  <2>1. <<Backslash, byte>>[1 + 1] = byte
    OBVIOUS
  <2> QED  BY <1>1, <2>1, LettersAre DEF Unescaped
<1> QED  BY <1>2, <1>3, <1>4, PairEscapes

\* The bytes that may appear in each format.
Clean(format) == IF format = "json" THEN 32..255 ELSE (32..255) \ {127}

LEMMA CleanBytes ==
  ASSUME NEW format
  PROVE  Printable \subseteq Clean(format) /\ 128..255 \subseteq Clean(format)
         /\ Clean(format) \subseteq 1..255
<1>1. Printable \subseteq 32..255 /\ Printable \subseteq (32..255) \ {127}
  BY SMT DEF Printable
<1>2. 128..255 \subseteq 32..255 /\ 128..255 \subseteq (32..255) \ {127}
  BY SMT
<1>3. 32..255 \subseteq 1..255
  BY SMT
<1> QED  BY <1>1, <1>2, <1>3, ZenonT(60) DEF Clean

LEMMA CharacterIs ==
  ASSUME NEW byte \in Ascii, NEW format
  PROVE  \/ EscapeOf(Character(format, byte), byte) /\ byte \notin Printable \ {Quote, Backslash}
         \/ Character(format, byte) = <<byte>> /\ byte # Backslash /\ byte \in Clean(format)
<1>1. byte \in 1..255
  BY EveryByte
<1>2. /\ byte < 32 => byte \notin Printable
      /\ byte = 127 => byte \notin Printable
      /\ ~(byte < 32) => byte \in 32..255
      /\ Quote # 127 /\ Quote # Backslash
  BY SMT DEF Ascii, Printable, Quote, Backslash
<1>3. CASE format = "json"
  <2>1. Character(format, byte) = JsonCharacter(byte) /\ Clean(format) = 32..255
    BY <1>3, Zenon DEF Character, Clean
  <2>2. CASE byte \in {Quote, Backslash}
    <3>1. JsonCharacter(byte) = <<Backslash, byte>>
      BY <2>2, Zenon DEF JsonCharacter
    <3> QED  BY <2>1, <2>2, <3>1, QuotedEscapes
  <2>3. CASE byte \notin {Quote, Backslash} /\ byte < 32
    <3>1. JsonCharacter(byte) = Control(byte)
      BY <2>3, Zenon DEF JsonCharacter
    <3> QED  BY <1>1, <1>2, <2>1, <2>3, <3>1, ControlEscapes
  <2>4. CASE byte \notin {Quote, Backslash} /\ ~(byte < 32)
    <3>1. JsonCharacter(byte) = <<byte>>
      BY <2>4, Zenon DEF JsonCharacter
    <3> QED  BY <1>2, <2>1, <2>4, <3>1
  <2> QED  BY <2>2, <2>3, <2>4
<1>4. CASE format # "json"
  <2>1. Character(format, byte) = TextCharacter(byte) /\ Clean(format) = (32..255) \ {127}
    BY <1>4, Zenon DEF Character, Clean
  <2>2. CASE byte = Backslash
    <3>1. TextCharacter(byte) = <<Backslash, byte>>
      BY <2>2, Zenon DEF TextCharacter
    <3> QED  BY <2>1, <2>2, <3>1, QuotedEscapes
  <2>3. CASE byte # Backslash /\ (byte < 32 \/ byte = 127)
    <3>1. TextCharacter(byte) = Control(byte)
      BY <2>3, Zenon DEF TextCharacter
    <3> QED  BY <1>1, <1>2, <2>1, <2>3, <3>1, ControlEscapes
  <2>4. CASE byte # Backslash /\ ~(byte < 32 \/ byte = 127)
    <3>1. TextCharacter(byte) = <<byte>>
      BY <2>4, Zenon DEF TextCharacter
    <3> QED  BY <1>2, <2>1, <2>4, <3>1
  <2> QED  BY <2>2, <2>3, <2>4
<1> QED  BY <1>3, <1>4

\* Taking a first element off a sequence.
LEMMA FirstOff ==
  ASSUME NEW S, NEW token \in Seq(S), Len(token) # 0
  PROVE  /\ token[1] \in S /\ SubSeq(token, 2, Len(token)) \in Seq(S)
         /\ Len(SubSeq(token, 2, Len(token))) = Len(token) - 1
         /\ token = <<token[1]>> \o SubSeq(token, 2, Len(token))
<1>1. Len(token) \in Nat
  BY LenProperties
<1>2. 1 \in 1..Len(token) /\ Len(token) \in 1..Len(token)
  BY <1>1
<1>3. token[1] \in S
  BY <1>2, ElementOfSeq
<1>4. \A i \in 2..Len(token) : token[i] \in S
  <2>1. 2..Len(token) \subseteq 1..Len(token)
    BY <1>1
  <2> QED  BY <2>1, ElementOfSeq
<1>5. /\ SubSeq(token, 2, Len(token)) \in Seq(S)
      /\ Len(SubSeq(token, 2, Len(token))) = IF 2 <= Len(token) THEN Len(token) - 2 + 1 ELSE 0
  <2>1. 2 \in Int /\ Len(token) \in Int
    BY <1>1
  <2> QED  BY <1>4, <2>1, SubSeqProperties
<1>6. Len(SubSeq(token, 2, Len(token))) = Len(token) - 1
  <2>1. Len(SubSeq(token, 2, Len(token))) = IF 2 <= Len(token) THEN Len(token) - 2 + 1 ELSE 0
    BY <1>5
  <2>2. \A n \in Nat : n # 0 => (IF 2 <= n THEN n - 2 + 1 ELSE 0) = n - 1
    BY SMT
  <2> QED  BY <1>1, <2>1, <2>2
<1>7. SubSeq(token, 1, Len(token)) = <<token[1]>> \o SubSeq(token, 1 + 1, Len(token))
  BY <1>2, SubSeqRecursiveFirst
<1>8. SubSeq(token, 1, Len(token)) = token
  BY SubSeqFull
<1>9. 1 + 1 = 2
  OBVIOUS
<1> QED  BY <1>3, <1>5, <1>6, <1>7, <1>8, <1>9

LEMMA SmallerSeq == ASSUME NEW S, NEW T, S \subseteq T PROVE Seq(S) \subseteq Seq(T)
BY SeqMonotonic

\* Texts of fewer kinds of bytes are texts of more.
LEMMA PrintableTexts ==
  ASSUME NEW format
  PROVE  /\ Seq(Printable) \subseteq Seq(Ascii) /\ Seq(Printable) \subseteq Seq(1..255)
         /\ Seq(Printable) \subseteq Seq(Clean(format))
<1>1. /\ Printable \subseteq Ascii /\ Printable \subseteq 1..255
      /\ Printable \subseteq Clean(format)
  BY PrintableBytes, CleanBytes
<1>2. Seq(Printable) \subseteq Seq(Ascii)
  BY <1>1, SmallerSeq, ZenonT(60)
<1>3. Seq(Printable) \subseteq Seq(1..255)
  BY <1>1, SmallerSeq, ZenonT(60)
<1>4. Seq(Printable) \subseteq Seq(Clean(format))
  BY <1>1, SmallerSeq, ZenonT(60)
<1> QED  BY <1>2, <1>3, <1>4, Zenon

LEMMA CleanTexts ==
  ASSUME NEW format
  PROVE  /\ Seq(Clean(format)) \subseteq Seq(1..255)
         /\ Seq(128..255) \subseteq Seq(Clean(format))
<1>1. Clean(format) \subseteq 1..255 /\ 128..255 \subseteq Clean(format)
  BY CleanBytes
<1>2. Seq(Clean(format)) \subseteq Seq(1..255)
  BY <1>1, SmallerSeq, ZenonT(60)
<1>3. Seq(128..255) \subseteq Seq(Clean(format))
  BY <1>1, SmallerSeq, ZenonT(60)
<1> QED  BY <1>2, <1>3, Zenon

LEMMA AsciiTexts == Seq(Ascii) \subseteq Seq(1..255)
<1>1. Ascii \subseteq 1..255
  BY SMT DEF Ascii
<1> QED  BY <1>1, SmallerSeq, ZenonT(60)

LEMMA AsciiBytes == Ascii \subseteq 1..255
BY SMT DEF Ascii

\* ASCII characters in front add no stray.
LEMMA AsciiPrefix ==
  ASSUME NEW rest \in Seq(1..255)
  PROVE  \A token \in Seq(Ascii) : Strays(token \o rest) = Strays(rest)
<1> DEFINE good == {n \in Nat : \A token \in Seq(Ascii) :
                                  Len(token) = n => Strays(token \o rest) = Strays(rest)}
<1>1. 0 \in good
  <2>1. ASSUME NEW token \in Seq(Ascii), Len(token) = 0
        PROVE  Strays(token \o rest) = Strays(rest)
    <3>1. token = <<>>
      BY <2>1, EmptySeq
    <3> QED  BY <3>1, ConcatEmptySeq
  <2> QED  BY <2>1
<1>2. ASSUME NEW n \in Nat, n \in good PROVE n + 1 \in good
  <2>1. ASSUME NEW token \in Seq(Ascii), Len(token) = n + 1
        PROVE  Strays(token \o rest) = Strays(rest)
    <3> DEFINE more == SubSeq(token, 2, Len(token))
    <3>1. Len(token) # 0
      BY <2>1
    <3>2. /\ token[1] \in Ascii /\ more \in Seq(Ascii) /\ Len(more) = Len(token) - 1
          /\ token = <<token[1]>> \o more
      BY <3>1, FirstOff
    <3> HIDE DEF more
    <3>3. Len(more) = n
      BY <2>1, <3>2
    <3>4. more \in Seq(1..255) /\ <<token[1]>> \in Seq(1..255)
      <4>1. token[1] \in 1..255 /\ more \in Seq(1..255)
        BY <3>2, AsciiBytes, AsciiTexts, ZenonT(60)
      <4> QED  BY <4>1
    <3>5. more \o rest \in Seq(1..255)
      BY <3>4, ConcatProperties
    <3>6. (<<token[1]>> \o more) \o rest = <<token[1]>> \o (more \o rest)
      BY <3>4, ConcatAssociative
    <3>7. Strays(<<token[1]>> \o (more \o rest)) = Strays(more \o rest)
      BY <3>2, <3>5, AsciiInFront
    <3>8. Strays(more \o rest) = Strays(rest)
      BY <1>2, <3>2, <3>3
    <3>9. token \o rest = <<token[1]>> \o (more \o rest)
      BY <3>2, <3>6
    <3> QED  BY <3>7, <3>8, <3>9
  <2> QED  BY <2>1
<1>3. Nat \subseteq good
  <2> HIDE DEF good
  <2> QED  BY <1>1, <1>2, NatSetInduction
<1>4. ASSUME NEW token \in Seq(Ascii) PROVE Strays(token \o rest) = Strays(rest)
  <2>1. Len(token) \in Nat
    BY LenProperties
  <2>2. Len(token) \in good
    BY <1>3, <2>1
  <2> QED  BY <2>2
<1> QED  BY <1>4

\* Bytes other than backslashes are read as they are.
Plain == (1..255) \ {Backslash}

LEMMA PlainTexts ==
  Seq(Plain) \subseteq Seq(1..255) /\ Seq(128..255) \subseteq Seq(Plain)
<1>1. Plain \subseteq 1..255 /\ 128..255 \subseteq Plain
  BY SMT DEF Plain, Backslash
<1>2. Seq(Plain) \subseteq Seq(1..255)
  BY <1>1, SmallerSeq, ZenonT(60)
<1>3. Seq(128..255) \subseteq Seq(Plain)
  BY <1>1, SmallerSeq, ZenonT(60)
<1> QED  BY <1>2, <1>3, Zenon

LEMMA PlainPrefix ==
  ASSUME NEW rest \in Seq(1..255), ReadBack(rest) \in Seq(1..255)
  PROVE  \A token \in Seq(Plain) : ReadBack(token \o rest) = token \o ReadBack(rest)
<1> DEFINE good == {n \in Nat : \A token \in Seq(Plain) :
                      Len(token) = n => ReadBack(token \o rest) = token \o ReadBack(rest)}
<1>1. 0 \in good
  <2>1. ASSUME NEW token \in Seq(Plain), Len(token) = 0
        PROVE  ReadBack(token \o rest) = token \o ReadBack(rest)
    <3>1. token = <<>>
      BY <2>1, EmptySeq
    <3> QED  BY <3>1, ConcatEmptySeq
  <2> QED  BY <2>1
<1>2. ASSUME NEW n \in Nat, n \in good PROVE n + 1 \in good
  <2>1. ASSUME NEW token \in Seq(Plain), Len(token) = n + 1
        PROVE  ReadBack(token \o rest) = token \o ReadBack(rest)
    <3> DEFINE more == SubSeq(token, 2, Len(token))
    <3>1. Len(token) # 0
      BY <2>1
    <3>2. /\ token[1] \in Plain /\ more \in Seq(Plain) /\ Len(more) = Len(token) - 1
          /\ token = <<token[1]>> \o more
      BY <3>1, FirstOff
    <3> HIDE DEF more
    <3>3. Len(more) = n
      BY <2>1, <3>2
    <3>4. Plain \subseteq 1..255
      BY DEF Plain
    <3>5. more \in Seq(1..255) /\ <<token[1]>> \in Seq(1..255)
      <4>1. token[1] \in 1..255 /\ more \in Seq(1..255)
        BY <3>2, <3>4, PlainTexts, ZenonT(60)
      <4> QED  BY <4>1
    <3>6. more \o rest \in Seq(1..255)
      BY <3>5, ConcatProperties
    <3>7. (<<token[1]>> \o more) \o rest = <<token[1]>> \o (more \o rest)
      BY <3>5, ConcatAssociative
    <3>8. ReadBack(<<token[1]>> \o (more \o rest)) = <<token[1]>> \o ReadBack(more \o rest)
      <4>1. token[1] \in 1..255 /\ token[1] # Backslash
        BY <3>2 DEF Plain
      <4> QED  BY <3>6, <4>1, PlainInFront
    <3>9. ReadBack(more \o rest) = more \o ReadBack(rest)
      BY <1>2, <3>2, <3>3
    <3>10. <<token[1]>> \o (more \o ReadBack(rest)) = (<<token[1]>> \o more) \o ReadBack(rest)
      BY <3>5, ConcatAssociative
    <3>11. token \o rest = <<token[1]>> \o (more \o rest)
      BY <3>2, <3>7
    <3>12. token \o ReadBack(rest) = <<token[1]>> \o (more \o ReadBack(rest))
      BY <3>2, <3>10
    <3> QED  BY <3>8, <3>9, <3>11, <3>12
  <2> QED  BY <2>1
<1>3. Nat \subseteq good
  <2> HIDE DEF good
  <2> QED  BY <1>1, <1>2, NatSetInduction
<1>4. ASSUME NEW token \in Seq(Plain) PROVE ReadBack(token \o rest) = token \o ReadBack(rest)
  <2>1. Len(token) \in Nat
    BY LenProperties
  <2>2. Len(token) \in good
    BY <1>3, <2>1
  <2> QED  BY <2>2
<1> QED  BY <1>4

--------------------------------------------------------------------------------
(* What a step of the loop prints, in front of what the others print *)

\* The bytes one step takes.
Part(text, k) == SubSeq(text, k, k + Taken(text, k) - 1)

LEMMA PartIs ==
  ASSUME NEW text \in Seq(1..255), NEW k \in 1..Len(text)
  PROVE  /\ Taken(text, k) \in 1..4 /\ k + Taken(text, k) - 1 \in k..Len(text)
         /\ Part(text, k) \in Seq(1..255) /\ Len(Part(text, k)) = Taken(text, k)
         /\ \A n \in 1..Taken(text, k) : Part(text, k)[n] = text[k + n - 1]
<1> DEFINE taken == Taken(text, k)
<1>1. taken \in 1..4 /\ taken = StraySteps(text)[k]
  BY TakenIs
<1>2. taken \in 1..(Len(text) + 1 - k)
  BY <1>1, StraysAdvance DEF Advances
<1>3. Len(text) \in Nat
  BY LenProperties
<1> HIDE DEF taken
<1>4. k + taken - 1 \in k..Len(text)
  BY <1>1, <1>2, <1>3
<1>5. \A i \in k..(k + taken - 1) : text[i] \in 1..255
  <2>1. k..(k + taken - 1) \subseteq 1..Len(text)
    BY <1>3, <1>4
  <2> QED  BY <2>1, ElementOfSeq
<1> DEFINE last == k + taken - 1
<1>6. k \in Int /\ last \in Int /\ k <= last /\ last - k + 1 = taken
  BY <1>1
<1>7. \A i \in k..last : text[i] \in 1..255
  BY <1>5
<1>8. last = k + taken - 1 /\ Part(text, k) = SubSeq(text, k, last)
  BY DEF Part, taken
<1> HIDE DEF last
<1>9. /\ SubSeq(text, k, last) \in Seq(1..255)
      /\ Len(SubSeq(text, k, last)) = IF k <= last THEN last - k + 1 ELSE 0
      /\ \A i \in 1..(last - k + 1) : SubSeq(text, k, last)[i] = text[k + i - 1]
  BY <1>6, <1>7, SubSeqProperties, SMTT(30)
<1>10. /\ SubSeq(text, k, last) \in Seq(1..255) /\ Len(SubSeq(text, k, last)) = taken
       /\ \A i \in 1..taken : SubSeq(text, k, last)[i] = text[k + i - 1]
  BY <1>6, <1>9
<1> QED  BY <1>1, <1>4, <1>8, <1>10, Zenon DEF taken

\* A byte taken alone.
LEMMA PartAlone ==
  ASSUME NEW text \in Seq(1..255), NEW k \in 1..Len(text), Taken(text, k) = 1
  PROVE  Part(text, k) = <<text[k]>>
<1>1. /\ Part(text, k) \in Seq(1..255) /\ Len(Part(text, k)) = 1
      /\ \A n \in 1..1 : Part(text, k)[n] = text[k + n - 1]
  BY PartIs
<1>2. text[k] \in 1..255
  BY ElementOfSeq
<1>3. <<text[k]>> \in Seq(1..255) /\ Len(<<text[k]>>) = 1
  BY <1>2
<1>4. \A i \in 1..Len(Part(text, k)) : Part(text, k)[i] = <<text[k]>>[i]
  <2>1. 1..Len(Part(text, k)) = {1}
    BY <1>1
  <2>2. Part(text, k)[1] = text[k + 1 - 1] /\ k + 1 - 1 = k
    BY <1>1
  <2>3. <<text[k]>>[1] = text[k]
    OBVIOUS
  <2> QED  BY <2>1, <2>2, <2>3
<1> QED  BY <1>1, <1>3, <1>4, SeqEqual

\* A step prints an escape of a byte, an ASCII character, or a longer character.
LEMMA PrintedIs ==
  ASSUME NEW text \in Seq(1..255), NEW k \in 1..Len(text), NEW format
  PROVE  \/ /\ Taken(text, k) = 1 /\ EscapeOf(Printed(format, text, k), text[k])
            /\ SequenceLength(text, k) = 0 \/ text[k] \notin Printable \ {Quote, Backslash}
         \/ /\ Taken(text, k) = 1 /\ Printed(format, text, k) = <<text[k]>>
            /\ text[k] \in Ascii /\ text[k] # Backslash /\ text[k] \in Clean(format)
         \/ /\ Printed(format, text, k) = Part(text, k)
            /\ Taken(text, k) = Announced(text[k]) /\ Encodes(text, k, Announced(text[k]))
            /\ text[k] \notin Ascii
<1>1. text[k] \in 1..255
  BY ElementOfSeq
<1>2. CASE ~Encodes(text, k, Announced(text[k]))
  <2>1. SequenceLength(text, k) = 0
    BY <1>2, RangesAreUtf8
  <2>2. Taken(text, k) = 1
    BY <2>1 DEF Taken
  <2>3. Printed(format, text, k) = InvalidByte(format, text[k])
    BY <2>1 DEF Printed
  <2>4. EscapeOf(InvalidByte(format, text[k]), text[k])
    BY <1>1, UnicodeEscapes, HexEscapes, Zenon DEF InvalidByte
  <2> QED  BY <2>1, <2>2, <2>3, <2>4
<1>3. CASE Encodes(text, k, Announced(text[k])) /\ text[k] \in Ascii
  <2>1. SequenceLength(text, k) = 1
    BY <1>3, RangesAreUtf8, AnnouncedIs
  <2>2. Taken(text, k) = 1
    BY <2>1 DEF Taken
  <2>3. Printed(format, text, k) = Character(format, text[k])
    BY <2>1 DEF Printed
  <2>4. \/ /\ EscapeOf(Character(format, text[k]), text[k])
           /\ text[k] \notin Printable \ {Quote, Backslash}
        \/ /\ Character(format, text[k]) = <<text[k]>>
           /\ text[k] # Backslash /\ text[k] \in Clean(format)
    BY <1>3, CharacterIs
  <2> QED  BY <1>3, <2>2, <2>3, <2>4
<1>4. CASE Encodes(text, k, Announced(text[k])) /\ text[k] \notin Ascii
  <2>1. SequenceLength(text, k) = Announced(text[k]) /\ Announced(text[k]) \in 1..4
    BY <1>4, RangesAreUtf8, EncodesInside
  <2>2. Announced(text[k]) \in {0, 2, 3, 4}
    <3>1. text[k] \in LeadsOfTwo \cup LeadsOfThree \cup LeadsOfFour \cup NoLeads
      BY <1>1, <1>4, EveryByte
    <3> QED  BY <3>1, AnnouncedIs
  <2>3. SequenceLength(text, k) \in {2, 3, 4}
    BY <2>1, <2>2
  <2>4. Taken(text, k) = SequenceLength(text, k)
    BY <2>3 DEF Taken
  <2>5. Printed(format, text, k) = SubSeq(text, k, k + SequenceLength(text, k) - 1)
    BY <2>3 DEF Printed
  <2>6. Printed(format, text, k) = Part(text, k)
    BY <2>4, <2>5, Zenon DEF Part
  <2> QED  BY <1>4, <2>1, <2>4, <2>6
<1> QED  BY <1>2, <1>3, <1>4

LEMMA LongPart ==
  ASSUME NEW text \in Seq(1..255), NEW k \in 1..Len(text), text[k] \notin Ascii,
         Taken(text, k) = Announced(text[k]), Encodes(text, k, Announced(text[k]))
  PROVE  Part(text, k) \in Seq(128..255)
<1> DEFINE taken == Taken(text, k)
<1>1. /\ taken \in 1..4
      /\ Part(text, k) \in Seq(1..255) /\ Len(Part(text, k)) = taken
      /\ \A n \in 1..taken : Part(text, k)[n] = text[k + n - 1]
  BY PartIs
<1>2. text[k] \in 128..255
  <2>1. text[k] \in 1..255
    BY ElementOfSeq
  <2>2. \A byte \in 1..255 : byte \notin Ascii => byte \in 128..255
    BY SMT DEF Ascii
  <2> QED  BY <2>1, <2>2
<1>3. \A n \in 1..(taken - 1) : text[k + n] \in 128..191
  <2>1. Continues(text, k, Announced(text[k]))
    BY SMT DEF Encodes
  <2> QED  BY <2>1 DEF Continues
<1> HIDE DEF taken
<1>4. ASSUME NEW n \in 1..taken PROVE Part(text, k)[n] \in 128..255
  <2>1. CASE n = 1
    <3>1. k + n - 1 = k
      BY <2>1
    <3> QED  BY <1>1, <1>2, <3>1
  <2>2. CASE n # 1
    <3>1. n - 1 \in 1..(taken - 1) /\ k + n - 1 = k + (n - 1)
      BY <1>1, <2>2
    <3>2. text[k + (n - 1)] \in 128..191
      BY <1>3, <3>1
    <3>3. 128..191 \subseteq 128..255
      BY SMT
    <3>4. Part(text, k)[n] = text[k + (n - 1)]
      BY <1>1, <3>1
    <3> QED  BY <3>2, <3>3, <3>4
  <2> QED  BY <2>1, <2>2
<1>5. Part(text, k) \in [1..taken -> 128..255]
  <2>1. Part(text, k) \in [1..taken -> 1..255]
    BY <1>1, LenProperties
  <2> QED  BY <1>4, <2>1
<1>6. taken \in Nat
  BY <1>1
<1> QED  BY <1>5, <1>6

\* In front of anything, what a step prints is clean and whole characters, and is read
\* as the bytes that the step took.
LEMMA StepPrints ==
  ASSUME NEW text \in Seq(1..255), NEW k \in 1..Len(text), NEW format,
         NEW rest \in Seq(1..255), ReadBack(rest) \in Seq(1..255)
  PROVE  /\ Printed(format, text, k) \in Seq(Clean(format))
         /\ Strays(Printed(format, text, k) \o rest) = Strays(rest)
         /\ ReadBack(Printed(format, text, k) \o rest) = Part(text, k) \o ReadBack(rest)
<1> DEFINE token == Printed(format, text, k)
<1>1. text[k] \in 1..255
  BY ElementOfSeq
<1> HIDE DEF token
<1>2. CASE Taken(text, k) = 1 /\ EscapeOf(token, text[k])
  <2>1. token \in Seq(Printable)
    BY <1>2 DEF EscapeOf
  <2>2. token \in Seq(Ascii) /\ token \in Seq(1..255) /\ token \in Seq(Clean(format))
    BY <2>1, PrintableTexts, ZenonT(60)
  <2>3. Strays(token \o rest) = Strays(rest)
    BY <2>2, AsciiPrefix
  <2>4. ReadBack(token \o rest) = <<Unescaped(token, 1)>> \o ReadBack(rest)
    BY <1>2, <2>2, EscapeInFront DEF EscapeOf
  <2>5. Unescaped(token, 1) = text[k]
    BY <1>2 DEF EscapeOf
  <2>6. Part(text, k) = <<text[k]>>
    BY <1>2, PartAlone
  <2> QED  BY <2>2, <2>3, <2>4, <2>5, <2>6 DEF token
<1>3. CASE /\ Taken(text, k) = 1 /\ token = <<text[k]>>
           /\ text[k] \in Ascii /\ text[k] # Backslash /\ text[k] \in Clean(format)
  <2>1. token \in Seq(Clean(format))
    BY <1>3
  <2>2. Strays(token \o rest) = Strays(rest)
    BY <1>3, AsciiInFront
  <2>3. ReadBack(token \o rest) = <<text[k]>> \o ReadBack(rest)
    BY <1>1, <1>3, PlainInFront
  <2>4. Part(text, k) = <<text[k]>>
    BY <1>3, PartAlone
  <2> QED  BY <2>1, <2>2, <2>3, <2>4 DEF token
<1>4. CASE /\ token = Part(text, k)
           /\ Taken(text, k) = Announced(text[k]) /\ Encodes(text, k, Announced(text[k]))
           /\ text[k] \notin Ascii
  <2>1. token \in Seq(128..255)
    BY <1>4, LongPart
  <2>2. /\ token \in Seq(1..255) /\ Len(token) = Taken(text, k) /\ Taken(text, k) \in 1..4
        /\ \A n \in 1..Len(token) : token[n] = text[k + n - 1]
        /\ k + Taken(text, k) - 1 \in k..Len(text)
    BY <1>4, PartIs, ZenonT(60)
  <2>3. token \in Seq(Clean(format)) /\ token \in Seq(Plain)
    BY <2>1, CleanTexts, PlainTexts, ZenonT(60)
  <2> DEFINE line == token \o rest
  <2>4. /\ line \in Seq(1..255) /\ Len(line) = Len(token) + Len(rest)
        /\ Len(token) \in Nat /\ Len(rest) \in Nat
        /\ \A n \in 1..Len(token) : line[n] = token[n]
    BY <2>2, Behind
  <2> HIDE DEF line
  <2>5. Len(token) \in 1..4 /\ Len(token) # 0 /\ 1 \in 1..Len(token)
    BY <2>2
  <2>6. line[1] = text[k]
    <3>1. line[1] = text[k + 1 - 1] /\ k + 1 - 1 = k
      BY <2>2, <2>4, <2>5
    <3> QED  BY <3>1
  <2>7. Encodes(line, 1, Len(token)) <=> Encodes(text, k, Len(token))
    <3>1. ASSUME NEW n \in 0..(Len(token) - 1) PROVE line[1 + n] = text[k + n]
      <4>1. 1 + n \in 1..Len(token) /\ k + (1 + n) - 1 = k + n
        BY <2>5
      <4> QED  BY <2>2, <2>4, <4>1
    <3>2. /\ 1 \in Nat /\ k \in Nat /\ Len(line) \in Nat /\ Len(text) \in Nat
          /\ 1 + Len(token) - 1 <= Len(line) /\ k + Len(token) - 1 <= Len(text)
      <4>1. Len(text) \in Nat
        BY LenProperties
      <4> QED  BY <2>2, <2>4, <2>5, <4>1
    <3> QED  BY <2>5, <3>1, <3>2, EncodesSame
  <2>8. Announced(line[1]) = Len(token) /\ Encodes(line, 1, Len(token))
    BY <1>4, <2>2, <2>6, <2>7
  <2>9. Strays(line) = Strays(rest)
    BY <2>2, <2>5, <2>8, CharacterInFront DEF line
  <2>10. ReadBack(line) = token \o ReadBack(rest)
    BY <2>3, PlainPrefix DEF line
  <2> QED  BY <1>4, <2>3, <2>9, <2>10 DEF token, line
<1>5. \/ Taken(text, k) = 1 /\ EscapeOf(token, text[k])
      \/ /\ Taken(text, k) = 1 /\ token = <<text[k]>>
         /\ text[k] \in Ascii /\ text[k] # Backslash /\ text[k] \in Clean(format)
      \/ /\ token = Part(text, k)
         /\ Taken(text, k) = Announced(text[k]) /\ Encodes(text, k, Announced(text[k]))
         /\ text[k] \notin Ascii
  BY PrintedIs, Zenon DEF token
<1> QED  BY <1>2, <1>3, <1>4, <1>5

\* What is left of a text, and what is left to print of it.
LEMMA PartThenRest ==
  ASSUME NEW text \in Seq(1..255), NEW k \in 1..Len(text)
  PROVE  /\ k + Taken(text, k) \in (k + 1)..(Len(text) + 1)
         /\ Part(text, k) \o SubSeq(text, k + Taken(text, k), Len(text))
              = SubSeq(text, k, Len(text))
<1> DEFINE last == k + Taken(text, k) - 1
<1>1. last \in k..Len(text) /\ Taken(text, k) \in 1..4
  BY PartIs
<1>2. Len(text) \in Nat
  BY LenProperties
<1>3. k + Taken(text, k) = last + 1 /\ k + Taken(text, k) \in (k + 1)..(Len(text) + 1)
  BY <1>1, <1>2
<1>4. Part(text, k) = SubSeq(text, k, last)
  BY Zenon DEF Part
<1> HIDE DEF last
<1>5. k \in 1..(Len(text) + 1) /\ last \in (k - 1)..Len(text) /\ Len(text) \in last..Len(text)
  BY <1>1, <1>2
<1>6. SubSeq(text, k, last) \o SubSeq(text, last + 1, Len(text)) = SubSeq(text, k, Len(text))
  BY <1>5, ConcatAdjacentSubSeq
<1> QED  BY <1>3, <1>4, <1>6

LEMMA RestOf ==
  ASSUME NEW text \in Seq(1..255), NEW k \in 1..(Len(text) + 1)
  PROVE  SubSeq(text, k, Len(text)) \in Seq(1..255)
<1>1. Len(text) \in Nat
  BY LenProperties
<1>2. \A i \in k..Len(text) : text[i] \in 1..255
  <2>1. k..Len(text) \subseteq 1..Len(text)
    BY <1>1
  <2> QED  BY <2>1, ElementOfSeq
<1>3. k \in Int /\ Len(text) \in Int
  BY <1>1
<1> QED  BY <1>2, <1>3, SubSeqProperties

LEMMA NothingWritten == Strays(<<>>) = <<>> /\ ReadBack(<<>>) = <<>>
<1>1. <<>> \in Seq(1..255) /\ Len(<<>>) = 0
  BY EmptySeq
<1>2. Advances(0, StraySteps(<<>>)) /\ Advances(0, ReadSteps(<<>>))
  BY SMT DEF Advances
<1>3. /\ Unfolds(Remaining(0, StrayPieces(<<>>), StraySteps(<<>>)), 0, StrayPieces(<<>>), StraySteps(<<>>))
      /\ Unfolds(Remaining(0, ReadPieces(<<>>), ReadSteps(<<>>)), 0, ReadPieces(<<>>), ReadSteps(<<>>))
  BY <1>2, RemainingIs
<1>4. 0 + 1 = 1
  OBVIOUS
<1>5. /\ Remaining(0, StrayPieces(<<>>), StraySteps(<<>>))[1] = <<>>
      /\ Remaining(0, ReadPieces(<<>>), ReadSteps(<<>>))[1] = <<>>
  BY <1>3, <1>4, Zenon DEF Unfolds
<1> QED  BY <1>1, <1>5, LoopsAre, Zenon DEF Joined

\* The invariant of the loop, from its end to its start: what is left to print is clean,
\* made of whole characters, and read as what is left of the text.
LEMMA WrittenSoFar ==
  ASSUME NEW text \in Seq(1..255), NEW format, NEW k \in 1..(Len(text) + 1)
  PROVE  LET left == Remaining(Len(text), PrintedPieces(format, text), PrintedSteps(text))[k]
         IN  /\ left \in Seq(Clean(format))
             /\ Strays(left) = <<>>
             /\ ReadBack(left) = SubSeq(text, k, Len(text))
<1> DEFINE size == Len(text)
           it == Remaining(size, PrintedPieces(format, text), PrintedSteps(text))
           good == {n \in 1..(size + 1) :
                      /\ it[n] \in Seq(Clean(format)) /\ Strays(it[n]) = <<>>
                      /\ ReadBack(it[n]) = SubSeq(text, n, size)}
<1>1. size \in Nat
  BY LenProperties
<1>2. Unfolds(it, size, PrintedPieces(format, text), PrintedSteps(text))
  BY <1>1, WrittenAdvances, RemainingIs
<1> HIDE DEF it
<1>3. size + 1 \in good
  <2>1. it[size + 1] = <<>>
    BY <1>2 DEF Unfolds
  <2>2. SubSeq(text, size + 1, size) = <<>>
    <3>1. size + 1 \in Int /\ size \in Int /\ size < size + 1
      BY <1>1
    <3> QED  BY <3>1, SubSeqEmpty
  <2>3. <<>> \in Seq(Clean(format))
    BY EmptySeq
  <2>4. size + 1 \in 1..(size + 1)
    BY <1>1
  <2> QED  BY <2>1, <2>2, <2>3, <2>4, NothingWritten
<1>4. ASSUME NEW n \in 1..size, \A later \in (n + 1)..(size + 1) : later \in good
      PROVE  n \in good
  <2> DEFINE next == n + Taken(text, n)
             token == Printed(format, text, n)
  <2>1. /\ next \in (n + 1)..(size + 1)
        /\ Part(text, n) \o SubSeq(text, next, size) = SubSeq(text, n, size)
    BY PartThenRest
  <2>2. it[n] = token \o it[next]
    <3>1. PrintedPieces(format, text)[n] = token /\ PrintedSteps(text)[n] = Taken(text, n)
      BY DEF PrintedPieces, PrintedSteps
    <3> QED  BY <1>2, <3>1, ZenonT(60) DEF Unfolds
  <2> HIDE DEF next, token
  <2>3. next \in good
    BY <1>4, <2>1
  <2>4. /\ it[next] \in Seq(Clean(format)) /\ Strays(it[next]) = <<>>
        /\ ReadBack(it[next]) = SubSeq(text, next, size) /\ next \in 1..(size + 1)
    BY <2>3
  <2>5. it[next] \in Seq(1..255)
    BY <2>4, CleanTexts, ZenonT(60)
  <2>6. ReadBack(it[next]) \in Seq(1..255)
    BY <2>4, RestOf
  <2>7. /\ token \in Seq(Clean(format)) /\ Strays(token \o it[next]) = Strays(it[next])
        /\ ReadBack(token \o it[next]) = Part(text, n) \o ReadBack(it[next])
    BY <2>5, <2>6, StepPrints DEF token
  <2>8. it[n] \in Seq(Clean(format))
    BY <2>2, <2>4, <2>7, ConcatProperties
  <2>9. Strays(it[n]) = <<>>
    BY <2>2, <2>4, <2>7
  <2>10. ReadBack(it[n]) = SubSeq(text, n, size)
    BY <2>1, <2>2, <2>4, <2>7
  <2>11. n \in 1..(size + 1)
    BY <1>1
  <2> QED  BY <2>8, <2>9, <2>10, <2>11
<1>5. 1..(size + 1) \subseteq good
  <2> HIDE DEF good, size
  <2> QED  BY <1>1, <1>3, <1>4, DownwardInduction
<1> QED  BY <1>5 DEF it

\* A text of whole characters none of which needs an escape is printed as it is.
LEMMA PlainTextIsKept ==
  ASSUME NEW text \in Seq(1..255), NEW format, WellFormed(text),
         \A n \in 1..Len(text) : text[n] \in (32..255) \ {34, 92, 127}
  PROVE  Written(format, text) = text
<1> DEFINE size == Len(text)
           it == Remaining(size, PrintedPieces(format, text), PrintedSteps(text))
           strays == Remaining(size, StrayPieces(text), StraySteps(text))
           good == {n \in 1..(size + 1) : strays[n] = <<>> => it[n] = SubSeq(text, n, size)}
<1>1. size \in Nat
  BY LenProperties
<1>2. Unfolds(it, size, PrintedPieces(format, text), PrintedSteps(text))
  BY <1>1, WrittenAdvances, RemainingIs
<1>3. Unfolds(strays, size, StrayPieces(text), StraySteps(text))
  BY <1>1, StraysAdvance, RemainingIs
<1>4. \A n \in 1..(size + 1) : strays[n] \in Seq(1..255)
  BY StraysTyped
<1> HIDE DEF it, strays
<1>5. size + 1 \in good
  <2>1. it[size + 1] = <<>>
    BY <1>2 DEF Unfolds
  <2>2. SubSeq(text, size + 1, size) = <<>>
    <3>1. size + 1 \in Int /\ size \in Int /\ size < size + 1
      BY <1>1
    <3> QED  BY <3>1, SubSeqEmpty
  <2>3. size + 1 \in 1..(size + 1)
    BY <1>1
  <2> QED  BY <2>1, <2>2, <2>3
<1>6. ASSUME NEW n \in 1..size, \A later \in (n + 1)..(size + 1) : later \in good
      PROVE  n \in good
  <2> SUFFICES ASSUME strays[n] = <<>> PROVE it[n] = SubSeq(text, n, size)
    BY <1>1
  <2> DEFINE next == n + Taken(text, n)
             token == Printed(format, text, n)
  <2>1. /\ next \in (n + 1)..(size + 1)
        /\ Part(text, n) \o SubSeq(text, next, size) = SubSeq(text, n, size)
    BY PartThenRest
  <2>2. it[n] = token \o it[next]
    <3>1. PrintedPieces(format, text)[n] = token /\ PrintedSteps(text)[n] = Taken(text, n)
      BY DEF PrintedPieces, PrintedSteps
    <3> QED  BY <1>2, <3>1, ZenonT(60) DEF Unfolds
  <2>3. strays[n] = StrayPieces(text)[n] \o strays[next]
    <3>1. StraySteps(text)[n] = Taken(text, n)
      BY TakenIs
    <3> QED  BY <1>3, <3>1, ZenonT(60) DEF Unfolds
  <2> HIDE DEF next, token
  <2>4. StrayPieces(text)[n] = <<>> /\ strays[next] = <<>>
    <3>1. next \in 1..(size + 1)
      BY <2>1
    <3>2. strays[next] \in Seq(1..255)
      BY <1>4, <3>1
    <3>3. StrayPieces(text)[n] \in Seq(1..255)
      <4>1. text[n] \in 1..255
        BY ElementOfSeq
      <4>2. <<>> \in Seq(1..255) /\ <<text[n]>> \in Seq(1..255)
        BY <4>1, EmptySeq
      <4> QED  BY <4>2 DEF StrayPieces
    <3>4. StrayPieces(text)[n] \o strays[next] = <<>>
      BY <2>3
    <3> QED  BY <3>2, <3>3, <3>4, ConcatEqualIffEmpty
  <2>5. Encodes(text, n, Announced(text[n]))
    <3>1. <<>> # <<text[n]>>
      OBVIOUS
    <3> QED  BY <2>4, <3>1 DEF StrayPieces
  <2>6. it[next] = SubSeq(text, next, size)
    <3>1. next \in good
      BY <1>6, <2>1
    <3> QED  BY <2>4, <3>1
  <2>7. token = Part(text, n)
    <3>1. text[n] \in (32..255) \ {34, 92, 127}
      OBVIOUS
    <3>2. text[n] \in Ascii => text[n] \in Printable \ {Quote, Backslash}
      <4>1. \A byte \in Ascii : byte \in 32..255 /\ byte # 127 => byte \in Printable
        BY SMT DEF Ascii, Printable
      <4>2. Quote = 34 /\ Backslash = 92
        BY DEF Quote, Backslash
      <4> QED  BY <3>1, <4>1, <4>2, Zenon
    <3>3. SequenceLength(text, n) = Announced(text[n]) /\ SequenceLength(text, n) # 0
      <4>1. Announced(text[n]) \in 1..4
        BY <2>5, EncodesInside
      <4>2. \A m \in 1..4 : m # 0
        BY SMT
      <4> QED  BY <2>5, <4>1, <4>2, RangesAreUtf8
    <3>4. CASE /\ Taken(text, n) = 1 /\ EscapeOf(token, text[n])
               /\ SequenceLength(text, n) = 0 \/ text[n] \notin Printable \ {Quote, Backslash}
      <4>1. text[n] \notin Ascii
        BY <3>2, <3>3, <3>4
      <4>2. Announced(text[n]) # 1
        <5>1. text[n] \in 1..255
          BY ElementOfSeq
        <5>2. text[n] \in LeadsOfTwo \cup LeadsOfThree \cup LeadsOfFour \cup NoLeads
          BY <4>1, <5>1, EveryByte
        <5> QED  BY <5>2, AnnouncedIs
      <4>3. Taken(text, n) = SequenceLength(text, n)
        BY <3>3 DEF Taken
      <4> QED  BY <3>3, <3>4, <4>2, <4>3
    <3>5. CASE Taken(text, n) = 1 /\ token = <<text[n]>>
      BY <3>5, PartAlone
    <3> QED  BY <3>4, <3>5, PrintedIs, ZenonT(60) DEF token
  <2> QED  BY <2>1, <2>2, <2>6, <2>7
<1>7. 1..(size + 1) \subseteq good
  <2> HIDE DEF good, size
  <2> QED  BY <1>1, <1>5, <1>6, DownwardInduction
<1>8. 1 \in 1..(size + 1)
  BY <1>1
<1>9. strays[1] = <<>>
  BY LoopsAre DEF WellFormed, strays, Joined
<1>10. it[1] = SubSeq(text, 1, size)
  BY <1>7, <1>8, <1>9
<1>11. Written(format, text) = it[1]
  BY LoopsAre DEF it, Joined
<1> QED  BY <1>10, <1>11, SubSeqFull

\* Every text is printed faithfully in both formats (cli_output.c write_utf8_string):
\* on one line, as UTF-8, such that it can be read back, and unchanged where it can be.
THEOREM EveryTextIsFaithful == \A text \in Seq(1..255) : Faithful(text)
<1> SUFFICES ASSUME NEW text \in Seq(1..255) PROVE Faithful(text)
  OBVIOUS
<1>1. Len(text) \in Nat /\ 1 \in 1..(Len(text) + 1)
  <2>1. Len(text) \in Nat
    BY LenProperties
  <2> QED  BY <2>1
<1>2. ASSUME NEW format
      PROVE  /\ Written(format, text) \in Seq(Clean(format))
             /\ WellFormed(Written(format, text))
             /\ ReadBack(Written(format, text)) = text
  <2> DEFINE left == Remaining(Len(text), PrintedPieces(format, text), PrintedSteps(text))[1]
  <2>1. left \in Seq(Clean(format)) /\ Strays(left) = <<>> /\ ReadBack(left) = SubSeq(text, 1, Len(text))
    BY <1>1, WrittenSoFar
  <2>2. Written(format, text) = left
    BY LoopsAre DEF Joined
  <2>3. SubSeq(text, 1, Len(text)) = text
    BY SubSeqFull
  <2> HIDE DEF left
  <2> QED  BY <2>1, <2>2, <2>3 DEF WellFormed
<1>3. ASSUME NEW format
      PROVE  \A n \in DOMAIN Written(format, text) : Written(format, text)[n] \in Clean(format)
  <2>1. Written(format, text) \in Seq(Clean(format))
    BY <1>2
  <2>2. DOMAIN Written(format, text) = 1..Len(Written(format, text))
    BY <2>1, LenProperties
  <2> QED  BY <2>1, <2>2, ElementOfSeq
<1>4. /\ \A byte \in Clean("json") : byte \notin Controls
      /\ \A byte \in Clean("text") : byte \notin Controls \cup {127}
  BY SMT DEF Clean, Controls
<1>5. ASSUME WellFormed(text), \A n \in DOMAIN text : text[n] \in (32..255) \ {34, 92, 127}
      PROVE  Written("text", text) = text /\ Written("json", text) = text
  <2>1. DOMAIN text = 1..Len(text)
    BY LenProperties
  <2> QED  BY <1>5, <2>1, PlainTextIsKept
<1> QED  BY <1>2, <1>3, <1>4, <1>5, Zenon DEF Faithful

\* Whatever the paths of the diagnostics are.
THEOREM PathsPrintedFaithfully == Spec => []PrintedFaithfully
<1>1. Unfaithful = {}
  BY TextsAssumption, EveryTextIsFaithful DEF Unfaithful
<1>2. PrintedFaithfully
  BY <1>1 DEF PrintedFaithfully
<1> QED  BY <1>2, PTL

================================================================================
