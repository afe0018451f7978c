-------------------------------- MODULE Release --------------------------------
(***************************************************************************)
(* Publishing a release to the Homebrew tap: the jobs of                   *)
(* .github/workflows/release.yml and scripts/release.sh, against the tap's *)
(* main branch, its release branches and its pull requests.  A run of the  *)
(* workflow is started by a pushed tag or by hand ("retry only Homebrew"); *)
(* any step of it can fail or be cancelled, runs of one or of several      *)
(* releases can overlap, and the maintainers merge, close, amend and       *)
(* delete meanwhile.                                                       *)
(*                                                                         *)
(* The package, the README section and the formula are written, staged and *)
(* committed together, so a tree of the tap is the version it packages, 0  *)
(* for none.  Writing and validating them touches only the runner.         *)
(***************************************************************************)
EXTENDS Integers, Sequences

CONSTANTS Runs,      \* runs of the workflow
          Versions,  \* the releases
          MaxMain,   \* bound: revisions of the tap's main branch
          NoBranch   \* a branch that does not exist

ASSUME ReleaseAssumption ==
  /\ Versions \subseteq Nat \ {0} /\ MaxMain \in Nat \ {0}
  /\ NoBranch \notin [by : Runs, onto : 1..MaxMain, amended : BOOLEAN]

VARIABLES phase,      \* where each run is
          version,    \* the version of its tag, without the v
          validated,  \* tap-sha: the revision whose template was audited, 0 in a run by hand
          base,       \* the revision that the run works on
          published,  \* the releases whose assets are published
          main,       \* the revisions of the tap's main branch
          branch,     \* the tap's branch fs-lint-v<version>
          request     \* its pull request: "none", "open" or "merged"

vars == <<phase, version, validated, base, published, main, branch, request>>
tap == <<main, branch, request>>

Init ==
  /\ phase = [r \in Runs |-> "idle"] /\ version = [r \in Runs |-> 0]
  /\ validated = [r \in Runs |-> 0] /\ base = [r \in Runs |-> 0]
  /\ published = {} /\ main = <<0>>
  /\ branch = [v \in Versions |-> NoBranch] /\ request = [v \in Versions |-> "none"]

Enter(r, from, to) == phase[r] = from /\ phase' = [phase EXCEPT ![r] = to]

--------------------------------------------------------------------------------
(* The jobs of the workflow *)

\* on: push: tags
PushTag(r, v) ==
  /\ Enter(r, "idle", "tagged") /\ version' = [version EXCEPT ![r] = v]
  /\ UNCHANGED <<validated, base, published, tap>>

\* on: workflow_dispatch
Dispatch(r, v) ==
  /\ Enter(r, "idle", "started") /\ version' = [version EXCEPT ![r] = v]
  /\ UNCHANGED <<validated, base, published, tap>>

ValidateTemplate(r) ==
  /\ Enter(r, "tagged", "audited") /\ validated' = [validated EXCEPT ![r] = Len(main)]
  /\ UNCHANGED <<version, base, published, tap>>

\* gh release create refuses a release that exists.
Publish(r) ==
  /\ Enter(r, "audited", "started") /\ version[r] \notin published
  /\ published' = published \cup {version[r]}
  /\ UNCHANGED <<version, validated, base, tap>>

\* Seeded fault: a retry takes the release for granted.
SkipVerification(r) ==
  /\ Enter(r, "started", "verified")
  /\ UNCHANGED <<version, validated, base, published, tap>>

\* gh release view
VerifyRelease(r) ==
  /\ Enter(r, "started", "verified") /\ version[r] \in published
  /\ UNCHANGED <<version, validated, base, published, tap>>

\* Seeded fault: the tap is checked out as it is now.
CheckoutLatest(r) ==
  /\ Enter(r, "verified", "checked out") /\ base' = [base EXCEPT ![r] = Len(main)]
  /\ UNCHANGED <<version, validated, published, tap>>

\* actions/checkout of tap-sha, of the default branch where there is none.
Checkout(r) ==
  /\ Enter(r, "verified", "checked out")
  /\ base' = [base EXCEPT ![r] = IF validated[r] # 0 THEN validated[r] ELSE Len(main)]
  /\ UNCHANGED <<version, validated, published, tap>>

--------------------------------------------------------------------------------
(* scripts/release.sh homebrew-pr *)

\* git diff --cached --quiet: return_current_formula
AlreadyCurrent(r) ==
  /\ Enter(r, "checked out", "current") /\ main[base[r]] = version[r]
  /\ UNCHANGED <<version, validated, base, published, tap>>

Commit(r) == [by |-> r, onto |-> base[r], amended |-> FALSE]

\* Seeded fault: git push --force
PushOver(r) ==
  /\ Enter(r, "checked out", "pushed") /\ main[base[r]] # version[r]
  /\ branch' = [branch EXCEPT ![version[r]] = Commit(r)]
  /\ UNCHANGED <<version, validated, base, published, main, request>>

\* The checkout knows no remote branch of this name, so --force-with-lease asks
\* that there be none.
Push(r) ==
  /\ Enter(r, "checked out", "pushed")
  /\ main[base[r]] # version[r] /\ branch[version[r]] = NoBranch
  /\ branch' = [branch EXCEPT ![version[r]] = Commit(r)]
  /\ UNCHANGED <<version, validated, base, published, main, request>>

\* "stale info": git push fails and with it the script.
PushRefused(r) ==
  /\ Enter(r, "checked out", "refused")
  /\ main[base[r]] # version[r] /\ branch[version[r]] # NoBranch
  /\ UNCHANGED <<version, validated, base, published, tap>>

FindRequest(r) ==
  /\ Enter(r, "pushed", "requested") /\ request[version[r]] = "open"
  /\ UNCHANGED <<version, validated, base, published, tap>>

FindNoRequest(r) ==
  /\ Enter(r, "pushed", "unrequested") /\ request[version[r]] # "open"
  /\ UNCHANGED <<version, validated, base, published, tap>>

\* GitHub refuses a second request of a branch, and one without a commit in it.
CreateRequest(r) ==
  /\ Enter(r, "unrequested", "requested")
  /\ branch[version[r]] # NoBranch /\ request[version[r]] = "none"
  /\ request' = [request EXCEPT ![version[r]] = "open"]
  /\ UNCHANGED <<version, validated, base, published, main, branch>>

Ended == {"current", "requested", "refused", "failed"}

\* A step fails, the run is cancelled or the runner is lost.
Fail(r) ==
  /\ phase[r] \notin Ended \cup {"idle"} /\ phase' = [phase EXCEPT ![r] = "failed"]
  /\ UNCHANGED <<version, validated, base, published, tap>>

Work(r) ==
  \/ ValidateTemplate(r) \/ Publish(r) \/ VerifyRelease(r) \/ Checkout(r)
  \/ AlreadyCurrent(r) \/ Push(r) \/ PushRefused(r)
  \/ FindRequest(r) \/ FindNoRequest(r) \/ CreateRequest(r) \/ Fail(r)

--------------------------------------------------------------------------------
(* The maintainers of the tap *)

Latest == main[Len(main)]

\* The three files merge when main still has what they replace, or has them already.
Merge(v) ==
  /\ request[v] = "open" /\ Len(main) < MaxMain
  /\ Latest \in {main[branch[v].onto], v}
  /\ main' = Append(main, v) /\ request' = [request EXCEPT ![v] = "merged"]
  /\ UNCHANGED <<phase, version, validated, base, published, branch>>

OpenByHand(v) ==
  /\ branch[v] # NoBranch /\ request[v] = "none"
  /\ request' = [request EXCEPT ![v] = "open"]
  /\ UNCHANGED <<phase, version, validated, base, published, main, branch>>

CloseRequest(v) ==
  /\ request[v] = "open" /\ request' = [request EXCEPT ![v] = "none"]
  /\ UNCHANGED <<phase, version, validated, base, published, main, branch>>

Amend(v) ==
  /\ branch[v] # NoBranch /\ request[v] # "merged"
  /\ branch' = [branch EXCEPT ![v].amended = TRUE]
  /\ UNCHANGED <<phase, version, validated, base, published, main, request>>

DeleteBranch(v) ==
  /\ branch[v] # NoBranch /\ branch' = [branch EXCEPT ![v] = NoBranch]
  /\ request' = [request EXCEPT ![v] = "none"]
  /\ UNCHANGED <<phase, version, validated, base, published, main>>

\* A change to another formula of the tap
ChangeOther ==
  /\ Len(main) < MaxMain /\ main' = Append(main, Latest)
  /\ UNCHANGED <<phase, version, validated, base, published, branch, request>>

Maintain(v) ==
  \/ Merge(v) \/ OpenByHand(v) \/ CloseRequest(v) \/ Amend(v) \/ DeleteBranch(v)

Next ==
  \/ \E r \in Runs : Work(r) \/ \E v \in Versions : PushTag(r, v) \/ Dispatch(r, v)
  \/ ChangeOther \/ \E v \in Versions : Maintain(v)

Spec == Init /\ [][Next]_vars

--------------------------------------------------------------------------------
(* Properties *)

Phases == Ended \cup {"idle", "tagged", "audited", "started", "verified",
                   "checked out", "pushed", "unrequested"}
Commits == [by : Runs, onto : 1..MaxMain, amended : BOOLEAN]

TypeOK ==
  /\ phase \in [Runs -> Phases]
  /\ version \in [Runs -> Versions \cup {0}]
  /\ validated \in [Runs -> 0..MaxMain] /\ base \in [Runs -> 0..MaxMain]
  /\ published \subseteq Versions /\ main \in Seq(Versions \cup {0}) /\ Len(main) \in 1..MaxMain
  /\ branch \in [Versions -> Commits \cup {NoBranch}]
  /\ request \in [Versions -> {"none", "open", "merged"}]

\* Nothing in the tap, neither main nor a branch that can be merged, points at
\* assets that are not published, whatever runs fail, overlap or are retried
\* (release.yml: needs.publish.result and "Verify published release").
AssetsFirst ==
  /\ \A v \in Versions : branch[v] # NoBranch => v \in published
  /\ \A n \in 1..Len(main) : main[n] \in published \cup {0}

\* No run replaces a branch that is there: what an earlier run pushed and what
\* the maintainers added to it stay until they delete it (release.sh
\* publish_pr_branch).
WorkKept ==
  [][\A v \in Versions :
       branch[v] # NoBranch =>
         \/ branch'[v] = NoBranch
         \/ branch'[v] = branch[v] \/ branch'[v] = [branch[v] EXCEPT !.amended = TRUE]]_vars

\* The request of a pushed tag, however late it is merged, replaces the version
\* that was in the tap when its template was validated, or repeats the one that
\* is there: a release that was overtaken conflicts instead of going back
\* (release.yml: ref: tap-sha).
ReplacesWhatWasValidated ==
  [][\A v \in Versions :
       request[v] = "open" /\ request'[v] = "merged" /\ validated[branch[v].by] # 0 =>
         Latest \in {main[validated[branch[v].by]], v}]_vars

\* What CONTRIBUTING.md:112-118 (retry only Homebrew against the existing
\* release) and release_test.sh assert_existing_pr_is_reused expect: a run is
\* turned away only while another run of the same release is at work.
RetriesServed ==
  \A r \in Runs :
    phase[r] = "refused" =>
      \E other \in Runs \ {r} : version[other] = version[r] /\ phase[other] \notin Ended

================================================================================
