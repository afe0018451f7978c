----------------------------- MODULE Release_proofs -----------------------------
(***************************************************************************)
(* What the runs of a release leave in the tap, for any number of runs and *)
(* releases that overlap, fail and are tried again.                        *)
(***************************************************************************)
EXTENDS Release, SequenceTheorems, TLAPS

--------------------------------------------------------------------------------
(* The inductive invariant *)

\* A run that works on the tap has a release and a revision to work on.
RunsReady ==
  \A r \in Runs :
    /\ phase[r] # "idle" => version[r] \in Versions
    /\ phase[r] \in {"verified", "checked out", "pushed", "unrequested", "current", "requested", "refused"}
         => version[r] \in published
    /\ phase[r] \in {"checked out", "pushed", "unrequested", "current", "requested", "refused"}
         => base[r] \in 1..Len(main) /\ (validated[r] # 0 => base[r] = validated[r])
    /\ validated[r] <= Len(main)

\* A branch is what the run that pushed it worked on.
BranchesFromRuns ==
  \A v \in Versions :
    /\ request[v] # "none" => branch[v] # NoBranch
    /\ branch[v] # NoBranch =>
         LET r == branch[v].by IN
         /\ phase[r] \in {"pushed", "unrequested", "requested", "failed"}
         /\ branch[v].onto \in 1..Len(main)
         /\ validated[r] # 0 => branch[v].onto = validated[r]

IInv == TypeOK /\ RunsReady /\ BranchesFromRuns /\ AssetsFirst

--------------------------------------------------------------------------------
USE ReleaseAssumption

LEMMA BranchType ==
  ASSUME TypeOK, NEW v \in Versions, branch[v] # NoBranch
  PROVE  branch[v] \in Commits /\ branch[v].by \in Runs /\ branch[v].onto \in Nat
BY DEF TypeOK, Commits

LEMMA MainLength ==
  TypeOK => /\ MaxMain \in Nat /\ Len(main) \in Nat /\ Len(main) \in 0..MaxMain /\ Len(main) # 0 /\ Len(main) <= MaxMain
            /\ \A r \in Runs : validated[r] \in Nat /\ base[r] \in Nat
BY DEF TypeOK

LEMMA InitIInv == Init => IInv
<1> SUFFICES ASSUME Init PROVE IInv
  OBVIOUS
<1>1. main \in Seq(Versions \cup {0}) /\ Len(main) = 1 /\ main[1] = 0
  BY DEF Init
<1>2. TypeOK
  <2>1. "idle" \in Phases /\ 0 \in 0..MaxMain /\ 1 \in 1..MaxMain
    BY DEF Phases
  <2> QED  BY <1>1, <2>1 DEF Init, TypeOK
<1> QED  BY <1>1, <1>2 DEF Init, IInv, RunsReady, BranchesFromRuns, AssetsFirst

\* A run starts, or publishes its assets.
LEMMA StartIInv ==
  ASSUME IInv, NEW r \in Runs, NEW v \in Versions,
         PushTag(r, v) \/ Dispatch(r, v) \/ ValidateTemplate(r) \/ Publish(r)
  PROVE  IInv'
<1> USE DEF IInv
<1>0. {"tagged", "started", "audited"} \subseteq Phases
  BY DEF Phases
<1>1. CASE PushTag(r, v) \/ Dispatch(r, v)
  <2>0. PICK to \in {"tagged", "started"} :
          /\ phase' = [phase EXCEPT ![r] = to] /\ version' = [version EXCEPT ![r] = v]
          /\ phase[r] = "idle" /\ UNCHANGED <<validated, base, published, main, branch, request>>
    BY <1>1 DEF PushTag, Dispatch, Enter, tap
  <2>1. TypeOK'
    BY <1>0, <2>0 DEF TypeOK
  <2>2. RunsReady'
    BY <2>0 DEF TypeOK, RunsReady
  <2>3. BranchesFromRuns'
    BY <2>0, BranchType DEF TypeOK, BranchesFromRuns
  <2>4. AssetsFirst'
    BY <2>0 DEF AssetsFirst
  <2> QED  BY <2>1, <2>2, <2>3, <2>4
<1>2. CASE ValidateTemplate(r)
  <2>1. TypeOK'
    <3>1. Len(main) \in 0..MaxMain
      BY DEF TypeOK
    <3> QED  BY <1>0, <1>2, <3>1 DEF TypeOK, ValidateTemplate, Enter, tap
  <2>2. RunsReady'
    <3>1. /\ phase[r] = "tagged" /\ phase' = [phase EXCEPT ![r] = "audited"]
          /\ validated' = [validated EXCEPT ![r] = Len(main)]
          /\ UNCHANGED <<version, base, published, main>>
      BY <1>2 DEF ValidateTemplate, Enter, tap
    <3>2. phase \in [Runs -> Phases] /\ validated \in [Runs -> 0..MaxMain]
      BY DEF TypeOK
    <3>3. Len(main) <= Len(main)
      BY MainLength
    <3> QED  BY <3>1, <3>2, <3>3 DEF RunsReady
  <2>3. BranchesFromRuns' /\ AssetsFirst'
    BY <1>2, BranchType DEF TypeOK, BranchesFromRuns, AssetsFirst, ValidateTemplate, Enter, tap
  <2> QED  BY <2>1, <2>2, <2>3
<1>3. CASE Publish(r)
  <2>1. TypeOK'
    BY <1>0, <1>3 DEF TypeOK, RunsReady, Publish, Enter, tap
  <2>2. RunsReady'
    BY <1>3 DEF TypeOK, RunsReady, Publish, Enter, tap
  <2>3. BranchesFromRuns' /\ AssetsFirst'
    BY <1>3 DEF TypeOK, BranchesFromRuns, AssetsFirst, Publish, Enter, tap
  <2> QED  BY <2>1, <2>2, <2>3
<1> QED  BY <1>1, <1>2, <1>3

\* tap-sha, or the revision that main has now.
LEMMA CheckoutIInv == ASSUME IInv, NEW r \in Runs, Checkout(r) PROVE IInv'
<1> USE DEF IInv
<1>1. PICK b : /\ b \in 1..Len(main) /\ b \in 0..MaxMain
               /\ validated[r] # 0 => b = validated[r]
               /\ base' = [base EXCEPT ![r] = b]
  <2> DEFINE b == IF validated[r] # 0 THEN validated[r] ELSE Len(main)
  <2>1. validated[r] \in Nat /\ validated[r] <= Len(main) /\ Len(main) \in 1..MaxMain
    BY MainLength DEF TypeOK, RunsReady
  <2>2. b \in 1..Len(main) /\ b \in 0..MaxMain
    BY <2>1
  <2> QED  BY <2>2 DEF Checkout
<1>2. /\ phase[r] = "verified" /\ phase' = [phase EXCEPT ![r] = "checked out"]
      /\ "checked out" \in Phases
      /\ UNCHANGED <<version, validated, published, main, branch, request>>
  BY DEF Checkout, Enter, tap, Phases
<1>3. TypeOK'
  BY <1>1, <1>2 DEF TypeOK
<1>4. RunsReady'
  BY <1>1, <1>2 DEF TypeOK, RunsReady
<1>5. BranchesFromRuns' /\ AssetsFirst'
  BY <1>2, BranchType DEF TypeOK, BranchesFromRuns, AssetsFirst
<1> QED  BY <1>3, <1>4, <1>5

Pushed == {"pushed", "unrequested", "requested", "failed"}

\* A run goes on with what it has: no branch of its own is left by a run that
\* has not pushed one.
LEMMA ProgressIInv ==
  ASSUME IInv, NEW r \in Runs, NEW to \in Phases \ {"idle"},
         phase' = [phase EXCEPT ![r] = to], phase[r] # "idle",
         UNCHANGED <<version, validated, base, published, main, branch>>,
         request' \in [Versions -> {"none", "open", "merged"}],
         \A v \in Versions : request'[v] # "none" => branch[v] # NoBranch,
         to # "failed" => version[r] \in published,
         to \notin {"verified", "failed"} =>
           phase[r] \in {"checked out", "pushed", "unrequested"},
         phase[r] \in Pushed => to \in Pushed,
         to \in {"verified", "failed", "current", "refused", "requested", "unrequested"}
  PROVE  IInv'
<1> USE DEF IInv
<1>1. TypeOK'
  BY DEF TypeOK
<1>2. RunsReady'
  BY DEF TypeOK, RunsReady
<1>3. BranchesFromRuns'
  BY BranchType DEF TypeOK, BranchesFromRuns, Pushed
<1>4. AssetsFirst'
  BY DEF AssetsFirst
<1> QED  BY <1>1, <1>2, <1>3, <1>4

LEMMA ScriptIInv ==
  ASSUME IInv, NEW r \in Runs,
         VerifyRelease(r) \/ AlreadyCurrent(r) \/ PushRefused(r) \/ FindRequest(r)
           \/ FindNoRequest(r) \/ CreateRequest(r) \/ Fail(r)
  PROVE  IInv'
<1> USE DEF IInv
<1>1. /\ request \in [Versions -> {"none", "open", "merged"}]
      /\ \A v \in Versions : request[v] # "none" => branch[v] # NoBranch
      /\ phase[r] \in {"checked out", "pushed", "unrequested"} => version[r] \in published
  BY DEF TypeOK, RunsReady, BranchesFromRuns
<1>2. {"verified", "failed", "current", "refused", "requested", "unrequested"} \subseteq Phases \ {"idle"}
  BY DEF Phases, Ended
<1>3. CASE VerifyRelease(r)
  BY <1>1, <1>2, <1>3, ProgressIInv DEF VerifyRelease, Enter, tap, Pushed
<1>4. CASE AlreadyCurrent(r) \/ PushRefused(r)
  BY <1>1, <1>2, <1>4, ProgressIInv DEF AlreadyCurrent, PushRefused, Enter, tap, Pushed
<1>5. CASE FindRequest(r) \/ FindNoRequest(r)
  BY <1>1, <1>2, <1>5, ProgressIInv DEF FindRequest, FindNoRequest, Enter, tap, Pushed
<1>6. CASE CreateRequest(r)
  BY <1>1, <1>2, <1>6, ProgressIInv DEF CreateRequest, Enter, Pushed
<1>7. CASE Fail(r)
  BY <1>1, <1>2, <1>7, ProgressIInv DEF Fail, tap, Pushed
<1> QED  BY <1>3, <1>4, <1>5, <1>6, <1>7

LEMMA PushIInv == ASSUME IInv, NEW r \in Runs, Push(r) PROVE IInv'
<1> USE DEF IInv
<1>1. /\ phase[r] = "checked out" /\ phase' = [phase EXCEPT ![r] = "pushed"]
      /\ branch' = [branch EXCEPT ![version[r]] = Commit(r)]
      /\ version[r] \in Versions /\ version[r] \in published
      /\ base[r] \in 1..Len(main) /\ (validated[r] # 0 => base[r] = validated[r])
      /\ UNCHANGED <<version, validated, base, published, main, request>>
  BY DEF Push, Enter, RunsReady
<1>2. Commit(r) \in Commits /\ Commit(r) # NoBranch /\ Commit(r).by = r /\ Commit(r).onto = base[r]
  <2>0. base[r] \in 1..MaxMain
    <3>1. \A n \in 1..Len(main) : n \in 1..MaxMain
      BY MainLength
    <3> QED  BY <1>1, <3>1
  <2>1. Commit(r) \in Commits
    BY <2>0 DEF Commit, Commits
  <2>2. Commit(r) # NoBranch
    BY <2>1 DEF Commits
  <2> QED  BY <2>1, <2>2 DEF Commit
<1>3. TypeOK'
  BY <1>1, <1>2 DEF TypeOK, Phases
<1>4. RunsReady' /\ AssetsFirst'
  BY <1>1 DEF TypeOK, RunsReady, AssetsFirst
<1>5. BranchesFromRuns'
  BY <1>1, <1>2 DEF TypeOK, BranchesFromRuns, Commits
<1> QED  BY <1>3, <1>4, <1>5

\* A new revision of main, of a published version or the one before.
LEMMA RevisionIInv ==
  ASSUME IInv, NEW v \in published \cup {0}, Len(main) < MaxMain, main' = Append(main, v),
         UNCHANGED <<phase, version, validated, base, published, branch>>,
         \A w \in Versions : request'[w] # "none" => request[w] # "none",
         request' \in [Versions -> {"none", "open", "merged"}]
  PROVE  IInv'
<1> USE DEF IInv
<1>1. /\ Len(main) \in Nat /\ main' \in Seq(Versions \cup {0}) /\ Len(main') = Len(main) + 1
      /\ \A n \in 1..Len(main) : main'[n] = main[n]
      /\ main'[Len(main) + 1] = v
  BY AppendProperties DEF TypeOK
<1>2. \A n \in 1..Len(main') : n \in 1..Len(main) \/ n = Len(main) + 1
  BY <1>1
<1>3. TypeOK'
  BY <1>1 DEF TypeOK
<1>4. AssetsFirst'
  BY <1>1, <1>2 DEF AssetsFirst
<1>5. RunsReady'
  <2>1. \A r \in Runs :
          /\ validated[r] <= Len(main) => validated[r] <= Len(main')
          /\ base[r] \in 1..Len(main) => base[r] \in 1..Len(main')
    BY <1>1, MainLength
  <2> QED  BY <2>1 DEF RunsReady
<1>6. BranchesFromRuns'
  BY <1>1, BranchType DEF BranchesFromRuns
<1> QED  BY <1>3, <1>4, <1>5, <1>6

LEMMA LatestKnown == IInv => Latest \in published \cup {0}
BY DEF IInv, TypeOK, AssetsFirst, Latest

LEMMA MaintainIInv == ASSUME IInv, NEW v \in Versions, Maintain(v) PROVE IInv'
<1> USE DEF IInv
<1>1. CASE Merge(v)
  <2>1. v \in published
    BY <1>1 DEF Merge, BranchesFromRuns, AssetsFirst
  <2> QED  BY <1>1, <2>1, RevisionIInv DEF Merge, TypeOK
<1>2. CASE OpenByHand(v) \/ CloseRequest(v)
  <2>1. TypeOK' /\ RunsReady' /\ AssetsFirst'
    BY <1>2 DEF OpenByHand, CloseRequest, TypeOK, RunsReady, AssetsFirst
  <2>2. BranchesFromRuns'
    BY <1>2 DEF OpenByHand, CloseRequest, TypeOK, BranchesFromRuns
  <2> QED  BY <2>1, <2>2
<1>3. CASE Amend(v)
  <2>1. /\ branch[v] \in Commits /\ [branch[v] EXCEPT !.amended = TRUE] \in Commits
        /\ [branch[v] EXCEPT !.amended = TRUE] # NoBranch
        /\ [branch[v] EXCEPT !.amended = TRUE].by = branch[v].by
        /\ [branch[v] EXCEPT !.amended = TRUE].onto = branch[v].onto
    BY <1>3 DEF Amend, TypeOK, Commits
  <2>2. /\ branch' = [branch EXCEPT ![v] = [branch[v] EXCEPT !.amended = TRUE]]
        /\ UNCHANGED <<phase, version, validated, base, published, main, request>>
    BY <1>3 DEF Amend
  <2>3. TypeOK'
    BY <2>1, <2>2 DEF TypeOK
  <2>5. RunsReady'
    BY <2>2 DEF RunsReady
  <2>6. AssetsFirst'
    BY <1>3, <2>1, <2>2 DEF Amend, TypeOK, AssetsFirst
  <2>4. BranchesFromRuns'
    BY <1>3, <2>1, <2>2 DEF Amend, TypeOK, BranchesFromRuns
  <2> QED  BY <2>3, <2>4, <2>5, <2>6
<1>4. CASE DeleteBranch(v)
  <2>1. TypeOK' /\ RunsReady' /\ AssetsFirst'
    BY <1>4 DEF DeleteBranch, TypeOK, RunsReady, AssetsFirst
  <2>2. BranchesFromRuns'
    BY <1>4 DEF DeleteBranch, TypeOK, BranchesFromRuns
  <2> QED  BY <2>1, <2>2
<1> QED  BY <1>1, <1>2, <1>3, <1>4 DEF Maintain

LEMMA NextIInv == IInv /\ [Next]_vars => IInv'
<1> SUFFICES ASSUME IInv, [Next]_vars PROVE IInv'
  OBVIOUS
<1>1. ASSUME NEW r \in Runs, Work(r) PROVE IInv'
  <2>1. CASE ValidateTemplate(r) \/ Publish(r)
    <3>1. version[r] \in Versions
      BY <2>1 DEF IInv, RunsReady, ValidateTemplate, Publish, Enter
    <3> QED  BY <2>1, <3>1, StartIInv
  <2> QED  BY <1>1, <2>1, CheckoutIInv, ScriptIInv, PushIInv DEF Work
<1>2. ASSUME NEW r \in Runs, NEW v \in Versions, PushTag(r, v) \/ Dispatch(r, v) PROVE IInv'
  BY <1>2, StartIInv
<1>3. CASE ChangeOther
  BY <1>3, LatestKnown, RevisionIInv DEF ChangeOther, IInv, TypeOK
<1>4. CASE UNCHANGED vars
  BY <1>4 DEF vars, IInv, TypeOK, RunsReady, BranchesFromRuns, AssetsFirst
<1> QED  BY <1>1, <1>2, <1>3, <1>4, MaintainIInv DEF Next

\* The strengthened invariant holds in every reachable state.
THEOREM ReleaseInvariant == Spec => []IInv
BY InitIInv, NextIInv, PTL DEF Spec

\* Nothing in the tap points at assets that are not published.
THEOREM PublishedFirst == Spec => []AssetsFirst
<1>1. IInv => AssetsFirst
  BY DEF IInv
<1> QED  BY <1>1, ReleaseInvariant, PTL

--------------------------------------------------------------------------------

\* git push --force-with-lease without a remote branch to compare replaces none.
THEOREM PushReplacesNothing == Spec => WorkKept
<1>1. IInv /\ [Next]_vars =>
        [\A v \in Versions :
           branch[v] # NoBranch =>
             \/ branch'[v] = NoBranch
             \/ branch'[v] = branch[v] \/ branch'[v] = [branch[v] EXCEPT !.amended = TRUE]]_vars
  <2> SUFFICES ASSUME IInv, Next, NEW v \in Versions, branch[v] # NoBranch
               PROVE  \/ branch'[v] = NoBranch
                      \/ branch'[v] = branch[v]
                      \/ branch'[v] = [branch[v] EXCEPT !.amended = TRUE]
    OBVIOUS
  <2>1. branch = [w \in Versions |-> branch[w]]
    BY DEF IInv, TypeOK
  <2>2. ASSUME NEW r \in Runs, Push(r) PROVE branch'[v] = branch[v]
    BY <2>1, <2>2 DEF Push
  <2>3. ASSUME NEW w \in Versions, Amend(w) \/ DeleteBranch(w)
        PROVE  \/ branch'[v] = NoBranch
               \/ branch'[v] = branch[v] \/ branch'[v] = [branch[v] EXCEPT !.amended = TRUE]
    BY <2>1, <2>3 DEF Amend, DeleteBranch
  <2>4. ASSUME NEW w \in Versions, Merge(w) \/ OpenByHand(w) \/ CloseRequest(w)
        PROVE  branch' = branch
    BY <2>4 DEF Merge, OpenByHand, CloseRequest
  <2>5. ASSUME NEW r \in Runs, NEW w \in Versions, PushTag(r, w) \/ Dispatch(r, w)
        PROVE  branch' = branch
    BY <2>5 DEF PushTag, Dispatch, tap
  <2>6. ASSUME NEW r \in Runs, Work(r), ~Push(r) PROVE branch' = branch
    BY <2>6 DEF Work, ValidateTemplate, Publish, VerifyRelease, Checkout, AlreadyCurrent,
                PushRefused, FindRequest, FindNoRequest, CreateRequest, Fail, tap
  <2>7. ChangeOther => branch' = branch
    BY DEF ChangeOther
  <2> QED  BY <2>2, <2>3, <2>4, <2>5, <2>6, <2>7 DEF Next, Maintain
<1> QED  BY <1>1, ReleaseInvariant, PTL DEF Spec, WorkKept

\* What is checked out is tap-sha, and a merge replaces what was checked out.
THEOREM OvertakenReleasesConflict == Spec => ReplacesWhatWasValidated
<1>1. IInv /\ [Next]_vars =>
        [\A v \in Versions :
           request[v] = "open" /\ request'[v] = "merged" /\ validated[branch[v].by] # 0 =>
             Latest \in {main[validated[branch[v].by]], v}]_vars
  <2> SUFFICES ASSUME IInv, Next, NEW v \in Versions, request[v] = "open",
                      request'[v] = "merged", validated[branch[v].by] # 0
               PROVE  Latest \in {main[validated[branch[v].by]], v}
    OBVIOUS
  <2>1. request = [w \in Versions |-> request[w]]
    BY DEF IInv, TypeOK
  <2>2. Merge(v) => Latest \in {main[validated[branch[v].by]], v}
    BY DEF Merge, IInv, BranchesFromRuns
  <2>3. ASSUME NEW w \in Versions, Maintain(w) PROVE Merge(v)
    <3>1. CASE Merge(w)
      BY <2>1, <3>1 DEF Merge
    <3>2. CASE OpenByHand(w) \/ CloseRequest(w) \/ DeleteBranch(w)
      BY <2>1, <3>2 DEF OpenByHand, CloseRequest, DeleteBranch
    <3>3. CASE Amend(w)
      BY <3>3 DEF Amend
    <3> QED  BY <2>3, <3>1, <3>2, <3>3 DEF Maintain
  <2>4. ASSUME NEW r \in Runs, NEW w \in Versions, PushTag(r, w) \/ Dispatch(r, w) PROVE FALSE
    BY <2>4 DEF PushTag, Dispatch, tap
  <2>5. ASSUME NEW r \in Runs, Work(r) PROVE FALSE
    BY <2>1, <2>5 DEF Work, ValidateTemplate, Publish, VerifyRelease, Checkout, AlreadyCurrent,
                      Push, PushRefused, FindRequest, FindNoRequest, CreateRequest, Fail, tap
  <2>6. ~ChangeOther
    BY DEF ChangeOther
  <2> QED  BY <2>2, <2>3, <2>4, <2>5, <2>6 DEF Next
<1> QED  BY <1>1, ReleaseInvariant, PTL DEF Spec, ReplacesWhatWasValidated

================================================================================
