-------------------------- MODULE GitEnvironment_proofs --------------------------
(***************************************************************************)
(* Proofs about GitEnvironment, for any directories, repositories and      *)
(* environments: git is asked about the repository of --root, with the     *)
(* caller's variables gone or meaning what they meant.                     *)
(***************************************************************************)
EXTENDS GitEnvironment, TLAPS

--------------------------------------------------------------------------------
(* The inductive invariant *)

\* What the variables are turned into for the repository of the caller.
Preserved ==
  [v \in Variables |->
     IF given[v] # "relative" \/ v = "GIT_PREFIX" THEN given[v]
     ELSE IF v = Alternates THEN WorkTree(given, cwd) ELSE cwd]

PreservedSoFar == {Alternates} \cup {PathVariables[n] : n \in 1..(position - 1)}

\* The two forms in which git may be asked.
Settled ==
  \/ env = Cleared /\ (given = Cleared \/ ~SameRepository)
  \/ env = Preserved /\ SameRepository

\* The answers of git, and what may be concluded from them.
AnswersTrue ==
  /\ current \in {"none", Repository(given, cwd)}
  /\ target \in {"none", RepositoryOf[root]}
  /\ ~trouble /\ pc \notin {"read", "current"} /\ given # Cleared =>
       current = Repository(given, cwd)
  /\ ~trouble /\ pc \notin {"read", "current", "target"} /\ given # Cleared =>
       target = RepositoryOf[root]

\* The environment at each step: the caller's, between two, or one of the two
\* forms in which git may be asked.
EnvironmentInStep ==
  /\ pc \in {"read", "current", "target", "compare", "directory", "alternates"} => env = given
  /\ pc \notin {"read", "prepared", "asked", "failed", "error", "done"} => given # Cleared
  /\ pc \in {"current", "target", "compare"} => names = SetVariables
  /\ pc = "clear" => /\ \A v \in Variables \ names : env[v] = "unset"
                     /\ ~SameRepository
  /\ pc \in {"directory", "alternates", "preserve"} => SameRepository
  /\ pc = "preserve" =>
       /\ position <= Len(PathVariables)
       /\ \A v \in Variables : env[v] = IF v \in PreservedSoFar THEN Preserved[v] ELSE given[v]
  /\ pc \in {"read", "current", "target", "compare", "clear", "directory", "alternates"} =>
       position = 1
  /\ pc \in {"prepared", "asked"} => Settled

\* The target directory follows from the last query.
BaseInStep ==
  /\ pc \notin {"asked", "done"} => base = root
  /\ pc = "failed" => trouble
  /\ pc \in {"asked", "done"} /\ ~trouble /\ use = "targets" =>
       /\ Settled
       /\ base = IF Repository(env, root) # "none" THEN WorkTree(env, root) ELSE root

IInv == TypeOK /\ AnswersTrue /\ EnvironmentInStep /\ BaseInStep

--------------------------------------------------------------------------------
(* What git makes of the two settled environments *)

\* The variables are told apart by their names.
LEMMA Names ==
  /\ Len(PathVariables) = 8
  /\ \A n \in 1..8 : PathVariables[n] \in Variables /\ PathVariables[n] \notin {Alternates, "GIT_PREFIX"}
  /\ \A v \in Variables \ {Alternates, "GIT_PREFIX"} : \E n \in 1..8 : v = PathVariables[n]
  /\ {"GIT_DIR", "GIT_WORK_TREE", Alternates, "GIT_PREFIX"} \subseteq Variables
BY DEF PathVariables, Variables, Alternates

LEMMA ClearedType == Cleared \in [Variables -> Values]
BY DEF Cleared, Values, GivenValues

\* Without variables git finds the repository it is started in.
LEMMA ClearedRepository ==
  ASSUME NEW d
  PROVE  Repository(Cleared, d) = RepositoryOf[d] /\ WorkTree(Cleared, d) = TopOf[d]
BY Names DEF Repository, WorkTree, Cleared

\* A found repository is one, and so not an accident of an empty variable.
LEMMA GivenUsable ==
  ASSUME TypeOK, AnswersTrue, SameRepository
  PROVE  /\ "empty" \notin {given["GIT_DIR"], given["GIT_WORK_TREE"]}
         /\ Repository(given, cwd) = RepositoryOf[root]
         /\ RepositoryOf[root] # "none"
BY DEF AnswersTrue, SameRepository, Repository

LEMMA PreservedType ==
  ASSUME TypeOK, AnswersTrue, SameRepository
  PROVE  /\ Preserved \in [Variables -> Values]
         /\ \A v \in Variables \ {"GIT_PREFIX"} : Preserved[v] # "relative"
<1>1. WorkTree(given, cwd) \in Values \ {"relative"}
  BY GivenUsable, DirectoriesAssumption, Names
     DEF WorkTree, Values, GivenValues, TypeOK
<1>2. cwd \in Values \ {"relative"}
  BY DirectoriesAssumption DEF TypeOK, Values, GivenValues
<1>3. \A v \in Variables : given[v] \in Values
  BY DEF TypeOK, Values
<1> QED BY <1>1, <1>2, <1>3 DEF Preserved

\* With its variables preserved, git at --root finds the caller's repository.
LEMMA PreservedRepository ==
  ASSUME TypeOK, AnswersTrue, SameRepository
  PROVE  Repository(Preserved, root) = RepositoryOf[root]
<1>1. /\ given["GIT_DIR"] \in {"unset", "absolute"} => Preserved["GIT_DIR"] = given["GIT_DIR"]
      /\ given["GIT_DIR"] = "relative" => Preserved["GIT_DIR"] = cwd
      /\ given["GIT_WORK_TREE"] # "relative" => Preserved["GIT_WORK_TREE"] = given["GIT_WORK_TREE"]
      /\ given["GIT_WORK_TREE"] = "relative" => Preserved["GIT_WORK_TREE"] = cwd
  BY Names DEF Preserved, Alternates
<1>2. given["GIT_DIR"] \in GivenValues /\ given["GIT_WORK_TREE"] \in GivenValues
  BY Names DEF TypeOK
<1>3. cwd \notin {"unset", "empty", "relative"}
  BY DirectoriesAssumption DEF TypeOK, GivenValues
<1>4. "empty" \notin {Preserved["GIT_DIR"], Preserved["GIT_WORK_TREE"]}
  BY <1>1, <1>2, <1>3, GivenUsable DEF GivenValues
<1>5. Preserved["GIT_DIR"] # "relative"
  BY PreservedType, Names DEF Alternates
<1>6. CASE given["GIT_DIR"] = "unset"
  BY <1>1, <1>4, <1>6 DEF Repository
<1>7. CASE given["GIT_DIR"] # "unset"
  <2>1. Preserved["GIT_DIR"] # "unset"
    BY <1>1, <1>2, <1>3, <1>7, GivenUsable DEF GivenValues
  <2>2. Repository(Preserved, root) = named
    BY <1>4, <1>5, <2>1 DEF Repository
  <2>3. Repository(given, cwd) = named
    BY <1>7, GivenUsable DEF Repository
  <2> QED BY <2>2, <2>3, GivenUsable
<1> QED BY <1>6, <1>7

--------------------------------------------------------------------------------
(* The invariant *)

LEMMA InitIInv == Init => IInv
<1> SUFFICES ASSUME Init PROVE IInv
  OBVIOUS
<1> USE DEF Init
<1>1. TypeOK
  <2>1. given \in [Variables -> GivenValues] /\ env \in [Variables -> Values]
    BY EnvironmentsAssumption DEF Values
  <2>2. named \in Repositories /\ current \in Repositories /\ target \in Repositories
    BY DEF Repositories
  <2>3. position \in 1..(Len(PathVariables) + 1)
    BY Names
  <2>4. /\ use \in {"batch", "targets"} /\ {cwd, root} \subseteq Directories
        /\ pc \in Steps /\ names \subseteq Variables /\ base \in Values /\ trouble \in BOOLEAN
    BY DEF Steps, Values
  <2> QED BY <2>1, <2>2, <2>3, <2>4 DEF TypeOK
<1>2. AnswersTrue /\ EnvironmentInStep /\ BaseInStep
  BY DEF AnswersTrue, EnvironmentInStep, BaseInStep
<1> QED BY <1>1, <1>2 DEF IInv

\* The answers of git are repositories.
LEMMA RepositoryType ==
  ASSUME TypeOK, NEW e, NEW d \in Directories
  PROVE  Repository(e, d) \in Repositories
BY DEF TypeOK, Repository, Repositories

\* A failed call ends the preparation, and the environment is not used.
LEMMA FailIInv ==
  ASSUME IInv, Fail, pc \in {"read", "clear", "directory", "alternates", "preserve"}
  PROVE  IInv'
<1> USE DEF IInv, Fail, Goto, world
<1>1. TypeOK'
  BY DEF TypeOK, Steps
<1>2. AnswersTrue'
  BY DEF AnswersTrue, Repository
<1>3. EnvironmentInStep' /\ BaseInStep'
  BY DEF EnvironmentInStep, BaseInStep
<1> QED BY <1>1, <1>2, <1>3

\* The answers stay what they are when neither they nor the world change.
LEMMA AnswersKept ==
  ASSUME AnswersTrue, UNCHANGED <<world, current, target>>, trouble => trouble',
         pc \in {"read", "current", "target"} => given = Cleared,
         pc' \notin {"read", "current", "target"}
  PROVE  AnswersTrue'
BY DEF AnswersTrue, Repository, world, Cleared

LEMMA StepIInv == IInv /\ [Next]_vars => IInv'
<1> SUFFICES ASSUME IInv, [Next]_vars PROVE IInv'
  OBVIOUS
<1> USE DEF IInv, Goto, world
<1>1. CASE ReadEnvironment
  <2> USE <1>1 DEF ReadEnvironment
  <2>1. TypeOK'
    BY DEF TypeOK, Steps, SetVariables
  <2>2. SetVariables = {} => given = Cleared /\ env = Cleared
    BY DEF SetVariables, Cleared, TypeOK, EnvironmentInStep
  <2>3. SetVariables # {} => given # Cleared
    BY DEF SetVariables, Cleared, TypeOK, EnvironmentInStep
  <2>4. AnswersTrue'
    BY <2>2, <2>3 DEF AnswersTrue, Repository, Cleared
  <2>5. EnvironmentInStep'
    BY <2>2, <2>3 DEF EnvironmentInStep, Settled, Cleared, SetVariables
  <2>6. BaseInStep'
    BY DEF BaseInStep
  <2> QED BY <2>1, <2>4, <2>5, <2>6
<1>2. CASE FindCurrent
  <2> USE <1>2 DEF FindCurrent
  <2>1. TypeOK'
    BY RepositoryType DEF TypeOK, Steps
  <2>2. AnswersTrue'
    BY DEF AnswersTrue, EnvironmentInStep, Repository, Cleared
  <2>3. EnvironmentInStep' /\ BaseInStep'
    BY DEF EnvironmentInStep, BaseInStep, Cleared, SetVariables
  <2> QED BY <2>1, <2>2, <2>3
<1>3. CASE FindTarget
  <2> USE <1>3 DEF FindTarget
  <2>1. target' = RepositoryOf[root]
    BY ClearedRepository
  <2>2. TypeOK'
    BY <2>1 DEF TypeOK, Steps, Repositories
  <2>3. AnswersTrue'
    BY <2>1 DEF AnswersTrue, Repository, Cleared
  <2>4. EnvironmentInStep' /\ BaseInStep'
    BY DEF EnvironmentInStep, BaseInStep, Cleared, SetVariables
  <2> QED BY <2>2, <2>3, <2>4
<1>4. CASE QueryFails
  <2> USE <1>4 DEF QueryFails
  <2>1. TypeOK'
    BY DEF TypeOK, Steps, Repositories
  <2>2. AnswersTrue'
    BY DEF AnswersTrue, Repository
  <2>3. EnvironmentInStep' /\ BaseInStep'
    BY DEF EnvironmentInStep, BaseInStep, Cleared, SetVariables
  <2> QED BY <2>1, <2>2, <2>3
<1>5. CASE Compare
  <2> USE <1>5 DEF Compare
  <2>1. TypeOK'
    BY DEF TypeOK, Steps
  <2>2. AnswersTrue'
    BY DEF AnswersTrue, Repository, Cleared
  <2>3. names' = names
    OBVIOUS
  <2>4. EnvironmentInStep'
    BY DEF EnvironmentInStep, SameRepository, Cleared, SetVariables
  <2>5. BaseInStep'
    BY DEF BaseInStep
  <2> QED BY <2>1, <2>2, <2>4, <2>5
<1>6. CASE Clear
  <2> USE <1>6 DEF Clear
  <2>1. PICK v \in names : names' = names \ {v} /\ env' = [env EXCEPT ![v] = "unset"]
    OBVIOUS
  <2>2. TypeOK'
    BY <2>1 DEF TypeOK, Steps, Values, GivenValues
  <2>3. AnswersTrue'
    BY DEF AnswersTrue, Repository, Cleared
  <2>4. \A w \in Variables \ names' : env'[w] = "unset"
    BY <2>1 DEF TypeOK, EnvironmentInStep
  <2>5. names' = {} => env' = Cleared
    BY <2>2, <2>4 DEF Cleared, TypeOK
  <2>6. ~SameRepository /\ ~SameRepository'
    BY DEF EnvironmentInStep, SameRepository
  <2>7. given # Cleared /\ given' # Cleared' /\ position' = 1 /\ Cleared' = Cleared
    BY DEF EnvironmentInStep, Cleared
  <2>8. EnvironmentInStep'
    BY <2>4, <2>5, <2>6, <2>7 DEF EnvironmentInStep, Settled
  <2>9. BaseInStep'
    BY DEF BaseInStep
  <2> QED BY <2>2, <2>3, <2>8, <2>9
<1>7. CASE ReadDirectory
  <2> USE <1>7 DEF ReadDirectory
  <2>1. TypeOK'
    BY DEF TypeOK, Steps
  <2>2. AnswersTrue'
    BY DEF AnswersTrue, Repository, Cleared
  <2>3. EnvironmentInStep' /\ BaseInStep'
    BY DEF EnvironmentInStep, SameRepository, BaseInStep, Cleared
  <2> QED BY <2>1, <2>2, <2>3
<1>8. CASE PreserveAlternates
  <2> USE <1>8 DEF PreserveAlternates
  <2>1. SameRepository /\ env = given /\ position = 1 /\ given # Cleared
    BY DEF EnvironmentInStep
  <2>2. Preserved[Alternates] = Meaning(env, Alternates, cwd)
    BY <2>1, Names DEF Preserved, Meaning, OpenedLater, Alternates
  <2>3. env' \in [Variables -> Values]
    BY <2>1, <2>2, PreservedType, Names DEF TypeOK
  <2>4. TypeOK'
    BY <2>3 DEF TypeOK, Steps
  <2>5. AnswersTrue'
    BY DEF AnswersTrue, Repository, Cleared
  <2>6. PreservedSoFar = {Alternates} /\ PreservedSoFar' = {Alternates}
    BY <2>1 DEF PreservedSoFar
  <2>7. \A v \in Variables : env'[v] = IF v \in PreservedSoFar' THEN Preserved[v] ELSE given[v]
    BY <2>1, <2>2, <2>6 DEF TypeOK
  <2>8. Preserved' = Preserved /\ Cleared' = Cleared /\ (SameRepository <=> SameRepository')
    BY DEF Preserved, WorkTree, Cleared, SameRepository
  <2>9. EnvironmentInStep'
    BY <2>1, <2>7, <2>8, Names DEF EnvironmentInStep
  <2>10. BaseInStep'
    BY DEF BaseInStep
  <2> QED BY <2>4, <2>5, <2>9, <2>10
<1>9. CASE PreservePath
  <2> USE <1>9 DEF PreservePath
  <2> DEFINE v == PathVariables[position]
  <2>1. /\ SameRepository /\ given # Cleared /\ position \in 1..8
        /\ \A w \in Variables : env[w] = IF w \in PreservedSoFar THEN Preserved[w] ELSE given[w]
    BY Names DEF EnvironmentInStep, TypeOK
  <2>2. v \in Variables \ {Alternates, "GIT_PREFIX"}
    BY <2>1, Names
  <2>3. env[v] \in {given[v], Preserved[v]}
    BY <2>1, <2>2
  <2>4. (IF env[v] = "relative" THEN cwd ELSE env[v]) = Preserved[v]
    BY <2>2, <2>3, PreservedType, <2>1 DEF Preserved
  <2>5. env' = [env EXCEPT ![v] = Preserved[v]]
    BY <2>4
  <2>6. env' \in [Variables -> Values]
    BY <2>5, <2>2, PreservedType, <2>1 DEF TypeOK
  <2>7. TypeOK'
    BY <2>6, <2>1, Names DEF TypeOK, Steps
  <2>8. AnswersTrue'
    BY DEF AnswersTrue, Repository, Cleared
  <2>9. PreservedSoFar' = PreservedSoFar \cup {v}
    <3>1. 1..(position' - 1) = 1..(position - 1) \cup {position}
      BY <2>1
    <3> QED BY <3>1 DEF PreservedSoFar
  <2>10. \A w \in Variables : env'[w] = IF w \in PreservedSoFar' THEN Preserved[w] ELSE given[w]
    BY <2>1, <2>2, <2>5, <2>9 DEF TypeOK
  <2>11. Preserved' = Preserved /\ Cleared' = Cleared /\ (SameRepository <=> SameRepository')
    BY DEF Preserved, WorkTree, Cleared, SameRepository
  <2>12. position = 8 => env' = Preserved
    <3> SUFFICES ASSUME position = 8 PROVE env' = Preserved
      OBVIOUS
    <3>1. PreservedSoFar' = {Alternates} \cup {PathVariables[n] : n \in 1..8}
      BY DEF PreservedSoFar
    <3>2. \A w \in Variables \ {"GIT_PREFIX"} : w \in PreservedSoFar'
      BY <3>1, Names
    <3>3. given["GIT_PREFIX"] = Preserved["GIT_PREFIX"]
      BY Names DEF Preserved
    <3>4. \A w \in Variables : env'[w] = Preserved[w]
      BY <2>10, <3>2, <3>3
    <3> QED BY <3>4, <2>6 DEF Preserved
  <2>13. EnvironmentInStep'
    BY <2>1, <2>10, <2>11, <2>12, Names DEF EnvironmentInStep, Settled
  <2>14. BaseInStep'
    BY DEF BaseInStep
  <2> QED BY <2>7, <2>8, <2>13, <2>14
<1>10. CASE Ask
  <2> USE <1>10 DEF Ask
  <2>1. Settled
    BY DEF EnvironmentInStep
  <2>2. base' \in Values
    <3>1. root \in Values
      BY DEF TypeOK, Values
    <3>2. WorkTree(env, root) \in Values
      BY DirectoriesAssumption, Names DEF TypeOK, WorkTree, Values
    <3> QED BY <3>1, <3>2
  <2>3. TypeOK'
    BY <2>2 DEF TypeOK, Steps
  <2>4. AnswersTrue'
    BY DEF AnswersTrue, Repository, Cleared
  <2>5. Settled'
    BY <2>1 DEF Settled, Preserved, WorkTree, Cleared, SameRepository
  <2>6. EnvironmentInStep'
    BY <2>5 DEF EnvironmentInStep
  <2>7. BaseInStep'
    BY <2>5 DEF BaseInStep, Repository, WorkTree
  <2> QED BY <2>3, <2>4, <2>6, <2>7
<1>11. CASE AskFails
  <2> USE <1>11 DEF AskFails
  <2>1. TypeOK'
    BY DEF TypeOK, Steps
  <2>2. AnswersTrue'
    BY DEF AnswersTrue, Repository
  <2>3. EnvironmentInStep' /\ BaseInStep'
    BY DEF EnvironmentInStep, BaseInStep
  <2> QED BY <2>1, <2>2, <2>3
<1>12. CASE GiveUp
  <2> USE <1>12 DEF GiveUp
  <2>1. TypeOK'
    BY DEF TypeOK, Steps
  <2>2. AnswersTrue'
    BY DEF AnswersTrue, Repository, Cleared
  <2>3. EnvironmentInStep' /\ BaseInStep'
    BY DEF EnvironmentInStep, BaseInStep
  <2> QED BY <2>1, <2>2, <2>3
<1>13. CASE Finish
  <2> USE <1>13 DEF Finish
  <2>1. TypeOK'
    BY DEF TypeOK, Steps
  <2>2. AnswersTrue'
    BY DEF AnswersTrue, Repository, Cleared
  <2>3. EnvironmentInStep'
    BY DEF EnvironmentInStep
  <2>4. BaseInStep'
    BY DEF BaseInStep, EnvironmentInStep, Settled, Preserved, WorkTree, Cleared,
           SameRepository, Repository
  <2> QED BY <2>1, <2>2, <2>3, <2>4
<1>14. CASE UNCHANGED vars
  BY <1>14 DEF vars, TypeOK, SetVariables, AnswersTrue, EnvironmentInStep, BaseInStep, Settled,
               Preserved, PreservedSoFar, WorkTree, Cleared, SameRepository, Repository
<1>15. CASE Finished
  BY <1>14, <1>15 DEF Finished
<1>16. CASE ReadFails \/ ClearFails \/ ReadDirectoryFails \/ PreserveAlternatesFails
            \/ PreservePathFails
  BY <1>16, FailIInv DEF ReadFails, ClearFails, ReadDirectoryFails,
     PreserveAlternatesFails, PreservePathFails
<1> QED
  BY <1>1, <1>2, <1>3, <1>4, <1>5, <1>6, <1>7, <1>8, <1>9, <1>10, <1>11, <1>12,
     <1>13, <1>14, <1>15, <1>16 DEF Next

\* The preparation keeps its invariant: the answers of git are what they should
\* be, and the environment is always one of the forms named for its step.
THEOREM EnvironmentInvariant == Spec => []IInv
<1>1. Init => IInv
  BY InitIInv
<1>2. IInv /\ [Next]_vars => IInv'
  BY StepIInv
<1> QED BY <1>1, <1>2, PTL DEF Spec


\* In the middle of a run and at its end the settled environment means this.
LEMMA SettledRepository ==
  ASSUME TypeOK, AnswersTrue, Settled
  PROVE  Repository(env, root) = RepositoryOf[root]
BY PreservedRepository, ClearedRepository DEF Settled

\* Git is only ever asked about the repository --root is in.
THEOREM RootRepositoryOnly == Spec => []AsksAboutRoot
<1>1. IInv => AsksAboutRoot
  BY SettledRepository DEF IInv, EnvironmentInStep, AsksAboutRoot
<1> QED BY <1>1, EnvironmentInvariant, PTL

\* An environment between the two settled forms is never used.
THEOREM NeverHalfPrepared == Spec => []NothingHalfPrepared
<1>1. IInv => NothingHalfPrepared
  BY PreservedType DEF IInv, EnvironmentInStep, Settled, NothingHalfPrepared
<1> QED BY <1>1, EnvironmentInvariant, PTL

\* Variables of another repository do not reach the queries at --root.
THEOREM ForeignCleared == Spec => []ForeignVariablesCleared
<1>1. IInv => ForeignVariablesCleared
  BY GivenUsable DEF IInv, EnvironmentInStep, Settled, ForeignVariablesCleared
<1> QED BY <1>1, EnvironmentInvariant, PTL

\* With both answers, the variables of the caller's repository mean the same.
LEMMA SettledMeaning ==
  ASSUME IInv, Settled, pc \in {"asked", "done"}, ~trouble,
         Repository(given, cwd) = RepositoryOf[root], RepositoryOf[root] # "none"
  PROVE  /\ WorkTreeKnown => WorkTree(env, root) = WorkTree(given, cwd)
         /\ \A v \in Variables \ {"GIT_PREFIX"} :
              v \notin OpenedLater \ {Alternates} \/ AtWorkTree =>
                Meaning(env, v, root) = Meaning(given, v, cwd)
<1> USE DEF IInv
<1>1. /\ given["GIT_DIR"] \in GivenValues /\ given["GIT_WORK_TREE"] \in GivenValues
      /\ {cwd, root} \subseteq Directories /\ cwd \notin GivenValues
  BY Names, DirectoriesAssumption DEF TypeOK
<1>2. given["GIT_DIR"] = "unset" => TopOf[cwd] = TopOf[root]
  BY <1>1, TopAssumption DEF Repository
<1>3. CASE env = Cleared /\ given = Cleared
  BY <1>2, <1>3, Names, ClearedRepository DEF Meaning, Cleared
<1>4. CASE env = Cleared /\ given # Cleared /\ ~SameRepository
  BY <1>4 DEF AnswersTrue, SameRepository
<1>5. CASE env = Preserved /\ SameRepository
  <2>1. WorkTreeKnown => WorkTree(env, root) = WorkTree(given, cwd)
    <3>1. /\ env["GIT_WORK_TREE"] = IF given["GIT_WORK_TREE"] = "relative" THEN cwd
                                                            ELSE given["GIT_WORK_TREE"]
          /\ env["GIT_DIR"] = IF given["GIT_DIR"] = "relative" THEN cwd ELSE given["GIT_DIR"]
      BY <1>5, Names DEF Preserved, Alternates
    <3> QED BY <3>1, <1>1, <1>2 DEF WorkTree, WorkTreeKnown, GivenValues
  <2>2. ASSUME NEW v \in Variables \ {"GIT_PREFIX"},
               v \notin OpenedLater \ {Alternates} \/ AtWorkTree
        PROVE  Meaning(env, v, root) = Meaning(given, v, cwd)
    <3>1. env[v] # "relative"
      BY <1>5, PreservedType
    <3>2. env[v] = IF given[v] # "relative" THEN given[v]
                   ELSE IF v = Alternates THEN WorkTree(given, cwd) ELSE cwd
      BY <1>5, <2>2 DEF Preserved
    <3> QED BY <3>1, <3>2, <2>2 DEF Meaning, OpenedLater, AtWorkTree
  <2> QED BY <2>1, <2>2
<1> QED BY <1>3, <1>4, <1>5 DEF Settled

\* What the variables of the caller's own repository mean is kept, where the
\* caller has said which directory is the work tree and stands at its top.
THEOREM MeaningKept == Spec => []CallersMeaningKept
<1>1. IInv => CallersMeaningKept
  BY SettledMeaning DEF IInv, EnvironmentInStep, CallersMeaningKept
<1> QED BY <1>1, EnvironmentInvariant, PTL

\* Counterpart targets are looked for where the documentation has them, where
\* the caller has said which directory is the work tree.
THEOREM TargetsInPlace == Spec => []TargetsPlaced
<1>1. ASSUME IInv PROVE TargetsPlaced
  <2> SUFFICES ASSUME pc = "done", use = "targets", ~trouble, WorkTreeKnown
               PROVE  base = IF RepositoryOf[root] = "none" THEN root
                             ELSE IF Repository(given, cwd) = RepositoryOf[root]
                                  THEN WorkTree(given, cwd) ELSE TopOf[root]
    BY DEF TargetsPlaced
  <2> USE <1>1 DEF IInv
  <2>1. /\ Settled
        /\ base = IF Repository(env, root) # "none" THEN WorkTree(env, root) ELSE root
    BY DEF BaseInStep
  <2>2. Repository(env, root) = RepositoryOf[root]
    BY <2>1, SettledRepository
  <2>3. CASE RepositoryOf[root] = "none"
    BY <2>1, <2>2, <2>3
  <2>4. CASE RepositoryOf[root] # "none" /\ Repository(given, cwd) = RepositoryOf[root]
    BY <2>1, <2>2, <2>4, SettledMeaning
  <2>5. CASE RepositoryOf[root] # "none" /\ Repository(given, cwd) # RepositoryOf[root]
    <3>1. env = Cleared
      BY <2>1, <2>5, GivenUsable DEF Settled
    <3> QED BY <3>1, <2>1, <2>2, <2>5, ClearedRepository
  <2> QED BY <2>3, <2>4, <2>5
<1> QED BY <1>1, EnvironmentInvariant, PTL

================================================================================
