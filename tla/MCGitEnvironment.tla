--------------------------- MODULE MCGitEnvironment ---------------------------
(***************************************************************************)
(* GitEnvironment with the top of a work tree and a directory inside it,   *)
(* another repository, and a directory outside of both.                    *)
(***************************************************************************)
EXTENDS GitEnvironment

MCDirectories == {"top", "inside", "other", "outside"}
MCRepositoryOf == [top |-> "R", inside |-> "R", other |-> "S", outside |-> "none"]
MCTopOf == [top |-> "top", inside |-> "top", other |-> "other", outside |-> "outside"]

\* The variables git hooks export, and the last one of the list.
Exported == {"GIT_DIR", "GIT_WORK_TREE", "GIT_INDEX_FILE", "GIT_CONFIG",
             "GIT_PREFIX", Alternates}
ExportedValues(v) ==
  CASE v = "GIT_PREFIX" -> {"unset", "absolute"}
    [] v = "GIT_CONFIG" -> {"unset", "relative"}
    [] v \in {"GIT_DIR", "GIT_WORK_TREE"} -> GivenValues
    [] OTHER -> {"unset", "relative", "absolute"}

MCEnvironments ==
  {[v \in Variables |-> IF v \in Exported THEN e[v] ELSE "unset"] :
     e \in {f \in [Exported -> GivenValues] :
             /\ \A v \in Exported : f[v] \in ExportedValues(v)
             /\ Cardinality({v \in Exported : f[v] # "unset"}) <= 3}}

================================================================================
