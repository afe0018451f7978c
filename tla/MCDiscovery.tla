------------------------------ MODULE MCDiscovery ------------------------------
(***************************************************************************)
(* Discovery over three directories and three names, with up to two        *)
(* configurations in the working tree and at most one in the index.        *)
(***************************************************************************)
EXTENDS Discovery, FiniteSetsExt

UpTo(n) == UNION {kSubset(k, Places) : k \in 0..n}

MCWorkTrees == UpTo(2)
MCIndexes == UpTo(1)
MCDangling == {<<2, 2>>}

\* None, one, and a repository inside another.
MCGitRoots == {{}, {1}, {2}, {0, 1}}

================================================================================
