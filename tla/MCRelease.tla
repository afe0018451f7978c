------------------------------- MODULE MCRelease -------------------------------
(* Three runs of two releases: symmetric in the runs, which the properties     *)
(* only quantify over.                                                         *)
EXTENDS Release, TLC

MCRuns == Permutations(Runs)

================================================================================
