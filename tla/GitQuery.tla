------------------------------- MODULE GitQuery -------------------------------
(***************************************************************************)
(* What a caller of read_git (src/src/changes.c) or capture_git            *)
(* (src/src/config.c) is promised: one question to git, answered once.     *)
(* Either the answer is "ok" and carries every unit git had to say, or it  *)
(* is "failed"; and git is no longer running when the answer is there.     *)
(* GitPipe is the detailed protocol that implements this module.           *)
(***************************************************************************)
EXTENDS Naturals

CONSTANT Outputs          \* how many units git can have to say

VARIABLES output,         \* the units git has to say to this query
          running,        \* a git process exists
          answer,         \* the units handed to the caller
          result          \* "none" until the query is answered

queryVars == <<output, running, answer, result>>

Init ==
  /\ output \in Outputs
  /\ running = FALSE
  /\ answer = 0
  /\ result = "none"

Start ==
  /\ result = "none" /\ ~running
  /\ running' = TRUE
  /\ UNCHANGED <<output, answer, result>>

Stop ==
  /\ running
  /\ running' = FALSE
  /\ UNCHANGED <<output, answer, result>>

Answer ==
  /\ result = "none" /\ ~running
  /\ \/ result' = "ok" /\ answer' = output
     \/ result' = "failed" /\ answer' = 0
  /\ UNCHANGED <<output, running>>

Next == Start \/ Stop \/ Answer

Spec == Init /\ [][Next]_queryVars

===============================================================================
