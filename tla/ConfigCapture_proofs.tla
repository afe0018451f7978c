-------------------------- MODULE ConfigCapture_proofs --------------------------
(***************************************************************************)
(* Safety of the two-process protocol of GitPipe for every pipe capacity,  *)
(* every size of output and both copies of the protocol, and its           *)
(* refinement of GitQuery; then the reader of the staged configuration,    *)
(* which uses the pipe as GitPipe describes it, and its growing buffer.    *)
(***************************************************************************)
EXTENDS ConfigCapture, WellFoundedInduction, TLAPS

--------------------------------------------------------------------------------
(* The inductive invariant *)

\* The ends of the pipe follow the control state of their process, nothing is
\* lost or made up in the pipe, and an accepted output is a finished one: what
\* makes the invariants of GitPipe inductive.
EndsFollowControl ==
  /\ "parent" \in writers <=> parent \in {"fork", "forked"}
  /\ "parent" \in readers <=> parent \in {"fork", "forked", "read"}
  /\ "child" \in writers <=> child \in Running
  /\ parent \in {"create", "fork"} => child = "none"
  /\ child = "none" => parent \in {"create", "fork", "done"}
  /\ result = "none" <=> parent # "done"

UnitsAccounted ==
  /\ received + pipe <= written
  /\ parent \in {"create", "fork", "forked", "read"} => received + pipe = written
  /\ child \in {"none", "setup"} => written = 0
  /\ child = "succeeded" => written = output

AcceptedIsFinished ==
  parsed => /\ parent \in {"wait", "done"}
            /\ child \in Ended
            /\ received = written

IInv ==
  /\ TypeOK
  /\ EndsFollowControl
  /\ UnitsAccounted
  /\ AcceptedIsFinished
  /\ OkMeansWholeOutput
  /\ NoChildOutlivesAnswer

\* For the invariants of the reader: what has been read so far is in the buffer,
\* every capacity is a doubling of the first one, an error ends the reading, and
\* the end of the output is only accepted with a buffer and without an error.
CaptureSoFar ==
  /\ capacity = 0 \/ capacity \in Doublings(FirstCapacity)
  /\ error \in {"none", "exceeds", "other"}
  /\ error # "none" => parent \in {"wait", "done"} /\ ~parsed
  /\ parsed => capacity # 0

--------------------------------------------------------------------------------
(* Doubling *)

\* A set of natural numbers that contains 0 and each successor contains them all.
LEMMA NatSetInduction ==
  ASSUME NEW S, 0 \in S, \A n \in Nat : n \in S => n + 1 \in S
  PROVE  Nat \subseteq S
<1> DEFINE rest == Nat \ S
           below == OpToRel(<, Nat)
<1>1. IsWellFoundedOn(below, Nat)
  BY NatLessThanWellFounded
<1>2. \A x, y \in Nat : y < x => <<y, x>> \in below
  BY DEF OpToRel
<1>3. SUFFICES ASSUME rest # {} PROVE FALSE
  OBVIOUS
<1> HIDE DEF below
<1>4. PICK x \in rest : \A y \in rest : ~(<<y, x>> \in below)
  <2>1. rest \subseteq Nat
    OBVIOUS
  <2> HIDE DEF rest
  <2> QED  BY <1>1, <1>3, <2>1, WFMin
<1>5. x # 0 /\ x - 1 \in Nat /\ x - 1 < x
  OBVIOUS
<1>6. x - 1 \in S
  BY <1>2, <1>4, <1>5
<1>7. (x - 1) + 1 \in S
  BY <1>5, <1>6
<1> QED  BY <1>4, <1>5, <1>7

\* The recursion of DoubledFrom has a solution.
LEMMA DoubledFromIs ==
  ASSUME NEW c \in Nat
  PROVE  /\ DoubledFrom(c) \in [0..Limit -> Nat]
         /\ DoubledFrom(c)[0] = c
         /\ \A k \in 1..Limit : DoubledFrom(c)[k] = 2 * DoubledFrom(c)[k - 1]
<1> DEFINE Solves(d, m) == d = [k \in 0..m |-> IF k = 0 THEN c ELSE 2 * d[k - 1]]
           solved == {m \in Nat : \E d \in [0..m -> Nat] : Solves(d, m)}
<1>1. 0 \in solved
  <2> DEFINE d == [k \in 0..0 |-> c]
  <2>1. d \in [0..0 -> Nat] /\ Solves(d, 0)
    OBVIOUS
  <2> QED  BY <2>1
<1>2. ASSUME NEW m \in Nat, m \in solved PROVE m + 1 \in solved
  <2>1. PICK d \in [0..m -> Nat] : Solves(d, m)
    BY <1>2
  <2> DEFINE e == [k \in 0..(m + 1) |-> IF k = 0 THEN c ELSE 2 * d[k - 1]]
  <2>2. e \in [0..(m + 1) -> Nat]
    OBVIOUS
  <2>3. \A k \in 0..m : d[k] = IF k = 0 THEN c ELSE 2 * d[k - 1]
    BY <2>1
  <2>4. \A k \in 0..(m + 1) : e[k] = IF k = 0 THEN c ELSE 2 * d[k - 1]
    OBVIOUS
  <2>5. DOMAIN e = 0..(m + 1) /\ e = [k \in 0..(m + 1) |-> e[k]]
    OBVIOUS
  <2> HIDE DEF e
  <2>6. \A k \in 0..m : e[k] = d[k]
    BY <2>3, <2>4
  <2>7. ASSUME NEW k \in 0..(m + 1) PROVE e[k] = IF k = 0 THEN c ELSE 2 * e[k - 1]
    <3>1. CASE k = 0
      BY <2>4, <3>1
    <3>2. CASE k # 0
      <4>1. k - 1 \in 0..m
        BY <3>2
      <4> QED  BY <2>4, <2>6, <3>2, <4>1
    <3> QED  BY <3>1, <3>2
  <2>8. Solves(e, m + 1)
    BY <2>5, <2>7
  <2> HIDE DEF Solves
  <2> QED  BY <2>2, <2>8
<1>3. Limit \in solved
  <2> HIDE DEF solved
  <2>1. Nat \subseteq solved
    BY <1>1, <1>2, NatSetInduction
  <2> QED  BY <2>1, LimitAssumption
<1> DEFINE it == DoubledFrom(c)
<1>4. Solves(it, Limit)
  BY <1>3 DEF DoubledFrom
<1> HIDE DEF it
<1>5. DOMAIN it = 0..Limit /\ it = [k \in 0..Limit |-> it[k]]
  BY <1>4
<1>6. \A k \in 0..Limit : it[k] = IF k = 0 THEN c ELSE 2 * it[k - 1]
  BY <1>4
<1>7. it[0] = c /\ \A k \in 1..Limit : it[k] = 2 * it[k - 1]
  BY <1>6, LimitAssumption
<1>8. \A k \in 0..Limit : it[k] \in Nat
  <2> DEFINE typed == {k \in Nat : k <= Limit => it[k] \in Nat}
  <2>1. 0 \in typed
    BY <1>7
  <2>2. ASSUME NEW k \in Nat, k \in typed PROVE k + 1 \in typed
    <3>1. CASE k + 1 <= Limit
      <4>1. k + 1 \in 1..Limit /\ k <= Limit /\ (k + 1) - 1 = k
        BY <3>1, LimitAssumption
      <4>2. it[k] \in Nat /\ it[k + 1] = 2 * it[k]
        BY <1>7, <2>2, <4>1
      <4> QED  BY <4>2
    <3>2. CASE ~(k + 1 <= Limit)
      BY <3>2
    <3> QED  BY <3>1, <3>2
  <2>3. Nat \subseteq typed
    <3> HIDE DEF typed
    <3> QED  BY <2>1, <2>2, NatSetInduction
  <2> QED  BY <2>3, LimitAssumption
<1> QED  BY <1>5, <1>7, <1>8 DEF it

\* A doubled capacity is at least twice every one before it, so the loop passes
\* the limit within Limit turns.
LEMMA DoublingsGrow ==
  ASSUME NEW c \in Nat \ {0}
  PROVE  \A k \in 0..Limit : /\ DoubledFrom(c)[k] > k
                             /\ DoubledFrom(c)[k] >= c
                             /\ \A i \in 0..(k - 1) : 2 * DoubledFrom(c)[i] <= DoubledFrom(c)[k]
<1> DEFINE it == DoubledFrom(c)
           Grows(k) == it[k] > k /\ it[k] >= c /\ \A i \in 0..(k - 1) : 2 * it[i] <= it[k]
           grown == {k \in Nat : k <= Limit => Grows(k)}
<1>1. /\ \A k \in 0..Limit : it[k] \in Nat
      /\ it[0] = c /\ \A k \in 1..Limit : it[k] = 2 * it[k - 1]
  BY DoubledFromIs
<1> HIDE DEF it
<1>2. 0 \in grown
  BY <1>1
<1>3. ASSUME NEW k \in Nat, k \in grown PROVE k + 1 \in grown
  <2>1. CASE k + 1 <= Limit
    <3>1. k + 1 \in 1..Limit /\ k \in 0..Limit /\ (k + 1) - 1 = k
      BY <2>1, LimitAssumption
    <3>2. /\ it[k + 1] = 2 * it[k] /\ it[k] \in Nat
          /\ it[k] > k /\ it[k] >= c /\ \A i \in 0..(k - 1) : 2 * it[i] <= it[k]
      BY <1>1, <1>3, <3>1
    <3>3. \A i \in 0..k : i \in 0..(k - 1) \/ i = k
      OBVIOUS
    <3>4. \A i \in 0..k : it[i] \in Nat
      <4>1. 0..k \subseteq 0..Limit
        BY <3>1, LimitAssumption
      <4> QED  BY <1>1, <4>1
    <3>5. \A i \in 0..k : 2 * it[i] <= it[k + 1]
      BY <3>2, <3>3, <3>4
    <3> QED  BY <3>1, <3>2, <3>5
  <2>2. CASE ~(k + 1 <= Limit)
    BY <2>2
  <2> QED  BY <2>1, <2>2
<1>4. Nat \subseteq grown
  <2> HIDE DEF grown
  <2> QED  BY <1>2, <1>3, NatSetInduction
<1>5. \A k \in 0..Limit : Grows(k)
  BY <1>4, LimitAssumption
<1> QED  BY <1>5 DEF it

\* Two capacities on the way of the loop are at least a factor of 2 apart.
LEMMA DoublingsApart ==
  ASSUME NEW c \in Nat \ {0}, NEW x \in Doublings(c), NEW y \in Doublings(c), x < y
  PROVE  x \in Nat /\ y \in Nat /\ 2 * x <= y
<1> DEFINE it == DoubledFrom(c)
<1>1. \A k \in 0..Limit : it[k] \in Nat
  BY DoubledFromIs
<1>2. \A k \in 0..Limit : \A i \in 0..(k - 1) : 2 * it[i] <= it[k]
  BY DoublingsGrow
<1>3. PICK i, k \in 0..Limit : x = it[i] /\ y = it[k]
  BY DEF Doublings
<1> HIDE DEF it
<1>4. x \in Nat /\ y \in Nat
  BY <1>1, <1>3
<1>5. i < k
  <2>1. SUFFICES ASSUME k < i \/ k = i PROVE FALSE
    BY <1>3, LimitAssumption
  <2>2. CASE k = i
    BY <1>3, <1>4, <2>2
  <2>3. CASE k < i
    <3>1. k \in 0..(i - 1)
      BY <2>3, LimitAssumption
    <3>2. 2 * y <= x
      BY <1>2, <1>3, <3>1
    <3> QED  BY <1>4, <3>2
  <2> QED  BY <2>1, <2>2, <2>3
<1>6. i \in 0..(k - 1)
  BY <1>5, LimitAssumption
<1> QED  BY <1>2, <1>3, <1>4, <1>6

\* Going on from a capacity that the loop has reached leads to no other ones.
LEMMA DoublingsCompose ==
  ASSUME NEW b \in Nat \ {0}, NEW c \in Doublings(b), NEW x \in Doublings(c), x <= Limit
  PROVE  x \in Doublings(b)
<1> DEFINE base == DoubledFrom(b)
           it == DoubledFrom(c)
           reached == {k \in Nat : k <= Limit => (it[k] <= Limit => it[k] \in Doublings(b))}
<1>1. /\ \A k \in 0..Limit : base[k] \in Nat /\ base[k] > k
      /\ \A k \in 1..Limit : base[k] = 2 * base[k - 1]
  BY DoubledFromIs, DoublingsGrow
<1>2. c \in Nat
  BY <1>1 DEF Doublings
<1>3. /\ \A k \in 0..Limit : it[k] \in Nat
      /\ it[0] = c /\ \A k \in 1..Limit : it[k] = 2 * it[k - 1]
  BY <1>2, DoubledFromIs
<1>4. Doublings(b) = {base[k] : k \in 0..Limit} /\ Doublings(c) = {it[k] : k \in 0..Limit}
  BY DEF Doublings
<1> HIDE DEF base, it
<1>5. 0 \in reached
  BY <1>3
<1>6. ASSUME NEW k \in Nat, k \in reached PROVE k + 1 \in reached
  <2>1. SUFFICES ASSUME k + 1 <= Limit, it[k + 1] <= Limit PROVE it[k + 1] \in Doublings(b)
    OBVIOUS
  <2>2. k + 1 \in 1..Limit /\ k \in 0..Limit /\ (k + 1) - 1 = k
    BY <2>1, LimitAssumption
  <2>3. it[k + 1] = 2 * it[k] /\ it[k] \in Nat /\ it[k] <= Limit
    <3>1. it[k + 1] = 2 * it[k] /\ it[k] \in Nat
      BY <1>3, <2>2
    <3> QED  BY <2>1, <3>1, LimitAssumption
  <2>4. PICK m \in 0..Limit : it[k] = base[m]
    BY <1>4, <1>6, <2>2, <2>3
  <2>5. m < base[m] /\ base[m] \in Nat /\ 2 * base[m] <= Limit
    BY <1>1, <2>1, <2>3, <2>4
  <2>6. m + 1 \in 1..Limit /\ (m + 1) - 1 = m
    BY <2>5, LimitAssumption
  <2>7. it[k + 1] = base[m + 1]
    BY <1>1, <2>3, <2>4, <2>6
  <2> QED  BY <1>4, <2>6, <2>7
<1>7. Nat \subseteq reached
  <2> HIDE DEF reached
  <2> QED  BY <1>5, <1>6, NatSetInduction
<1> QED  BY <1>4, <1>7, LimitAssumption

LEMMA LeastIs ==
  ASSUME NEW S \in SUBSET Nat, S # {}
  PROVE  Min(S) \in S /\ \A y \in S : Min(S) <= y
<1>1. IsWellFoundedOn(OpToRel(<, Nat), Nat)
  BY NatLessThanWellFounded
<1> DEFINE below == OpToRel(<, Nat)
<1>2. \A x, y \in Nat : y < x => <<y, x>> \in below
  BY DEF OpToRel
<1> HIDE DEF below
<1>3. PICK x \in S : \A y \in S : ~(<<y, x>> \in below)
  BY <1>1, WFMin DEF below
<1>4. ASSUME NEW y \in S PROVE x <= y
  <2>1. x \in Nat /\ y \in Nat /\ ~(y < x)
    BY <1>2, <1>3
  <2> QED  BY <2>1
<1> QED  BY <1>3, <1>4 DEF Min

--------------------------------------------------------------------------------
(* The pipe protocol *)

USE CapacityAssumption, MaxOutputAssumption, ChildClosesReadEndAssumption
USE DEF Processes, ParentStates, Running, Ended

LEMMA InitIInv == Init => IInv
<1> SUFFICES ASSUME Init PROVE IInv
  OBVIOUS
<1>1. TypeOK
  <2>1. output \in Nat /\ written = 0 /\ pipe = 0 /\ received = 0  BY DEF Init
  <2>2. written \in 0..output /\ pipe \in 0..Capacity /\ received \in 0..written
    BY <2>1
  <2> QED  BY <2>2 DEF Init, TypeOK
<1>2. EndsFollowControl  BY DEF Init, EndsFollowControl
<1>3. UnitsAccounted  BY DEF Init, UnitsAccounted
<1>4. AcceptedIsFinished /\ OkMeansWholeOutput /\ NoChildOutlivesAnswer
  BY DEF Init, AcceptedIsFinished, OkMeansWholeOutput, NoChildOutlivesAnswer
<1> QED  BY <1>1, <1>2, <1>3, <1>4 DEF IInv

\* Every step of either process keeps the strengthened invariant.
LEMMA NextIInv == IInv /\ [Next]_vars => IInv'
<1> SUFFICES ASSUME IInv, [Next]_vars PROVE IInv'
  OBVIOUS
<1> USE DEF IInv, TypeOK, EndsFollowControl, UnitsAccounted,
            AcceptedIsFinished, OkMeansWholeOutput, NoChildOutlivesAnswer
<1>1. CASE CreatePipe  BY <1>1 DEF CreatePipe
<1>2. CASE CreateFails  BY <1>2 DEF CreateFails
<1>3. CASE Fork  BY <1>3 DEF Fork
<1>4. CASE ForkFails  BY <1>4 DEF ForkFails
<1>5. CASE CloseWriteEnd  BY <1>5 DEF CloseWriteEnd
<1>6. ASSUME NEW n \in 1..pipe, Accept(n) PROVE IInv'
  BY <1>6 DEF Accept
<1>7. ASSUME NEW n \in 1..pipe, Reject(n) PROVE IInv'
  BY <1>7 DEF Reject, StopReading
<1>8. CASE ReadFails  BY <1>8 DEF ReadFails, StopReading
<1>9. ASSUME NEW accepted \in BOOLEAN, ReadEnd(accepted) PROVE IInv'
  BY <1>9 DEF ReadEnd, StopReading
<1>10. ASSUME NEW waited \in BOOLEAN, Reap(waited) PROVE IInv'
  BY <1>10 DEF Reap
<1>11. CASE Exec  BY <1>11 DEF Exec
<1>12. CASE SetupFails  BY <1>12 DEF SetupFails, EndChild
<1>13. CASE Write  BY <1>13 DEF Write
<1>14. CASE BrokenPipe  BY <1>14 DEF BrokenPipe, EndChild
<1>15. CASE Exit  BY <1>15 DEF Exit, EndChild
<1>16. CASE Fail  BY <1>16 DEF Fail, EndChild
<1>17. CASE UNCHANGED vars  BY <1>17 DEF vars
<1> QED
  BY <1>1, <1>2, <1>3, <1>4, <1>5, <1>6, <1>7, <1>8, <1>9, <1>10, <1>11,
     <1>12, <1>13, <1>14, <1>15, <1>16, <1>17
  DEF Next, ParentStep, ParentProgress, SetUp, ReadStep, ChildStep, ChildProgress, Finished

\* The strengthened invariant holds in every reachable state.
THEOREM GitPipeInvariant == Spec => []IInv
BY InitIInv, NextIInv, PTL DEF Spec

\* An answer that may be used is git's whole output, for every size of it.
THEOREM WholeOutput == Spec => []OkMeansWholeOutput
<1>1. IInv => OkMeansWholeOutput  BY DEF IInv
<1> QED  BY <1>1, GitPipeInvariant, PTL

\* Neither copy of the protocol returns while its git is still running.
THEOREM ChildReaped == Spec => []NoChildOutlivesAnswer
<1>1. IInv => NoChildOutlivesAnswer  BY DEF IInv
<1> QED  BY <1>1, GitPipeInvariant, PTL

\* Neither copy of the protocol leaks an end of its pipe.
THEOREM DescriptorsClosed == Spec => []NoDescriptorLeak
<1>1. IInv => NoDescriptorLeak
  BY DEF IInv, TypeOK, EndsFollowControl, NoDescriptorLeak
<1> QED  BY <1>1, GitPipeInvariant, PTL

--------------------------------------------------------------------------------
(* Refinement *)

\* The protocol starts as an unanswered query.
LEMMA InitQuery == Init => Query!Init
BY DEF Init, Query!Init, answer

\* Fork starts the query, the end of the child stops it, the last step of
\* fs-lint answers it, and every other step is invisible to the caller.
LEMMA NextQuery == IInv /\ [Next]_vars => [Query!Next]_(Query!queryVars)
<1> SUFFICES ASSUME IInv, [Next]_vars
             PROVE  Query!Next \/ UNCHANGED Query!queryVars
  OBVIOUS
<1> USE DEF answer, Query!queryVars
<1>1. CASE CreatePipe  BY <1>1 DEF CreatePipe
<1>2. CASE CreateFails \/ ForkFails
  <2>1. Query!Answer
    BY <1>2 DEF CreateFails, ForkFails, Query!Answer, IInv, EndsFollowControl
  <2> QED  BY <2>1 DEF Query!Next
<1>3. CASE Fork
  <2>1. Query!Start
    BY <1>3 DEF Fork, Query!Start, IInv, EndsFollowControl
  <2> QED  BY <2>1 DEF Query!Next
<1>4. CASE CloseWriteEnd  BY <1>4 DEF CloseWriteEnd
<1>5. ASSUME NEW n \in 1..pipe, Accept(n) \/ Reject(n)
      PROVE  UNCHANGED Query!queryVars
  BY <1>5 DEF Accept, Reject, StopReading, IInv, EndsFollowControl
<1>6. CASE ReadFails  BY <1>6 DEF ReadFails, StopReading
<1>7. ASSUME NEW accepted \in BOOLEAN, ReadEnd(accepted)
      PROVE  UNCHANGED Query!queryVars
  BY <1>7 DEF ReadEnd, StopReading
<1>8. ASSUME NEW waited \in BOOLEAN, Reap(waited) PROVE Query!Answer
  <2>1. result = "none" /\ child \notin Running
    BY <1>8 DEF Reap, IInv, EndsFollowControl
  <2>2. parsed /\ child = "succeeded" => received = output
    BY DEF IInv, AcceptedIsFinished, UnitsAccounted
  <2> QED  BY <1>8, <2>1, <2>2 DEF Reap, Query!Answer
<1>9. CASE Exec  BY <1>9 DEF Exec
<1>10. CASE SetupFails \/ BrokenPipe \/ Exit \/ Fail
  <2>1. Query!Stop
    BY <1>10 DEF SetupFails, BrokenPipe, Exit, Fail, EndChild, Query!Stop
  <2> QED  BY <2>1 DEF Query!Next
<1>11. CASE Write  BY <1>11 DEF Write
<1>12. CASE UNCHANGED vars  BY <1>12 DEF vars
<1> QED
  BY <1>1, <1>2, <1>3, <1>4, <1>5, <1>6, <1>7, <1>8, <1>9, <1>10, <1>11, <1>12
  DEF Next, ParentStep, ParentProgress, SetUp, ReadStep, ChildStep, ChildProgress, Finished, Query!Next

\* Both copies of the protocol implement the one-shot query, for every pipe
\* capacity and every size of output.
THEOREM Refinement == Spec => ImplementsGitQuery
<1>1. Spec => []IInv  BY GitPipeInvariant
<1> QED
  BY <1>1, InitQuery, NextQuery, PTL DEF Spec, ImplementsGitQuery, Query!Spec

--------------------------------------------------------------------------------
(* How a query ends, but for the scheduling *)

ParentLeft ==
  IF parent = "create" THEN 5 ELSE IF parent = "fork" THEN 4
  ELSE IF parent = "forked" THEN 3 ELSE IF parent = "read" THEN 2
  ELSE IF parent = "wait" THEN 1 ELSE 0

ChildLeft ==
  IF child = "none" THEN 3 ELSE IF child = "setup" THEN 2
  ELSE IF child = "git" THEN 1 ELSE 0

\* A measure of what is left of a query: each unit is written and then read.
StepsLeft == ParentLeft + ChildLeft + 2 * (output - written) + pipe

\* The guards of ParentProgress and of ChildProgress.
ParentCanStep ==
  \/ parent \in {"create", "fork", "forked"}
  \/ parent = "read" /\ (pipe > 0 \/ writers = {})
  \/ parent = "wait" /\ child \in Ended

ChildCanStep ==
  \/ child = "setup"
  \/ child = "git" /\ (written = output \/ readers = {} \/ pipe < Capacity)

\* The one way in which both processes stop for good: fs-lint has stopped reading
\* and waits for git, which waits for room in a pipe that only git could read.
Blocked ==
  /\ parent = "wait" /\ child = "git" /\ readers = {"child"}
  /\ pipe = Capacity /\ written < output
  /\ ~ChildClosesReadEnd

NotStuck == parent = "done" \/ ParentCanStep \/ ChildCanStep \/ Blocked

\* What closing the read end in the child is for.
ReadEndGone == ChildClosesReadEnd /\ child = "git" => "child" \notin readers

LEMMA StepsLeftFall ==
  ASSUME IInv, [Next]_vars
  PROVE  StepsLeft' < StepsLeft \/ UNCHANGED vars
<1> USE DEF IInv, TypeOK, EndsFollowControl, UnitsAccounted, StepsLeft, ParentLeft, ChildLeft
<1>1. CASE SetUp
  BY <1>1 DEF SetUp, CreatePipe, CreateFails, Fork, ForkFails, CloseWriteEnd
<1>2. ASSUME NEW n \in 1..pipe, Accept(n) \/ Reject(n) PROVE StepsLeft' < StepsLeft
  BY <1>2 DEF Accept, Reject, StopReading
<1>3. CASE ReadFails \/ \E accepted \in BOOLEAN : ReadEnd(accepted)
  BY <1>3 DEF ReadFails, ReadEnd, StopReading
<1>4. CASE \E waited \in BOOLEAN : Reap(waited)
  BY <1>4 DEF Reap
<1>5. CASE Exec \/ Write
  BY <1>5 DEF Exec, Write
<1>6. CASE SetupFails \/ BrokenPipe \/ Exit \/ Fail
  BY <1>6 DEF SetupFails, BrokenPipe, Exit, Fail, EndChild
<1>7. CASE Finished \/ UNCHANGED vars
  BY <1>7 DEF Finished
<1> QED
  BY <1>1, <1>2, <1>3, <1>4, <1>5, <1>6, <1>7
  DEF Next, ParentStep, ParentProgress, ReadStep, ChildStep, ChildProgress

LEMMA StepsLeftBounded ==
  /\ IInv => StepsLeft \in Nat
  /\ Init => StepsLeft <= 8 + 2 * MaxOutput
<1>1. IInv => StepsLeft \in Nat
  BY DEF IInv, TypeOK, StepsLeft, ParentLeft, ChildLeft
<1>2. Init => StepsLeft <= 8 + 2 * MaxOutput
  BY DEF Init, StepsLeft, ParentLeft, ChildLeft
<1> QED  BY <1>1, <1>2

\* No query goes round in circles, in either copy of the protocol: every step of
\* fs-lint and of git lowers a measure that starts at no more than 8 and twice
\* the size of the output.
THEOREM QueryShortens ==
  Spec => /\ StepsLeft <= 8 + 2 * MaxOutput
          /\ [](StepsLeft \in Nat)
          /\ [][StepsLeft' < StepsLeft]_vars
<1>1. Init => StepsLeft <= 8 + 2 * MaxOutput
  BY StepsLeftBounded
<1>2. IInv => StepsLeft \in Nat
  BY StepsLeftBounded
<1>3. IInv /\ [Next]_vars => [StepsLeft' < StepsLeft]_vars
  BY StepsLeftFall
<1> QED  BY <1>1, <1>2, <1>3, GitPipeInvariant, PTL DEF Spec

LEMMA ReadEndStep == IInv /\ ReadEndGone /\ [Next]_vars => ReadEndGone'
<1> SUFFICES ASSUME IInv, ReadEndGone, [Next]_vars PROVE ReadEndGone'
  OBVIOUS
<1> USE DEF ReadEndGone, IInv, TypeOK, EndsFollowControl
<1>1. CASE SetUp
  BY <1>1 DEF SetUp, CreatePipe, CreateFails, Fork, ForkFails, CloseWriteEnd
<1>2. CASE ReadStep \/ ReadFails \/ \E waited \in BOOLEAN : Reap(waited)
  BY <1>2 DEF ReadStep, Accept, Reject, ReadEnd, ReadFails, StopReading, Reap
<1>3. CASE ChildStep
  BY <1>3 DEF ChildStep, ChildProgress, Exec, SetupFails, Write, BrokenPipe, Exit, Fail, EndChild
<1>4. CASE Finished \/ UNCHANGED vars
  BY <1>4 DEF Finished, vars
<1> QED
  BY <1>1, <1>2, <1>3, <1>4 DEF Next, ParentStep, ParentProgress

\* Until a query is answered one of the two processes can go on, without any
\* failure: in changes.c always, and in config.c except where git waits for room
\* in a full pipe that nobody but git could read.
THEOREM QueryNotStuck == Spec => []NotStuck
<1>1. Init => ReadEndGone
  BY DEF Init, ReadEndGone
<1>2. IInv /\ ReadEndGone => NotStuck
  <2> SUFFICES ASSUME IInv, ReadEndGone, parent # "done", ~ParentCanStep, ~ChildCanStep
               PROVE  Blocked
    BY DEF NotStuck
  <2>1. child = "git" /\ written # output /\ readers # {} /\ ~(pipe < Capacity)
    BY DEF ChildCanStep, ParentCanStep, IInv, TypeOK, EndsFollowControl
  <2>2. written < output /\ pipe = Capacity
    BY <2>1 DEF IInv, TypeOK
  <2>3. parent = "wait"
    BY <2>2 DEF ParentCanStep, IInv, TypeOK
  <2>4. readers = {"child"}
    BY <2>1, <2>3 DEF IInv, TypeOK, EndsFollowControl
  <2> QED  BY <2>1, <2>2, <2>3, <2>4 DEF Blocked, ReadEndGone
<1> QED  BY <1>1, <1>2, ReadEndStep, GitPipeInvariant, PTL DEF Spec

--------------------------------------------------------------------------------
(* The reader of the staged configuration is one of its users *)

LEMMA CaptureStep == [NextCapture]_allVars => [Next]_vars
<1> SUFFICES ASSUME NextCapture \/ UNCHANGED allVars PROVE Next \/ UNCHANGED vars
  OBVIOUS
<1>1. ASSUME NEW n \in Chunks, AppendChunk(n) PROVE Next
  BY <1>1 DEF AppendChunk, Chunks, Next, ParentStep, ParentProgress, ReadStep
<1>2. ASSUME NEW n \in Chunks, RefuseChunk(n) \/ AllocationFails(n) PROVE Next
  BY <1>2 DEF RefuseChunk, AllocationFails, Chunks, Next, ParentStep, ParentProgress,
              ReadStep
<1>3. CASE EndOfOutput \/ EmptyAllocationFails
  BY <1>3 DEF EndOfOutput, EmptyAllocationFails, Next, ParentStep, ParentProgress,
              ReadStep
<1>4. CASE ReadingFails
  BY <1>4 DEF ReadingFails, Next, ParentStep
<1>5. CASE SetUp \/ \E waited \in BOOLEAN : Reap(waited)
  BY <1>5 DEF Next, ParentStep, ParentProgress
<1>6. CASE ChildProgress \/ Fail \/ Finished
  BY <1>6 DEF Next, ChildStep
<1>7. CASE UNCHANGED allVars
  BY <1>7 DEF allVars
<1> QED
  BY <1>1, <1>2, <1>3, <1>4, <1>5, <1>6, <1>7
  DEF NextCapture, LintProgress, Capture, GitProgress

\* capture_git runs the protocol of launch_git and finish_git (config.c:190-208).
THEOREM CaptureUsesGitPipe == SpecCapture => Spec
<1>1. InitCapture => Init
  BY DEF InitCapture
<1> QED  BY <1>1, CaptureStep, PTL DEF SpecCapture, Spec

\* A configuration that is used is all that a successful git show printed, for
\* every limit, buffer size and pipe capacity.
THEOREM CapturedOutputIsWhole == SpecCapture => []OkMeansWholeOutput
BY CaptureUsesGitPipe, WholeOutput, PTL

--------------------------------------------------------------------------------
(* What is read is in the buffer *)

IInvCapture ==
  /\ IInv
  /\ BufferHoldsText
  /\ CaptureSoFar
  /\ RefusalMeansLarge

LEMMA FirstIsDoubling ==
  /\ FirstCapacity \in Doublings(FirstCapacity)
  /\ Doublings(FirstCapacity) \subseteq Nat \ {0}
  /\ FirstCapacity <= Limit
<1>1. \A k \in 0..Limit : /\ DoubledFrom(FirstCapacity)[k] \in Nat
                          /\ DoubledFrom(FirstCapacity)[k] >= FirstCapacity
  BY FirstCapacityAssumption, DoubledFromIs, DoublingsGrow
<1>2. \A x \in Doublings(FirstCapacity) : x \in Nat /\ x >= FirstCapacity
  BY <1>1 DEF Doublings
<1>3. DoubledFrom(FirstCapacity)[0] = FirstCapacity /\ 0 \in 0..Limit
  BY FirstCapacityAssumption, LimitAssumption, DoubledFromIs
<1> QED  BY <1>2, <1>3, FirstCapacityAssumption, LimitAssumption DEF Doublings

LEMMA StartHolds ==
  ASSUME IInvCapture
  PROVE  /\ Start \in Doublings(FirstCapacity) /\ Start \in Nat \ {0}
         /\ received < Start /\ Start <= Limit
         /\ capacity \in Nat /\ received \in Nat
<1>1. capacity \in Nat /\ received \in Nat /\ output \in Nat
  BY FirstIsDoubling DEF IInvCapture, IInv, TypeOK, CaptureSoFar
<1>2. CASE capacity = 0
  BY <1>1, <1>2, FirstIsDoubling, FirstCapacityAssumption
     DEF Start, IInvCapture, BufferHoldsText
<1>3. CASE capacity # 0
  BY <1>1, <1>3 DEF Start, IInvCapture, BufferHoldsText, CaptureSoFar
<1> QED  BY <1>1, <1>2, <1>3

\* A text under the limit always gets its buffer: the loop of grow_output reaches a
\* large enough capacity before its own check of the limit can refuse.
LEMMA GrownIs ==
  ASSUME IInvCapture, NEW n \in Nat, Fits(n)
  PROVE  /\ Grown(n) \in Doublings(FirstCapacity)
         /\ Grown(n) >= Needed(n) /\ Grown(n) <= Limit
         /\ ~CannotGrow(n)
<1> DEFINE it == DoubledFrom(Start)
           large == {c \in Doublings(Start) : c >= Needed(n)}
<1>1. /\ Start \in Doublings(FirstCapacity) /\ Start \in Nat \ {0}
      /\ Start <= Limit /\ received \in Nat
  BY StartHolds
<1>2. Needed(n) \in Nat /\ Needed(n) <= Limit
  BY <1>1, LimitAssumption DEF Needed, Fits
<1>3. /\ \A k \in 0..Limit : it[k] \in Nat /\ it[k] > k /\ it[k] >= Start
      /\ it[0] = Start /\ \A k \in 1..Limit : it[k] = 2 * it[k - 1]
  BY <1>1, DoubledFromIs, DoublingsGrow
<1>4. Doublings(Start) = {it[k] : k \in 0..Limit}
  BY DEF Doublings
<1> HIDE DEF it
<1>5. large \in SUBSET Nat /\ large # {}
  <2>1. it[Limit] \in large
    BY <1>2, <1>3, <1>4, LimitAssumption
  <2> QED  BY <1>3, <1>4, <2>1
<1>6. Grown(n) = Min(large)
  BY DEF Grown
<1> DEFINE grown == Grown(n)
<1>7. grown \in large /\ \A c \in large : grown <= c
  <2> HIDE DEF large
  <2> QED  BY <1>5, <1>6, LeastIs
<1> HIDE DEF grown
<1>8. grown \in Nat /\ grown >= Needed(n) /\ grown \in Doublings(Start)
  BY <1>5, <1>7
<1>9. grown <= Limit
  <2>1. SUFFICES ASSUME grown > Limit PROVE FALSE
    BY <1>8, LimitAssumption
  <2>2. PICK k \in 0..Limit : grown = it[k]
    BY <1>4, <1>8
  <2>3. k # 0
    BY <1>1, <1>3, <2>1, <2>2, LimitAssumption
  <2>4. k - 1 \in 0..Limit /\ k \in 1..Limit
    BY <2>3, LimitAssumption
  <2> DEFINE half == it[k - 1]
  <2>5. grown = 2 * half /\ half \in Doublings(Start) /\ half \in Nat /\ half > 0
    BY <1>1, <1>3, <1>4, <2>2, <2>4
  <2> HIDE DEF half
  <2>6. half < Needed(n)
    <3>1. SUFFICES ASSUME half >= Needed(n) PROVE FALSE
      BY <1>2, <2>5
    <3>2. grown <= half
      BY <1>7, <2>5, <3>1
    <3> QED  BY <1>8, <2>5, <3>2
  <2>7. half < Limit
    BY <1>2, <2>5, <2>6, LimitAssumption
  <2>8. half \in Doublings(FirstCapacity)
    BY <1>1, <2>5, <2>7, DoublingsCompose, FirstCapacityAssumption, LimitAssumption
  <2>9. 2 * half <= Limit
    BY <2>7, <2>8, DoublingsApart, FirstCapacityAssumption, LimitAssumption
  <2> QED  BY <2>1, <2>5, <2>9, LimitAssumption
<1>10. grown \in Doublings(FirstCapacity)
  BY <1>1, <1>8, <1>9, DoublingsCompose, FirstCapacityAssumption
<1>11. ~(grown \div 2 > Limit \div 2)
  BY <1>8, <1>9, LimitAssumption
<1> QED  BY <1>8, <1>9, <1>10, <1>11 DEF grown, CannotGrow

LEMMA InitCaptured == InitCapture => IInvCapture
<1> SUFFICES ASSUME InitCapture PROVE IInvCapture
  OBVIOUS
<1>1. IInv
  BY InitIInv DEF InitCapture
<1>2. received = 0 /\ capacity = 0 /\ error = "none" /\ ~parsed
  BY DEF InitCapture, Init
<1> QED
  BY <1>1, <1>2, LimitAssumption
     DEF IInvCapture, BufferHoldsText, CaptureSoFar, RefusalMeansLarge

\* The reader is at work until it has seen the end, and has had no error so far.
LEMMA WhileReading ==
  ASSUME IInvCapture, parent = "read"
  PROVE  ~parsed /\ error = "none"
BY DEF IInvCapture, IInv, AcceptedIsFinished, CaptureSoFar

LEMMA AppendCaptured ==
  ASSUME IInvCapture, IInv', NEW n \in Chunks, AppendChunk(n)
  PROVE  IInvCapture'
<1>1. n \in 1..pipe /\ pipe \in Nat /\ received \in Nat /\ capacity \in Nat /\ written \in Nat
  BY StartHolds DEF Chunks, IInvCapture, IInv, TypeOK
<1>2. Fits(n) /\ received' = received + n /\ capacity' = CapacityAfter(n)
      /\ UNCHANGED <<parent, parsed, written, error>>
  BY DEF AppendChunk, Accept, Refused
<1>3. Needed(n) = received' + 1 /\ Needed(n) <= Limit
  BY <1>1, <1>2, LimitAssumption DEF Needed, Fits
<1>4. capacity' \in Doublings(FirstCapacity) /\ capacity' >= Needed(n) /\ capacity' <= Limit
  <2>1. CASE MustGrow(n)
    BY <1>1, <1>2, <2>1, GrownIs DEF CapacityAfter
  <2>2. CASE ~MustGrow(n)
    BY <1>1, <1>2, <1>3, <2>2 DEF CapacityAfter, MustGrow, IInvCapture, CaptureSoFar, BufferHoldsText
  <2> QED  BY <2>1, <2>2
<1>5. capacity' \in Nat \ {0}
  BY <1>4, FirstIsDoubling
<1>6. BufferHoldsText'
  BY <1>1, <1>2, <1>3, <1>4, <1>5, LimitAssumption DEF BufferHoldsText
<1>7. CaptureSoFar' /\ RefusalMeansLarge'
  BY <1>2, <1>4, <1>5 DEF IInvCapture, CaptureSoFar, RefusalMeansLarge
<1> QED  BY <1>6, <1>7 DEF IInvCapture

LEMMA RefuseCaptured ==
  ASSUME IInvCapture, IInv', NEW n \in Chunks, RefuseChunk(n) \/ AllocationFails(n)
  PROVE  IInvCapture'
<1>1. n \in 1..pipe /\ pipe \in Nat /\ received \in Nat /\ written \in Nat
  BY StartHolds DEF Chunks, IInvCapture, IInv, TypeOK
<1>2. /\ parent = "read" /\ parent' = "wait" /\ error' \in {"exceeds", "other"}
      /\ UNCHANGED <<received, parsed, written, capacity>>
  BY DEF RefuseChunk, AllocationFails, Reject, StopReading
<1>3. error' = "exceeds" => written >= Limit
  <2>1. SUFFICES ASSUME RefuseChunk(n) PROVE written >= Limit
    BY DEF AllocationFails
  <2>2. ~Fits(n)
    BY <1>1, <2>1, GrownIs DEF RefuseChunk, Refused
  <2>3. received + pipe = written
    BY <1>2 DEF IInvCapture, IInv, UnitsAccounted
  <2> QED  BY <1>1, <2>2, <2>3, LimitAssumption DEF Fits
<1>4. BufferHoldsText' /\ CaptureSoFar' /\ RefusalMeansLarge'
  BY <1>2, <1>3, WhileReading DEF IInvCapture, BufferHoldsText, CaptureSoFar, RefusalMeansLarge
<1> QED  BY <1>4 DEF IInvCapture

LEMMA EndCaptured ==
  ASSUME IInvCapture, IInv', EndOfOutput \/ EmptyAllocationFails \/ ReadingFails
  PROVE  IInvCapture'
<1>1. parent = "read" /\ parent' = "wait" /\ UNCHANGED <<received, written>>
  BY DEF EndOfOutput, EmptyAllocationFails, ReadingFails, ReadEnd, ReadFails, StopReading
<1>2. ~parsed /\ error = "none"
  BY <1>1, WhileReading
<1>3. CASE EndOfOutput
  <2>1. parsed' = TRUE /\ capacity' = Start /\ error' = "none"
    BY <1>2, <1>3 DEF EndOfOutput, ReadEnd
  <2>2. BufferHoldsText'
    BY <1>1, <2>1, StartHolds DEF IInvCapture, BufferHoldsText
  <2>3. CaptureSoFar' /\ RefusalMeansLarge'
    BY <1>1, <2>1, StartHolds DEF CaptureSoFar, RefusalMeansLarge
  <2> QED  BY <2>2, <2>3 DEF IInvCapture
<1>4. CASE EmptyAllocationFails \/ ReadingFails
  <2>1. ~parsed' /\ error' = "other" /\ UNCHANGED capacity
    BY <1>2, <1>4 DEF EmptyAllocationFails, ReadingFails, ReadEnd, ReadFails
  <2> QED
    BY <1>1, <2>1 DEF IInvCapture, BufferHoldsText, CaptureSoFar, RefusalMeansLarge
<1> QED  BY <1>3, <1>4

\* The steps around the reading, and those of git.
LEMMA OtherCaptured ==
  ASSUME IInvCapture, IInv',
         \/ /\ \/ SetUp \/ \E waited \in BOOLEAN : Reap(waited)
               \/ ChildProgress \/ Fail \/ Finished
            /\ UNCHANGED captureVars
         \/ UNCHANGED allVars
  PROVE  IInvCapture'
<1>1. UNCHANGED <<capacity, error>>
  BY DEF captureVars, allVars
<1>2. /\ UNCHANGED <<received, parsed>> /\ written' \in {written, written + 1}
      /\ parent \in {"wait", "done"} => parent' \in {"wait", "done"}
  <2>1. CASE SetUp
    BY <2>1 DEF SetUp, CreatePipe, CreateFails, Fork, ForkFails, CloseWriteEnd
  <2>2. CASE \E waited \in BOOLEAN : Reap(waited)
    BY <2>2 DEF Reap
  <2>3. CASE ChildProgress \/ Fail
    BY <2>3 DEF ChildProgress, Exec, SetupFails, Write, BrokenPipe, Exit, Fail, EndChild
  <2>4. CASE Finished \/ UNCHANGED allVars
    BY <2>4 DEF Finished, vars, allVars
  <2> QED  BY <2>1, <2>2, <2>3, <2>4
<1>3. written \in Nat
  BY DEF IInvCapture, IInv, TypeOK
<1>4. BufferHoldsText' /\ CaptureSoFar'
  BY <1>1, <1>2 DEF IInvCapture, BufferHoldsText, CaptureSoFar
<1>5. RefusalMeansLarge'
  BY <1>1, <1>2, <1>3, LimitAssumption DEF IInvCapture, RefusalMeansLarge
<1> QED  BY <1>4, <1>5 DEF IInvCapture

LEMMA CapturedStep == IInvCapture /\ [NextCapture]_allVars => IInvCapture'
<1> SUFFICES ASSUME IInvCapture, NextCapture \/ UNCHANGED allVars PROVE IInvCapture'
  OBVIOUS
<1>1. IInv'
  BY CaptureStep, NextIInv DEF IInvCapture
<1>2. CASE LintProgress
  <2>1. CASE Capture
    BY <1>1, <2>1, AppendCaptured, RefuseCaptured, EndCaptured DEF Capture
  <2>2. CASE (SetUp \/ \E waited \in BOOLEAN : Reap(waited)) /\ UNCHANGED captureVars
    BY <1>1, <2>2, OtherCaptured
  <2> QED  BY <1>2, <2>1, <2>2 DEF LintProgress
<1>3. CASE ReadingFails
  BY <1>1, <1>3, EndCaptured
<1>4. CASE GitProgress \/ ((Fail \/ Finished) /\ UNCHANGED captureVars)
  BY <1>1, <1>4, OtherCaptured DEF GitProgress
<1>5. CASE UNCHANGED allVars
  BY <1>1, <1>5, OtherCaptured
<1> QED  BY <1>2, <1>3, <1>4, <1>5 DEF NextCapture

\* Text, terminating NUL, capacity and limit stay in step (config.c append_output,
\* grow_output), for every limit that is a doubling of the first capacity.
THEOREM CaptureInvariant == SpecCapture => []IInvCapture
BY InitCaptured, CapturedStep, PTL DEF SpecCapture

\* The text and its NUL always lie inside an allocation that the limit bounds, and
\* the unsigned remainder of append_output never wraps.
THEOREM TextFits == SpecCapture => []BufferHoldsText
<1>1. IInvCapture => BufferHoldsText
  BY DEF IInvCapture
<1> QED  BY <1>1, CaptureInvariant, PTL

\* A configuration that is used is the whole of a file under the limit, ended by a
\* NUL (config.c capture_git).
THEOREM WholeFile == SpecCapture => []CapturedWhole
<1>1. IInvCapture => CapturedWhole
  <2> SUFFICES ASSUME IInvCapture, result = "ok"
               PROVE  /\ received = output /\ output < Limit /\ capacity > output
                      /\ error = "none" /\ child = "succeeded"
    BY DEF CapturedWhole
  <2>1. child = "succeeded" /\ received = output /\ parsed
    BY DEF IInvCapture, IInv, OkMeansWholeOutput
  <2>2. capacity # 0 /\ error = "none"
    BY <2>1 DEF IInvCapture, CaptureSoFar
  <2>3. capacity \in Nat /\ received \in Nat
    BY StartHolds
  <2> QED
    BY <2>1, <2>2, <2>3, LimitAssumption DEF IInvCapture, BufferHoldsText
<1> QED  BY <1>1, CaptureInvariant, PTL

\* Only a file that reaches the limit is reported as exceeding it: the second check,
\* in the loop of grow_output, never refuses what append_output has let through.
THEOREM OnlyLargeRefused == SpecCapture => []RefusalMeansLarge
<1>1. IInvCapture => RefusalMeansLarge
  BY DEF IInvCapture
<1> QED  BY <1>1, CaptureInvariant, PTL

--------------------------------------------------------------------------------
(* Where a capture can hang *)

\* The reader stops at the end of the output or with an error.
StopExplained == parent = "wait" => parsed \/ error # "none"

LEMMA StopStep == IInvCapture /\ StopExplained /\ [NextCapture]_allVars => StopExplained'
<1> SUFFICES ASSUME IInvCapture, StopExplained, NextCapture \/ UNCHANGED allVars
             PROVE  StopExplained'
  OBVIOUS
<1> USE DEF StopExplained
<1>1. ASSUME NEW n \in Chunks, AppendChunk(n) \/ RefuseChunk(n) \/ AllocationFails(n)
      PROVE  StopExplained'
  BY <1>1 DEF AppendChunk, Accept, RefuseChunk, AllocationFails
<1>2. CASE EndOfOutput \/ EmptyAllocationFails \/ ReadingFails
  BY <1>2 DEF EndOfOutput, EmptyAllocationFails, ReadingFails, ReadEnd
<1>3. CASE SetUp /\ UNCHANGED captureVars
  BY <1>3 DEF SetUp, CreatePipe, CreateFails, Fork, ForkFails, CloseWriteEnd
<1>4. CASE (\E waited \in BOOLEAN : Reap(waited)) /\ UNCHANGED captureVars
  BY <1>4 DEF Reap
<1>5. CASE (ChildProgress \/ Fail) /\ UNCHANGED captureVars
  BY <1>5 DEF ChildProgress, Exec, SetupFails, Write, BrokenPipe, Exit, Fail, EndChild,
              captureVars
<1>6. CASE (Finished /\ UNCHANGED captureVars) \/ UNCHANGED allVars
  BY <1>6 DEF Finished, vars, captureVars, allVars
<1> QED
  BY <1>1, <1>2, <1>3, <1>4, <1>5, <1>6 DEF NextCapture, LintProgress, Capture, GitProgress

\* A capture gets stuck only after the reader has stopped early with an error, on
\* an output that does not fit in the pipe; until it is answered everything else
\* can go on, without any failure.
THEOREM OnlyRefusedLargeIsStuck ==
  SpecCapture =>
    [](/\ NotStuck
       /\ Blocked => error # "none" /\ output > Capacity)
<1>1. InitCapture => StopExplained
  BY DEF InitCapture, Init, StopExplained
<1>2. IInvCapture /\ StopExplained /\ Blocked => error # "none" /\ output > Capacity
  <2> SUFFICES ASSUME IInvCapture, StopExplained, Blocked
               PROVE  error # "none" /\ output > Capacity
    OBVIOUS
  <2>1. ~parsed
    BY DEF Blocked, IInvCapture, IInv, AcceptedIsFinished
  <2>2. /\ pipe <= written /\ pipe = Capacity /\ written < output
        /\ written \in Nat /\ pipe \in Nat /\ output \in Nat
    BY DEF Blocked, IInvCapture, IInv, TypeOK, UnitsAccounted
  <2> QED  BY <2>1, <2>2 DEF StopExplained, Blocked
<1> QED
  BY <1>1, <1>2, StopStep, CaptureInvariant, CaptureUsesGitPipe, QueryNotStuck, PTL
  DEF SpecCapture

================================================================================
