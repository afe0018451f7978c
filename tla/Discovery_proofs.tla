---------------------------- MODULE Discovery_proofs ----------------------------
(***************************************************************************)
(* The search for a configuration misses nothing that is there all the     *)
(* time, for any number of directories and names, any repositories, and    *)
(* any writes by others.                                                   *)
(***************************************************************************)
EXTENDS Discovery, TLAPS

--------------------------------------------------------------------------------
(* The inductive invariant *)

\* What the loop over the names has established so far.
NamesSoFar ==
  /\ \A d \in Directories, n \in Names : <<d, n>> \in always =>
       /\ step = "look" /\ d = directory /\ n < name => n = found
       /\ step = "stop" => d < directory
  /\ step = "start" => directory = Depth /\ name = 1 /\ found = 0
  /\ step = "stop" => found = 0
  /\ Decided => found \in Names
  /\ step = "look" /\ found # 0 => found < name
  /\ error = "nothing found" => step = "failed"

IInv == TypeOK /\ NamesSoFar /\ ClimbIsThorough

--------------------------------------------------------------------------------
USE DepthAssumption, NameCountAssumption

\* Directories and names are numbers.
LEMMA Numbers ==
  /\ \A d \in Directories : d \in Nat /\ d <= Depth
  /\ \A n \in Names : n \in Nat /\ n # 0 /\ n <= NameCount
  /\ Depth \in Directories /\ 0 \in Directories
BY DEF Directories, Names

LEMMA Typed ==
  IInv => /\ name \in Nat /\ found \in Nat /\ directory \in Nat
          /\ directory \in Directories /\ always \subseteq entries
          /\ found # 0 => found \in Names
BY DEF IInv, TypeOK, Directories, Names

LEMMA InitIInv == Init => IInv
<1> SUFFICES ASSUME Init PROVE IInv
  OBVIOUS
<1>1. always \subseteq Places
  BY PlacesAssumption DEF Init
<1>2. TypeOK
  <2>1. staged \in BOOLEAN /\ trouble \in BOOLEAN
    BY DEF Init
  <2> QED
    BY <2>1, PlacesAssumption, GitRootsAssumption, MaxMovesAssumption
    DEF Init, TypeOK, Steps, Errors, Directories, Names
<1>3. NamesSoFar /\ ClimbIsThorough
  BY Numbers DEF Init, NamesSoFar, ClimbIsThorough, Decided
<1> QED
  BY <1>2, <1>3 DEF IInv

\* The run ends without a result: what was established stays.
LEMMA FailIInv ==
  ASSUME IInv, NEW what \in Errors, Refuse(what) \/ Break(what), what = "nothing found" => step = "stop"
  PROVE  IInv'
<1>1. TypeOK'
  BY DEF Fail, Refuse, Break, IInv, TypeOK, world, Steps
<1>2. NamesSoFar' /\ ClimbIsThorough'
  BY DEF Fail, Refuse, Break, IInv, NamesSoFar, ClimbIsThorough, world, Decided
<1> QED
  BY <1>1, <1>2 DEF IInv

\* Another process can only take places away from those that were always there.
LEMMA WriteIInv == IInv /\ Write => IInv'
<1> SUFFICES ASSUME IInv, Write PROVE IInv'
  OBVIOUS
<1>1. always' \subseteq always
  BY DEF Write
<1>2. TypeOK'
  BY MaxMovesAssumption DEF IInv, TypeOK, Write
<1>3. NamesSoFar' /\ ClimbIsThorough'
  BY <1>1 DEF IInv, NamesSoFar, ClimbIsThorough, Write, Decided
<1> QED
  BY <1>2, <1>3 DEF IInv

\* One more name of the directory in hand is looked for.
LEMMA NameIInv == IInv /\ (NameMissing \/ NameFound \/ NameConflicts \/ NameFails) => IInv'
<1> SUFFICES ASSUME IInv, NameMissing \/ NameFound \/ NameConflicts \/ NameFails
             PROVE  IInv'
  OBVIOUS
<1>1. name \in Nat /\ found \in Nat /\ directory \in Nat /\ always \subseteq entries
  BY Typed
<1>2. CASE NameMissing
  <2>1. TypeOK'
    BY <1>2 DEF IInv, TypeOK, NameMissing, OnName, world
  <2>2. <<directory, name>> \notin always
    BY <1>1, <1>2 DEF NameMissing, Here
  <2>3. \A d \in Directories, n \in Names :
          <<d, n>> \in always /\ d = directory /\ n < name + 1 => n = found
    <3> SUFFICES ASSUME NEW d \in Directories, NEW n \in Names,
                        <<d, n>> \in always, d = directory, n < name + 1
                 PROVE  n = found
      OBVIOUS
    <3>1. n \in Nat /\ n # name
      BY <2>2, Numbers
    <3>2. n < name => n = found
      BY <1>2 DEF IInv, NamesSoFar, NameMissing, OnName
    <3> QED
      BY <1>1, <3>1, <3>2
  <2>4. NamesSoFar'
    <3>1. /\ step = "look" /\ step' = step /\ directory' = directory /\ always' = always
          /\ name' = name + 1 /\ found' = found /\ error' = error
      BY <1>2 DEF NameMissing, OnName, world
    <3>2. error # "nothing found" /\ (found # 0 => found < name)
      BY <3>1 DEF IInv, NamesSoFar
    <3>3. found # 0 => found < name + 1
      <4>1. found \in Int /\ name \in Int
        BY <1>1
      <4>2. found < name => found < name + 1
        BY <4>1
      <4> QED
        BY <3>2, <4>2
    <3> QED
      BY <2>3, <3>1, <3>2, <3>3 DEF NamesSoFar, Decided
  <2>5. ClimbIsThorough'
    BY <1>2 DEF IInv, ClimbIsThorough, NameMissing, OnName, world, Decided
  <2> QED
    BY <2>1, <2>4, <2>5 DEF IInv
<1>3. CASE NameFound
  <2>1. TypeOK'
    BY <1>3 DEF IInv, TypeOK, Names, NameFound, OnName, world
  <2>2. \A d \in Directories, n \in Names :
          <<d, n>> \in always /\ d = directory /\ n < name + 1 => n = name
    <3> SUFFICES ASSUME NEW d \in Directories, NEW n \in Names,
                        <<d, n>> \in always, d = directory, n < name + 1
                 PROVE  n = name
      OBVIOUS
    <3>1. n \in Nat /\ n # 0
      BY Numbers
    <3>2. ~(n < name)
      BY <3>1, <1>3 DEF IInv, NamesSoFar, NameFound, OnName
    <3> QED
      BY <1>1, <3>1, <3>2
  <2>3. NamesSoFar'
    <3>1. /\ step = "look" /\ step' = step /\ directory' = directory /\ always' = always
          /\ name' = name + 1 /\ found' = name /\ error' = error
      BY <1>3 DEF NameFound, OnName, world
    <3>2. error # "nothing found"
      BY <3>1 DEF IInv, NamesSoFar
    <3>3. found' < name'
      BY <1>1, <3>1
    <3> QED
      BY <2>2, <3>1, <3>2, <3>3 DEF NamesSoFar, Decided
  <2>4. ClimbIsThorough'
    BY <1>3 DEF IInv, ClimbIsThorough, NameFound, OnName, world, Decided
  <2> QED
    BY <2>1, <2>3, <2>4 DEF IInv
<1>4. CASE NameConflicts \/ NameFails
  BY <1>4, FailIInv DEF NameConflicts, NameFails, Errors
<1> QED
  BY <1>2, <1>3, <1>4

\* The directory in hand decides, or is known to have no lasting configuration.
LEMMA DirectoryIInv == IInv /\ (DirectoryDecides \/ DirectoryEmpty) => IInv'
<1> SUFFICES ASSUME IInv, DirectoryDecides \/ DirectoryEmpty PROVE IInv'
  OBVIOUS
<1>1. step = "look" /\ name > NameCount
  BY DEF DirectoryDecides, DirectoryEmpty, AllNamesSeen
<1>2. name \in Nat /\ found \in Nat /\ directory \in Nat /\ (found # 0 => found \in Names)
  BY Typed
<1>3. \A d \in Directories, n \in Names :
        <<d, n>> \in always => d \in Nat /\ d <= directory /\ (d = directory => n = found)
  <2> SUFFICES ASSUME NEW d \in Directories, NEW n \in Names, <<d, n>> \in always
               PROVE  d \in Nat /\ d <= directory /\ (d = directory => n = found)
    OBVIOUS
  <2>1. n < name /\ d \in Nat
    BY <1>1, <1>2, Numbers
  <2> QED
    BY <1>1, <2>1 DEF IInv, NamesSoFar, ClimbIsThorough
<1>4. TypeOK'
  BY DEF DirectoryDecides, DirectoryEmpty, IInv, TypeOK, Goto, world, Steps
<1>5. CASE DirectoryDecides
  <2>1. /\ step' = "format" /\ directory' = directory /\ always' = always
        /\ found' = found /\ found # 0 /\ error' = error
    BY <1>5 DEF DirectoryDecides, Goto, world
  <2>2. error # "nothing found"
    BY <1>1 DEF IInv, NamesSoFar
  <2> QED
    BY <1>2, <1>3, <1>4, <2>1, <2>2 DEF IInv, NamesSoFar, ClimbIsThorough, Decided
<1>6. CASE DirectoryEmpty
  <2>1. \A d \in Directories, n \in Names : <<d, n>> \in always => d < directory
    <3> SUFFICES ASSUME NEW d \in Directories, NEW n \in Names, <<d, n>> \in always
                 PROVE  d < directory
      OBVIOUS
    <3>1. d \in Nat /\ d <= directory /\ d # directory
      BY <1>3, <1>6, Numbers DEF DirectoryEmpty
    <3> QED
      BY <1>2, <3>1
  <2>2. /\ step' = "stop" /\ directory' = directory /\ always' = always
        /\ found' = 0 /\ error' = error
    BY <1>6 DEF DirectoryEmpty, Goto, world
  <2>3. error # "nothing found"
    BY <1>1 DEF IInv, NamesSoFar
  <2> QED
    BY <1>3, <1>4, <2>1, <2>2, <2>3 DEF IInv, NamesSoFar, ClimbIsThorough, Decided
<1> QED
  BY <1>5, <1>6

\* The climb goes on from a directory without a lasting configuration.
LEMMA ClimbIInv ==
  ASSUME IInv, step = "stop", directory # 0, Climb, unread' \in {unread, unread \cup {directory}}
  PROVE  IInv'
<1>1. directory' = directory - 1 /\ directory' \in Directories /\ directory \in Nat
  BY DEF IInv, TypeOK, Climb, Directories
<1>2. TypeOK'
  BY <1>1 DEF IInv, TypeOK, Climb, world, Steps
<1>3. \A d \in Directories, n \in Names :
        <<d, n>> \in always => d <= directory' /\ ~(n < 1)
  <2> SUFFICES ASSUME NEW d \in Directories, NEW n \in Names, <<d, n>> \in always
               PROVE  d <= directory' /\ ~(n < 1)
    OBVIOUS
  <2>1. d \in Nat /\ n \in Nat /\ n # 0
    BY Numbers
  <2>2. d < directory
    BY DEF IInv, NamesSoFar
  <2> QED
    BY <1>1, <2>1, <2>2
<1>4. NamesSoFar' /\ ClimbIsThorough'
  BY <1>1, <1>3 DEF IInv, NamesSoFar, ClimbIsThorough, Climb, world, Decided
<1> QED
  BY <1>2, <1>4 DEF IInv

LEMMA DiscoverIInv == IInv /\ Discover => IInv'
<1> SUFFICES ASSUME IInv, Discover PROVE IInv'
  OBVIOUS
<1>1. CASE ResolveRoot
  <2>1. TypeOK'
    BY <1>1 DEF ResolveRoot, Goto, world, IInv, TypeOK, Steps
  <2>2. name = 1 /\ found = 0
    BY <1>1 DEF ResolveRoot, IInv, NamesSoFar
  <2>3. \A n \in Names : ~(n < 1)
    BY Numbers
  <2> QED
    BY <1>1, <2>1, <2>2, <2>3 DEF ResolveRoot, Goto, world, IInv, NamesSoFar, ClimbIsThorough, Decided
<1>2. CASE ResolveRootFails
  BY <1>2, FailIInv DEF ResolveRootFails, Errors
<1>3. CASE Stop
  BY <1>3, FailIInv DEF Stop, Errors
<1>4. CASE ClimbOutside \/ ClimbUnknowing
  BY <1>4, ClimbIInv DEF ClimbOutside, ClimbUnknowing, ShouldStop
<1> QED
  BY <1>1, <1>2, <1>3, <1>4, NameIInv, DirectoryIInv DEF Discover

LEMMA LoadIInv == IInv /\ Load => IInv'
<1> SUFFICES ASSUME IInv, Load PROVE IInv'
  OBVIOUS
<1>1. CASE \/ RefuseFormat \/ OpenMissing \/ OpenFails
           \/ NotTracked \/ TrackFails \/ ShowMissing \/ ShowFails
  BY <1>1, FailIInv DEF RefuseFormat, OpenMissing, OpenFails, NotTracked, TrackFails,
                        ShowMissing, ShowFails, Errors
<1>2. CASE ReadFormat \/ Open \/ Track \/ Show
  <2>1. TypeOK'
    BY <1>2 DEF ReadFormat, Open, Track, Show, Goto, world, IInv, TypeOK, Steps
  <2>2. Decided
    BY <1>2 DEF ReadFormat, Open, Track, Show, Decided
  <2> QED
    BY <1>2, <2>1, <2>2
    DEF ReadFormat, Open, Track, Show, Goto, world, IInv, NamesSoFar, ClimbIsThorough, Decided
<1> QED
  BY <1>1, <1>2 DEF Load

\* Every step of the search and of other processes keeps the invariant.
LEMMA NextIInv == IInv /\ [Next]_vars => IInv'
<1> SUFFICES ASSUME IInv, [Next]_vars PROVE IInv'
  OBVIOUS
<1>1. CASE UNCHANGED vars
  BY <1>1 DEF vars, IInv, TypeOK, NamesSoFar, ClimbIsThorough, Decided
<1> QED
  BY <1>1, DiscoverIInv, LoadIInv, WriteIInv DEF Next, Finished

\* The strengthened invariant holds in every reachable state.
THEOREM DiscoveryInvariant == Spec => []IInv
BY InitIInv, NextIInv, PTL DEF Spec

\* fs_lint_discover_config passes by no configuration that is there all the time.
THEOREM NothingLastingMissed == Spec => []ClimbIsThorough
<1>1. IInv => ClimbIsThorough
  BY DEF IInv
<1> QED
  BY <1>1, DiscoveryInvariant, PTL

\* The climb leaves a repository root behind only where the path of .git could
\* not be allocated.
THEOREM StaysInside == Spec => []StaysInRepository
<1>1. Init => StaysInRepository
  BY GitRootsAssumption, Numbers DEF Init, StaysInRepository
<1>2. IInv /\ StaysInRepository /\ [Next]_vars => StaysInRepository'
  <2> SUFFICES ASSUME IInv, StaysInRepository, [Next]_vars PROVE StaysInRepository'
    OBVIOUS
  <2>1. CASE Climb /\ (directory \in unread' \/ directory \notin git)
             /\ unread \subseteq unread' /\ directory # 0
    <3> SUFFICES ASSUME NEW root \in git PROVE root <= directory' \/ root \in unread'
      BY <2>1 DEF Climb, StaysInRepository
    <3>1. CASE root = directory \/ root \in unread
      BY <2>1, <3>1
    <3>2. CASE root # directory /\ root \notin unread
      <4>1. root <= directory /\ root \in Nat /\ directory \in Nat
        BY <3>2, Typed, Numbers DEF StaysInRepository, IInv, TypeOK
      <4>2. directory' = directory - 1
        BY <2>1 DEF Climb
      <4> QED  BY <3>2, <4>1, <4>2
    <3> QED  BY <3>1, <3>2
  <2>2. CASE ClimbOutside
    BY <2>1, <2>2 DEF ClimbOutside, ShouldStop
  <2>3. CASE ClimbUnknowing
    BY <2>1, <2>3 DEF ClimbUnknowing
  <2>4. UNCHANGED <<git, directory, unread>> => StaysInRepository'
    BY DEF StaysInRepository
  <2>5. CASE ResolveRoot \/ ResolveRootFails \/ NameMissing \/ NameFound \/ NameConflicts
             \/ NameFails \/ DirectoryDecides \/ DirectoryEmpty \/ Stop
    BY <2>4, <2>5
    DEF ResolveRoot, ResolveRootFails, NameMissing, NameFound, NameConflicts, NameFails,
        DirectoryDecides, DirectoryEmpty, Stop, Goto, Fail, Refuse, Break, world
  <2>6. CASE Load \/ Write
    BY <2>4, <2>6
    DEF Load, ReadFormat, RefuseFormat, Open, OpenMissing, OpenFails, Track, NotTracked,
        TrackFails, Show, ShowMissing, ShowFails, Write, Goto, Fail, Refuse, Break, world
  <2>7. CASE UNCHANGED vars
    BY <2>4, <2>7 DEF vars
  <2> QED  BY <2>2, <2>3, <2>5, <2>6, <2>7 DEF Next, Discover, Finished
<1> QED  BY <1>1, <1>2, DiscoveryInvariant, PTL DEF Spec

--------------------------------------------------------------------------------
(* What the search answers when nobody writes *)

\* What the numbers of two directories, or of two names, say of each other.
LEMMA Order ==
  \A a, b \in Nat :
    /\ a < b => a # b
    /\ a > b => ~(a <= b)
    /\ a >= b => ~(a < b)
OBVIOUS

\* The answers that are given about one configuration.
AboutPlace == {"format", "open", "not staged", "git"}

\* What an undisturbed run knows of the working tree and of the index at each step.
AnsweredSoFar ==
  moves = 0 =>
    /\ always = entries
    /\ found # 0 => Place \in entries
    /\ step # "failed" <=> error = "none"
    /\ error = "nothing found" => directory \in git \/ directory = 0
    /\ error = "conflict" => found # 0 /\ found # name /\ Here \in entries
    /\ error \in AboutPlace =>
         found \in Names /\ \A n \in Names : <<directory, n>> \in entries => n = found
    /\ step \in {"open", "track", "show", "loaded"} => found \notin Unsupported
    /\ error = "format" => found \in Unsupported
    /\ error \in {"open", "not staged"} => found \notin Unsupported
    /\ step = "open" => ~staged
    /\ step \in {"track", "show"} => staged
    /\ step = "show" => Tracked
    /\ step = "loaded" => IF staged THEN Tracked ELSE Place \notin Dangling
    /\ ~trouble =>
         /\ error \notin {"root", "memory", "git"}
         /\ error = "open" => ~staged /\ Place \in Dangling
         /\ error = "not staged" => staged /\ ~Tracked

LEMMA InitAnswered == Init => AnsweredSoFar
BY DEF Init, AnsweredSoFar, AboutPlace

\* A step that leaves the place in hand and what is said of it alone.
LEMMA LookAnswered ==
  ASSUME IInv, AnsweredSoFar,
         \/ ResolveRoot \/ NameMissing \/ NameFound \/ DirectoryDecides \/ DirectoryEmpty
         \/ ReadFormat \/ Open \/ Track \/ Show \/ ClimbOutside \/ ClimbUnknowing
  PROVE  AnsweredSoFar'
<1>1. CASE ResolveRoot \/ NameMissing \/ DirectoryDecides \/ DirectoryEmpty
  <2>1. /\ step \in {"start", "look"} /\ step' \in {"look", "format", "stop"}
        /\ UNCHANGED <<world, directory, found, error, trouble>>
    BY <1>1 DEF ResolveRoot, NameMissing, DirectoryDecides, DirectoryEmpty, AllNamesSeen,
                OnName, Goto
  <2>2. moves = 0 => error = "none"
    BY <2>1 DEF AnsweredSoFar
  <2> QED  BY <2>1, <2>2 DEF world, AnsweredSoFar, AboutPlace, Place
<1>2. CASE NameFound
  BY <1>2 DEF NameFound, OnName, Here, world, AnsweredSoFar, AboutPlace, Place
<1>3. CASE ReadFormat \/ Open \/ Track \/ Show
  <2>1. /\ step \in {"format", "open", "track", "show"}
        /\ step' \in {"open", "track", "show", "loaded"}
        /\ UNCHANGED <<world, directory, found, error, trouble>>
    BY <1>3 DEF ReadFormat, Open, Track, Show, Goto
  <2>2. /\ moves = 0 => error = "none"
        /\ step \in {"open", "track", "show"} /\ moves = 0 => found \notin Unsupported
    BY <2>1 DEF AnsweredSoFar
  <2>3. /\ Place' = Place /\ Tracked' = Tracked
        /\ moves = 0 /\ found # 0 => Place \in entries
        /\ moves = 0 => always = entries
    BY <2>1 DEF world, Place, Tracked, InRepository, AnsweredSoFar
  <2>4. CASE ReadFormat
    <3>1. step' = IF staged THEN "track" ELSE "open"
      BY <2>4 DEF ReadFormat, Goto
    <3> QED  BY <2>1, <2>2, <2>3, <2>4, <3>1 DEF ReadFormat, world, AnsweredSoFar, AboutPlace
  <2>5. CASE Open
    BY <2>1, <2>2, <2>3, <2>5 DEF Open, Goto, world, AnsweredSoFar, AboutPlace
  <2>6. CASE Track
    BY <2>1, <2>2, <2>3, <2>6 DEF Track, Goto, world, AnsweredSoFar, AboutPlace
  <2>7. CASE Show
    BY <2>1, <2>2, <2>3, <2>7 DEF Show, Goto, world, AnsweredSoFar, AboutPlace
  <2> QED  BY <1>3, <2>4, <2>5, <2>6, <2>7
<1>4. CASE ClimbOutside \/ ClimbUnknowing
  <2>1. step = "stop" /\ Climb /\ found = 0
    BY <1>4 DEF ClimbOutside, ClimbUnknowing, IInv, NamesSoFar
  <2> QED  BY <2>1 DEF Climb, AnsweredSoFar, AboutPlace
<1> QED  BY <1>1, <1>2, <1>3, <1>4

\* A step that ends the run.
LEMMA EndAnswered ==
  ASSUME IInv, AnsweredSoFar,
         \/ ResolveRootFails \/ NameFails \/ NameConflicts \/ Stop
         \/ RefuseFormat \/ OpenMissing \/ OpenFails
         \/ NotTracked \/ TrackFails \/ ShowMissing \/ ShowFails
  PROVE  AnsweredSoFar'
<1> USE DEF Refuse, Break, Fail, world, AnsweredSoFar, AboutPlace
<1>1. CASE ResolveRootFails \/ NameFails
  <2>1. /\ step' = "failed" /\ error' \in {"root", "memory"} /\ trouble'
        /\ UNCHANGED <<entries, always, moves, directory, found>>
    BY <1>1 DEF ResolveRootFails, NameFails
  <2> QED  BY <2>1 DEF Place
<1>2. CASE NameConflicts
  <2>1. found # name
    <3>1. found \in Nat /\ name \in Nat /\ found < name
      BY <1>2, Typed DEF NameConflicts, OnName, IInv, NamesSoFar
    <3> QED  BY <3>1, Order, Zenon
  <2> QED  BY <1>2, <2>1 DEF NameConflicts, Place, Here
<1>3. CASE Stop
  BY <1>3 DEF Stop, ShouldStop, Place
<1>4. CASE \/ RefuseFormat \/ OpenMissing \/ OpenFails
           \/ NotTracked \/ TrackFails \/ ShowMissing \/ ShowFails
  <2>1. step \in {"format", "open", "track", "show"}
    BY <1>4 DEF RefuseFormat, OpenMissing, OpenFails, NotTracked, TrackFails, ShowMissing, ShowFails
  <2>2. found \in Names /\ found # 0
    BY <2>1, Numbers DEF IInv, NamesSoFar, Decided
  <2>3. moves = 0 => \A n \in Names : <<directory, n>> \in entries => n = found
    BY <2>1 DEF IInv, ClimbIsThorough, Decided, TypeOK
  <2>4. CASE RefuseFormat
    BY <2>2, <2>3, <2>4 DEF RefuseFormat, Place
  <2>5. CASE OpenMissing \/ OpenFails
    <3>1. /\ step = "open" /\ step' = "failed" /\ error' = "open"
          /\ UNCHANGED <<entries, always, moves, directory, found, staged>>
          /\ trouble' \/ Place \notin entries \ Dangling
      BY <2>5 DEF OpenMissing, OpenFails
    <3>2. Place' = Place
      BY <3>1 DEF Place
    <3> QED  BY <2>2, <2>3, <3>1, <3>2
  <2>6. CASE NotTracked \/ TrackFails
    <3>1. /\ step = "track" /\ step' = "failed" /\ error' = "not staged"
          /\ UNCHANGED <<entries, always, index, git, moves, directory, found, staged>>
          /\ trouble' \/ ~Tracked
      BY <2>6 DEF NotTracked, TrackFails
    <3>2. Place' = Place /\ Tracked' = Tracked
      BY <3>1 DEF Place, Tracked, InRepository
    <3> QED  BY <2>2, <2>3, <3>1, <3>2
  <2>7. CASE ShowMissing \/ ShowFails
    <3>1. /\ step = "show" /\ step' = "failed" /\ error' = "git"
          /\ UNCHANGED <<entries, always, moves, directory, found>>
          /\ trouble' \/ Place \notin index
      BY <2>7 DEF ShowMissing, ShowFails
    <3>2. Place' = Place
      BY <3>1 DEF Place
    <3>3. moves = 0 => Place \in index
      BY <3>1 DEF Tracked
    <3> QED  BY <2>2, <2>3, <3>1, <3>2, <3>3
  <2> QED  BY <1>4, <2>4, <2>5, <2>6, <2>7
<1> QED  BY <1>1, <1>2, <1>3, <1>4

LEMMA AnsweredStep == IInv /\ AnsweredSoFar /\ [Next]_vars => AnsweredSoFar'
<1> SUFFICES ASSUME IInv, AnsweredSoFar, [Next]_vars PROVE AnsweredSoFar'
  OBVIOUS
<1>1. CASE Write
  <2>1. moves' # 0
    BY <1>1 DEF Write, IInv, TypeOK
  <2> QED  BY <2>1 DEF AnsweredSoFar
<1>2. CASE UNCHANGED vars
  BY <1>2 DEF vars, AnsweredSoFar, Place, Here, Tracked, InRepository
<1> QED  BY <1>1, <1>2, LookAnswered, EndAnswered DEF Next, Discover, Load, Finished

\* Where nothing was unknown, the climb is still inside of the repository.
LEMMA WithinReach ==
  ASSUME IInv, StaysInRepository, unread = {}
  PROVE  /\ \A d \in Directories : d >= directory => d \in Reach
         /\ directory \in git \/ directory = 0 => \A d \in Reach : d >= directory
         /\ InRepository <=> git # {}
<1>1. directory \in Nat /\ \A d \in Directories : d \in Nat
  BY Typed, Numbers
<1>2. \A root \in git : root \in Directories /\ root <= directory
  BY DEF StaysInRepository, IInv, TypeOK
<1> QED  BY <1>1, <1>2 DEF Reach, InRepository

\* An undisturbed run is answered from the nearest directory with a configuration;
\* --staged takes what is staged there, or nothing.
THEOREM AnsweredNearest == Spec => []AnsweredFromNearest
<1>1. IInv /\ StaysInRepository /\ AnsweredSoFar => AnsweredFromNearest
  <2> SUFFICES ASSUME IInv, StaysInRepository, AnsweredSoFar,
                      step \in {"loaded", "failed"}, moves = 0, unread = {}, ~trouble
               PROVE  \/ error = "nothing found" /\ \A d \in Reach : NamesIn(d) = {}
                      \/ /\ Nearest(directory)
                         /\ \/ error = "conflict" /\ \E m, n \in NamesIn(directory) : m # n
                            \/ /\ NamesIn(directory) = {found} /\ error = Answer(directory, found)
                               /\ step = "loaded" => Place = <<directory, found>>
                               /\ found \in Names
    BY Typed DEF AnsweredFromNearest
  <2>1. /\ directory \in Directories /\ directory \in Nat
        /\ \A d \in Directories : d \in Nat
        /\ \A d \in Reach : d \in Directories
    BY Typed, Numbers DEF Reach
  <2>2. always = entries
    BY DEF AnsweredSoFar
  <2>3. \A d \in Directories : NamesIn(d) # {} => d <= directory
    BY <2>2 DEF NamesIn, IInv, ClimbIsThorough
  <2>4. found # 0 => Nearest(directory)
    <3> SUFFICES ASSUME found # 0 PROVE Nearest(directory)
      OBVIOUS
    <3>1. directory \in Reach
      BY <2>1, WithinReach
    <3>2. NamesIn(directory) # {}
      BY Typed DEF AnsweredSoFar, Place, NamesIn
    <3>3. \A other \in Reach : other > directory => NamesIn(other) = {}
      <4> SUFFICES ASSUME NEW other \in Reach, other > directory PROVE NamesIn(other) = {}
        OBVIOUS
      <4>1. other \in Directories /\ other \in Nat /\ ~(other <= directory)
        BY <2>1, Order, Zenon
      <4> QED  BY <2>3, <4>1
    <3> QED  BY <3>1, <3>2, <3>3 DEF Nearest
  <2>5. CASE error = "nothing found"
    <3>1. \A d \in Directories : NamesIn(d) # {} => d < directory
      BY <2>2, <2>5 DEF NamesIn, IInv, ClimbIsThorough
    <3>2. \A d \in Reach : d >= directory
      BY <2>5, WithinReach DEF AnsweredSoFar
    <3>3. ASSUME NEW d \in Reach PROVE NamesIn(d) = {}
      <4>1. d \in Directories /\ d \in Nat /\ ~(d < directory)
        BY <2>1, <3>2, Order, Zenon
      <4> QED  BY <3>1, <4>1
    <3> QED  BY <2>5, <3>3
  <2>6. CASE error = "conflict"
    <3>1. found # 0 /\ found # name /\ Here \in entries /\ Place \in entries
      BY <2>6 DEF AnsweredSoFar
    <3>2. name \in NamesIn(directory) /\ found \in NamesIn(directory)
      BY <3>1 DEF NamesIn, Here, Place, IInv, TypeOK, Places
    <3> QED  BY <2>4, <2>6, <3>1, <3>2
  <2>7. CASE error \in {"none", "format", "open", "not staged"}
    <3>1. /\ found \in Names
          /\ \A n \in Names : <<directory, n>> \in entries => n = found
      <4>1. CASE error = "none"
        <5>1. step = "loaded"
          BY <4>1 DEF AnsweredSoFar
        <5> QED  BY <2>1, <2>2, <5>1 DEF IInv, NamesSoFar, ClimbIsThorough, Decided
      <4>2. CASE error # "none"
        BY <2>7, <4>2 DEF AnsweredSoFar, AboutPlace
      <4> QED  BY <4>1, <4>2
    <3>2. found # 0
      BY <3>1, Numbers
    <3>3. NamesIn(directory) = {found}
      BY <3>1, <3>2 DEF NamesIn, AnsweredSoFar, Place
    <3>4. InRepository <=> git # {}
      BY WithinReach
    <3>5. error = Answer(directory, found)
      BY <2>7, <3>2, <3>4, Zenon DEF AnsweredSoFar, AboutPlace, Answer, Place, Tracked
    <3> QED  BY <2>4, <3>1, <3>2, <3>3, <3>5 DEF Place
  <2> QED  BY <2>5, <2>6, <2>7 DEF AnsweredSoFar, IInv, TypeOK, Errors
<1> QED
  BY <1>1, InitAnswered, AnsweredStep, DiscoveryInvariant, StaysInside, PTL DEF Spec

--------------------------------------------------------------------------------
(* How the search ends, but for the scheduling *)

\* The most steps in one directory: its names, what they decide, and the climb.
InDirectory == NameCount + 2

RunLeft ==
  IF step = "start" THEN (Depth + 1) * InDirectory + 5
  ELSE IF step = "look" THEN directory * InDirectory + (NameCount + 1 - name) + 6
  ELSE IF step = "stop" THEN directory * InDirectory + 5
  ELSE IF step = "format" THEN 4
  ELSE IF step \in {"open", "track"} THEN 3
  ELSE IF step = "show" THEN 2
  ELSE 0

\* A measure of what is left of the search and of the writes by others.
StepsLeft == RunLeft + (MaxMoves - moves)

\* A directory has room for all that is done in it.
LEMMA DirectoryFits ==
  ASSUME NEW d \in Nat
  PROVE  /\ d * InDirectory \in Nat /\ InDirectory \in Nat
         /\ (d + 1) * InDirectory = d * InDirectory + NameCount + 2
         /\ d # 0 => (d - 1) * InDirectory = d * InDirectory - NameCount - 2
BY DEF InDirectory

\* A failure is the end of the run.
LEMMA FailureEnds ==
  \A what : Refuse(what) \/ Break(what) => step' = "failed" /\ UNCHANGED moves
BY DEF Fail, Refuse, Break, world

LEMMA RunLeftFalls ==
  ASSUME IInv, Discover \/ Load
  PROVE  RunLeft' \in Nat /\ RunLeft \in Nat /\ RunLeft' < RunLeft /\ UNCHANGED moves
<1>1. /\ name \in Nat /\ name <= NameCount + 1 /\ directory \in Nat /\ NameCount \in Nat
      /\ Depth \in Nat
  BY Numbers DEF IInv, TypeOK, Directories
<1>2. /\ directory * InDirectory \in Nat /\ Depth * InDirectory \in Nat
      /\ (Depth + 1) * InDirectory = Depth * InDirectory + NameCount + 2
      /\ directory # 0 =>
           (directory - 1) * InDirectory = directory * InDirectory - NameCount - 2
  BY <1>1, DirectoryFits
<1> USE DEF RunLeft, Goto, Fail, Refuse, Break, world
<1>3. CASE ResolveRoot \/ ResolveRootFails
  <2>1. directory = Depth /\ name = 1
    BY <1>3 DEF ResolveRoot, ResolveRootFails, IInv, NamesSoFar
  <2> HIDE DEF InDirectory
  <2> QED  BY <1>1, <1>2, <1>3, <2>1 DEF ResolveRoot, ResolveRootFails
<1>4. CASE NameMissing \/ NameFound
  BY <1>1, <1>2, <1>4 DEF NameMissing, NameFound, OnName
<1>5. CASE NameConflicts \/ NameFails
  BY <1>1, <1>2, <1>5 DEF NameConflicts, NameFails, OnName
<1>6. CASE DirectoryDecides \/ DirectoryEmpty
  BY <1>1, <1>2, <1>6 DEF DirectoryDecides, DirectoryEmpty, AllNamesSeen
<1>7. CASE Stop
  <2>1. step = "stop" /\ step' = "failed" /\ UNCHANGED moves
    BY <1>7, FailureEnds, Zenon DEF Stop
  <2> QED  BY <1>1, <1>2, <2>1
<1>8. CASE ClimbOutside \/ ClimbUnknowing
  <2>1. step = "stop" /\ directory # 0 /\ Climb /\ UNCHANGED moves
    BY <1>8 DEF ClimbOutside, ClimbUnknowing, ShouldStop, Climb
  <2>2. directory' = directory - 1 /\ name' = 1 /\ step' = "look"
    BY <2>1 DEF Climb
  <2> QED  BY <1>1, <1>2, <2>1, <2>2
<1>9. CASE ReadFormat \/ Open \/ Track \/ Show
  BY <1>9 DEF ReadFormat, Open, Track, Show
<1>10. CASE \/ RefuseFormat \/ OpenMissing \/ OpenFails
            \/ NotTracked \/ TrackFails \/ ShowMissing \/ ShowFails
  <2>1. /\ step \in {"format", "open", "track", "show"}
        /\ step' = "failed" /\ UNCHANGED moves
    BY <1>10, FailureEnds, Zenon
    DEF RefuseFormat, OpenMissing, OpenFails, NotTracked, TrackFails, ShowMissing, ShowFails
  <2> QED  BY <2>1
<1> QED
  BY <1>3, <1>4, <1>5, <1>6, <1>7, <1>8, <1>9, <1>10 DEF Discover, Load

\* The search takes a bounded number of steps, however another process writes: one
\* for each name and two more for each directory up to "/", and at most five.
THEOREM SearchShortens ==
  Spec => /\ StepsLeft = (Depth + 1) * InDirectory + 5 + MaxMoves
          /\ [][StepsLeft' \in Nat /\ StepsLeft' < StepsLeft]_vars
<1>1. Init => StepsLeft = (Depth + 1) * InDirectory + 5 + MaxMoves
  BY MaxMovesAssumption DEF Init, StepsLeft, RunLeft
<1>2. IInv /\ [Next]_vars => [StepsLeft' \in Nat /\ StepsLeft' < StepsLeft]_vars
  <2> SUFFICES ASSUME IInv, Next, ~UNCHANGED vars
               PROVE  StepsLeft' \in Nat /\ StepsLeft' < StepsLeft
    OBVIOUS
  <2>1. moves \in Nat /\ moves <= MaxMoves /\ MaxMoves \in Nat
    BY MaxMovesAssumption DEF IInv, TypeOK
  <2>2. CASE Discover \/ Load
    BY <2>1, <2>2, RunLeftFalls DEF StepsLeft
  <2>3. CASE Write
    <3>1. RunLeft' = RunLeft /\ moves' = moves + 1 /\ moves < MaxMoves
      BY <2>3 DEF Write, RunLeft
    <3>2. RunLeft \in Nat
      <4>1. /\ Depth \in Nat /\ directory \in Nat /\ NameCount \in Nat
            /\ name \in Nat /\ name <= NameCount + 1
        BY Numbers DEF IInv, TypeOK, Directories
      <4>2. directory * InDirectory \in Nat /\ (Depth + 1) * InDirectory \in Nat
        <5>1. Depth + 1 \in Nat
          BY <4>1
        <5> QED  BY <4>1, <5>1, DirectoryFits
      <4> QED  BY <4>1, <4>2 DEF RunLeft
    <3> QED  BY <2>1, <3>1, <3>2 DEF StepsLeft
  <2> QED  BY <2>2, <2>3 DEF Next, Finished
<1> QED  BY <1>1, <1>2, DiscoveryInvariant, PTL DEF Spec

================================================================================
