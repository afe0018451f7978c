-------------------------- MODULE ChangeReader_proofs --------------------------
(***************************************************************************)
(* Memory safety of the list reader, and that a list it accepts is exactly *)
(* the paths of its stream, for streams of every length and all values of  *)
(* the limits.                                                             *)
(***************************************************************************)
EXTENDS ChangeReader, FiniteSetTheorems, WellFoundedInduction, TLAPS

--------------------------------------------------------------------------------
(* The inductive invariant *)

\* The buffer of read_path holds the characters since the last NUL.
BufferIsFieldSoFar ==
  /\ mode = "names" <=> field = "name"
  /\ length <= position
  /\ status # "failed" =>
       \A i \in (position - length + 1)..position : stream[i] # NUL

ReadIsFinished == status = "read" => position = Len(stream) /\ length = 0

IInv ==
  /\ TypeOK
  /\ MemoryBounded
  /\ ListTilesStream
  /\ BufferIsFieldSoFar
  /\ ReadIsFinished

\* The fields whose NUL has been taken.
Closed == {f \in Fields(stream) : f.last < position}

\* The buffer begins where a field does, and the reader is in step with the
\* alternation of headers and paths.
InStep ==
  /\ position # length => stream[position - length] = NUL
  /\ mode = "raw" =>
       /\ field = "header" <=> Cardinality(NulsBefore(stream, position)) % 2 = 0
       /\ field # "header" =>
            (field = "file" <=> AfterFileHeader(stream, position - length))

\* The list is what it should be of the fields closed so far.
ListIsKept ==
  /\ Listed = Kept(mode, stream) \cap Closed
  /\ InOrder
  /\ Cardinality(Listed) = Len(items)

ExactSoFar ==
  /\ status # "failed" => InStep /\ ListIsKept /\ \A f \in Closed : Sized(f)
  /\ status = "read" => field \in {"name", "header"}
  /\ RefusesOnlyMalformed

--------------------------------------------------------------------------------
USE MaxPathAssumption, CapacityAssumption, LimitAssumption, StreamsAssumption

\* grow_changes makes room for at least one more entry and never exceeds the
\* limit, also where doubling would.
LEMMA GrowthMakesRoom ==
  ASSUME NEW current \in Nat, NEW limit \in Nat, current < limit
  PROVE  /\ GrownCapacity(current, limit) \in Nat
         /\ current < GrownCapacity(current, limit)
         /\ GrownCapacity(current, limit) <= limit
<1>1. CASE current = 0
  BY <1>1 DEF GrownCapacity
<1>2. CASE current # 0 /\ current > limit \div 2
  BY <1>2 DEF GrownCapacity
<1>3. CASE current # 0 /\ ~(current > limit \div 2)
  BY <1>3 DEF GrownCapacity
<1> QED  BY <1>1, <1>2, <1>3

LEMMA LimitIsPositive == \A m : Limit(m) \in Nat \ {0}
BY DEF Limit

LEMMA AfterIsNat ==
  ASSUME TypeOK, NEW k \in 0..Len(items)
  PROVE  After(k) \in Nat
<1>1. k # 0 => items[k] \in Intervals
  BY DEF TypeOK
<1> QED  BY <1>1 DEF After, Intervals

LEMMA InitIInv == Init => IInv
<1> SUFFICES ASSUME Init PROVE IInv
  OBVIOUS
<1>1. stream \in Seq(Characters) /\ Len(stream) \in Nat
  BY DEF Init
<1>2. TypeOK
  BY <1>1 DEF Init, TypeOK, Errors, FirstField
<1>3. MemoryBounded
  BY LimitIsPositive DEF Init, MemoryBounded
<1>4. ListTilesStream
  BY DEF Init, ListTilesStream, After
<1>5. BufferIsFieldSoFar /\ ReadIsFinished
  BY DEF Init, BufferIsFieldSoFar, ReadIsFinished, FirstField
<1> QED  BY <1>2, <1>3, <1>4, <1>5 DEF IInv

\* Appending the field that ends here keeps the list inside its allocation.
LEMMA EndOfKeptIInv == IInv /\ EndOfKept => IInv'
<1> SUFFICES ASSUME IInv, EndOfKept PROVE IInv'
  OBVIOUS
<1> USE DEF IInv, EndOfKept, EndOfField, AppendPath, Reading, AtEnd, NextCharacter
<1>1. /\ position \in Nat /\ position < Len(stream) /\ length \in Nat
      /\ length > 0 /\ length <= position
      /\ Len(items) \in Nat /\ Len(items) <= capacity /\ capacity <= Limit(mode)
      /\ Limit(mode) \in Nat /\ capacity \in Nat
  BY LimitIsPositive DEF TypeOK, MemoryBounded, BufferIsFieldSoFar
<1>2. Path \in Intervals /\ Path.first = position - length + 1 /\ Path.last = position
  BY <1>1 DEF Path, Intervals
<1>3. /\ items' = Append(items, Path) /\ items \in Seq(Intervals)
      /\ Len(items') = Len(items) + 1
      /\ \A k \in 1..Len(items) : items'[k] = items[k]
      /\ items'[Len(items')] = Path
  BY <1>2 DEF TypeOK
<1>4. capacity' \in Nat /\ Len(items') <= capacity' /\ capacity' <= Limit(mode')
  <2>1. CASE Len(items) = capacity
    <3>1. capacity < Limit(mode)  BY <1>1, <2>1
    <3>2. /\ GrownCapacity(capacity, Limit(mode)) \in Nat
          /\ capacity < GrownCapacity(capacity, Limit(mode))
          /\ GrownCapacity(capacity, Limit(mode)) <= Limit(mode)
      BY <1>1, <3>1, GrowthMakesRoom
    <3> QED  BY <1>1, <1>3, <2>1, <3>2
  <2>2. CASE Len(items) # capacity
    BY <1>1, <1>3, <2>2
  <2> QED  BY <2>1, <2>2
<1>5. TypeOK'
  <2>1. items' \in Seq(Intervals)  BY <1>2, <1>3
  <2> QED  BY <1>1, <1>4, <2>1 DEF TypeOK, FirstField
<1>6. MemoryBounded'
  BY <1>1, <1>4, MaxPathAssumption DEF MemoryBounded
<1>7. ListTilesStream'
  <2> SUFFICES ASSUME mode = "names"
               PROVE  /\ \A k \in (1..Len(items))' :
                           /\ (items[k].first)' = After(k - 1)' + 1
                           /\ IsField(items[k])'
                      /\ After(Len(items))' + length' = position'
    BY DEF ListTilesStream
  <2>1. /\ \A k \in 1..Len(items) : /\ items[k].first = After(k - 1) + 1
                                    /\ IsField(items[k])
        /\ After(Len(items)) + length = position
    BY DEF ListTilesStream
  <2>2. \A k \in 0..Len(items) : After(k)' = After(k)
    BY <1>3 DEF After
  <2>3. IsField(items[Len(items)])'
    <3>1. \A i \in Path.first..Path.last : stream[i] # NUL
      BY <1>1, <1>2 DEF BufferIsFieldSoFar
    <3>2. /\ Path.first <= Path.last /\ Path.last < Len(stream)
          /\ stream[Path.last + 1] = NUL
      BY <1>1, <1>2
    <3> QED  BY <1>3, <3>1, <3>2 DEF IsField
  <2>4. \A k \in 1..Len(items) : IsField(items[k])'
    BY <1>3, <2>1 DEF IsField
  <2>5. \A k \in 1..Len(items) : items'[k].first = After(k - 1)' + 1
    BY <1>1, <1>3, <2>1, <2>2
  <2>6. Path.first = After(Len(items)) + 1
    <3>1. After(Len(items)) \in Int
      BY <1>1, AfterIsNat
    <3> QED  BY <1>1, <1>2, <2>1, <3>1
  <2>7. After(Len(items))' = position + 1
    BY <1>1, <1>2, <1>3 DEF After
  <2>8. \A k \in (1..Len(items))' : k \in 1..Len(items) \/ k = Len(items')
    BY <1>1, <1>3
  <2>9. ASSUME NEW k \in (1..Len(items))'
        PROVE  (items[k]).first' = After(k - 1)' + 1 /\ IsField(items[k])'
    <3>1. CASE k \in 1..Len(items)  BY <1>1, <1>3, <2>4, <2>5, <3>1
    <3>2. CASE k = Len(items')
      <4>1. k - 1 = Len(items) /\ Len(items) \in 0..Len(items)  BY <1>1, <1>3, <3>2
      <4>2. After(k - 1)' = After(Len(items))  BY <2>2, <4>1
      <4> QED  BY <1>3, <2>3, <2>6, <3>2, <4>2
    <3> QED  BY <2>8, <3>1, <3>2
  <2> QED  BY <1>1, <1>3, <2>7, <2>9
<1>8. BufferIsFieldSoFar' /\ ReadIsFinished'
  BY <1>1 DEF BufferIsFieldSoFar, ReadIsFinished, FirstField, TypeOK
<1> QED  BY <1>5, <1>6, <1>7, <1>8

\* Every other step leaves the list alone.
LEMMA OtherStepsIInv ==
  ASSUME IInv, items' = items, capacity' = capacity, mode' = mode,
         stream' = stream, TypeOK', BufferIsFieldSoFar', ReadIsFinished',
         status' # "failed" => /\ status # "failed"
                               /\ mode = "names" => position' = position + length' - length
  PROVE  IInv'
<1>1. MemoryBounded'
  BY DEF IInv, MemoryBounded, TypeOK
<1>2. ListTilesStream'
  <2> SUFFICES ASSUME mode = "names"
               PROVE  /\ \A k \in (1..Len(items))' :
                           /\ (items[k].first)' = After(k - 1)' + 1
                           /\ IsField(items[k])'
                      /\ status' # "failed" => After(Len(items))' + length' = position'
    BY DEF ListTilesStream
  <2>1. \A k : After(k)' = After(k)
    BY DEF After
  <2>2. \A k \in 1..Len(items) : IsField(items[k])' <=> IsField(items[k])
    BY DEF IsField
  <2>3. Len(items) \in Nat /\ After(Len(items)) \in Int
    BY AfterIsNat DEF IInv, TypeOK
  <2>4. ASSUME status' # "failed" PROVE After(Len(items))' + length' = position'
    <3>1. position' = position + length' - length  BY <2>4
    <3>2. After(Len(items)) + length = position
      BY <2>4 DEF IInv, ListTilesStream
    <3>3. /\ position \in Int /\ length \in Int
          /\ position' \in Int /\ length' \in Int
      BY DEF IInv, TypeOK
    <3>4. After(Len(items))' = After(Len(items))  BY DEF After
    <3>5. After(Len(items)) + length' = position'  BY <2>3, <3>1, <3>2, <3>3
    <3> QED  BY <3>4, <3>5
  <2> QED  BY <2>1, <2>2, <2>4 DEF IInv, ListTilesStream
<1> QED  BY <1>1, <1>2 DEF IInv

LEMMA NextIInv == IInv /\ [Next]_vars => IInv'
<1> SUFFICES ASSUME IInv, [Next]_vars PROVE IInv'
  OBVIOUS
<1> USE DEF Reading, AtEnd, NextCharacter
<1>0. /\ position \in Nat /\ length \in Nat /\ Len(stream) \in Nat
      /\ position <= Len(stream) /\ length <= MaxPath /\ length <= position
  BY DEF IInv, TypeOK, BufferIsFieldSoFar
<1>1. CASE TakeCharacter
  <2>1. TypeOK'  BY <1>0, <1>1 DEF TakeCharacter, IInv, TypeOK
  <2>2. BufferIsFieldSoFar'
    BY <1>0, <1>1 DEF TakeCharacter, IInv, BufferIsFieldSoFar
  <2>3. ReadIsFinished'  BY <1>1 DEF TakeCharacter, ReadIsFinished
  <2> QED  BY <1>0, <1>1, <2>1, <2>2, <2>3, OtherStepsIInv DEF TakeCharacter
<1>2. CASE EndOfKept  BY <1>2, EndOfKeptIInv
<1>3. CASE EndOfSkipped \/ EndOfHeader
  <2> USE DEF EndOfSkipped, EndOfHeader, EndOfField
  <2>1. TypeOK'  BY <1>0, <1>3 DEF IInv, TypeOK
  <2>2. mode # "names"  BY <1>3 DEF IInv, BufferIsFieldSoFar
  <2>3. BufferIsFieldSoFar'
    BY <1>0, <1>3, <2>2 DEF IInv, BufferIsFieldSoFar
  <2>4. ReadIsFinished'  BY <1>3 DEF ReadIsFinished
  <2> QED  BY <1>3, <2>1, <2>2, <2>3, <2>4, OtherStepsIInv
<1>4. CASE EndOfStream
  <2>1. TypeOK'  BY <1>4 DEF EndOfStream, IInv, TypeOK
  <2>2. BufferIsFieldSoFar'
    BY <1>4 DEF EndOfStream, IInv, BufferIsFieldSoFar
  <2>3. ReadIsFinished'  BY <1>4 DEF EndOfStream, ReadIsFinished
  <2> QED  BY <1>0, <1>4, <2>1, <2>2, <2>3, OtherStepsIInv DEF EndOfStream
<1>5. CASE Refuse \/ Fault
  <2> USE DEF Refuse, Fault, RefuseLongPath, RefuseEmptyPath, RefuseOverLimit,
              RefuseUnterminated, RefuseMissingPath, AllocationFails,
              StreamFails, Fail
  <2>1. /\ status' = "failed"
        /\ UNCHANGED <<mode, stream, length, field, items, capacity>>
    BY <1>5
  <2>2. position' \in position..Len(stream)
    <3>1. position' = position \/ (position' = position + 1 /\ ~AtEnd)
      BY <1>5
    <3> QED  BY <1>0, <3>1
  <2>3. error' \in Errors  BY <1>5 DEF Errors
  <2>4. TypeOK'  BY <1>0, <2>1, <2>2, <2>3 DEF IInv, TypeOK
  <2>5. BufferIsFieldSoFar' /\ ReadIsFinished'
    BY <1>0, <2>1, <2>2 DEF IInv, BufferIsFieldSoFar, ReadIsFinished
  <2> QED  BY <2>1, <2>4, <2>5, OtherStepsIInv
<1>6. CASE UNCHANGED vars
  BY <1>6 DEF vars, IInv, TypeOK, MemoryBounded, ListTilesStream,
              BufferIsFieldSoFar, ReadIsFinished, After, IsField
<1> QED
  BY <1>1, <1>2, <1>3, <1>4, <1>5, <1>6 DEF Next, TakeField, Finished

\* The strengthened invariant holds in every reachable state.
THEOREM ChangeReaderInvariant == Spec => []IInv
BY InitIInv, NextIInv, PTL DEF Spec

\* No stream makes the reader write outside its buffer or its list, or hold a
\* list above the limit of its mode.
THEOREM MemorySafety == Spec => []MemoryBounded
<1>1. IInv => MemoryBounded  BY DEF IInv
<1> QED  BY <1>1, ChangeReaderInvariant, PTL

\* The list of names is always a tiling of what was taken from the stream.
THEOREM Tiling == Spec => []ListTilesStream
<1>1. IInv => ListTilesStream  BY DEF IInv
<1> QED  BY <1>1, ChangeReaderInvariant, PTL

--------------------------------------------------------------------------------
(* Fields and NULs of a stream *)

\* Two fields that end at the same NUL are one.
LEMMA FieldsApart ==
  ASSUME NEW s \in Seq(Characters), NEW f \in Fields(s), NEW g \in Fields(s),
         f.last = g.last
  PROVE  f = g
<1>1. /\ f \in [first : 1..Len(s), last : 0..Len(s)]
      /\ g \in [first : 1..Len(s), last : 0..Len(s)]
  BY DEF Fields
<1>2. /\ f.first \in Nat /\ f.last \in Nat /\ g.first \in Nat /\ Len(s) \in Nat
      /\ 1 <= f.first /\ f.first <= f.last + 1 /\ 1 <= g.first /\ g.first <= f.last + 1
  BY DEF Fields
<1>3. ~(f.first < g.first)
  <2> SUFFICES ASSUME f.first < g.first PROVE FALSE
    OBVIOUS
  <2>1. g.first - 1 \in f.first..f.last  BY <1>2
  <2>2. g.first # 1  BY <1>2
  <2> QED  BY <2>1, <2>2 DEF Fields
<1>4. ~(g.first < f.first)
  <2> SUFFICES ASSUME g.first < f.first PROVE FALSE
    OBVIOUS
  <2>1. f.first - 1 \in g.first..g.last  BY <1>2
  <2>2. f.first # 1  BY <1>2
  <2> QED  BY <2>1, <2>2 DEF Fields
<1>5. f.first = g.first  BY <1>2, <1>3, <1>4
<1> QED  BY <1>1, <1>5

LEMMA FieldsFinite ==
  ASSUME NEW s \in Seq(Characters)
  PROVE  IsFiniteSet(Fields(s))
<1> DEFINE end == [f \in Fields(s) |-> f.last]
<1>1. end \in [Fields(s) -> 0..Len(s)]
  BY DEF Fields
<1>2. \A f, g \in Fields(s) : end[f] = end[g] => f = g
  BY FieldsApart
<1>3. end \in Injection(Fields(s), 0..Len(s))
  BY <1>1, <1>2 DEF Injection, IsInjective
<1>4. IsFiniteSet(0..Len(s))
  BY FS_Interval
<1> HIDE DEF end
<1> QED  BY <1>3, <1>4, FS_Injection

LEMMA NulsCounted ==
  ASSUME NEW s, NEW end \in Nat
  PROVE  /\ IsFiniteSet(NulsBefore(s, end))
         /\ Cardinality(NulsBefore(s, end)) \in Nat
<1>1. IsFiniteSet(1..end)
  BY FS_Interval
<1>2. NulsBefore(s, end) \subseteq 1..end
  BY DEF NulsBefore
<1> QED  BY <1>1, <1>2, FS_Subset, FS_CardinalityType

\* One more character counts when it is a NUL.
LEMMA NulsGrow ==
  ASSUME NEW s, NEW end \in Nat
  PROVE  Cardinality(NulsBefore(s, end + 1)) =
           IF s[end + 1] = NUL THEN Cardinality(NulsBefore(s, end)) + 1
                               ELSE Cardinality(NulsBefore(s, end))
<1>1. CASE s[end + 1] = NUL
  <2>1. NulsBefore(s, end + 1) = NulsBefore(s, end) \cup {end + 1}
    BY <1>1 DEF NulsBefore
  <2>2. end + 1 \notin NulsBefore(s, end)
    BY DEF NulsBefore
  <2> QED  BY <1>1, <2>1, <2>2, NulsCounted, FS_AddElement
<1>2. CASE s[end + 1] # NUL
  <2>1. NulsBefore(s, end + 1) = NulsBefore(s, end)
    BY <1>2 DEF NulsBefore
  <2> QED  BY <1>2, <2>1
<1> QED  BY <1>1, <1>2

\* A terminated stream has a first NUL after each of its places.
LEMMA FirstNul ==
  ASSUME NEW s \in Seq(Characters), NEW place \in Nat, place < Len(s), s[Len(s)] = NUL
  PROVE  \E e \in (place + 1)..Len(s) :
            s[e] = NUL /\ \A i \in (place + 1)..(e - 1) : s[i] # NUL
<1> DEFINE nuls == {e \in (place + 1)..Len(s) : s[e] = NUL}
           below == OpToRel(<, Nat)
<1>1. IsWellFoundedOn(below, Nat)
  BY NatLessThanWellFounded
<1>2. \A x, y \in Nat : y < x => <<y, x>> \in below
  BY DEF OpToRel
<1> HIDE DEF below
<1>3. Len(s) \in nuls /\ nuls \subseteq Nat
  OBVIOUS
<1>4. PICK e \in nuls : \A y \in nuls : ~(<<y, e>> \in below)
  <2> HIDE DEF nuls
  <2> QED  BY <1>1, <1>3, WFMin
<1>5. \A i \in (place + 1)..(e - 1) : s[i] # NUL
  <2> SUFFICES ASSUME NEW i \in (place + 1)..(e - 1), s[i] = NUL PROVE FALSE
    OBVIOUS
  <2>1. i \in nuls /\ i < e /\ i \in Nat /\ e \in Nat
    OBVIOUS
  <2> QED  BY <1>2, <1>4, <2>1
<1> QED  BY <1>4, <1>5

--------------------------------------------------------------------------------
(* The list is the fields that should be kept *)

LEMMA ListedFinite ==
  ASSUME IInv, ListIsKept
  PROVE  IsFiniteSet(Listed) /\ Listed \subseteq Fields(stream)
<1>1. Listed \subseteq Fields(stream)
  BY DEF ListIsKept, Kept
<1>2. IsFiniteSet(Fields(stream))
  BY FieldsFinite DEF IInv, TypeOK
<1> QED  BY <1>1, <1>2, FS_Subset

\* At a NUL the buffer is a field, and the only one that closes here.
LEMMA FieldCloses ==
  ASSUME IInv, InStep, Reading, ~AtEnd, NextCharacter = NUL
  PROVE  /\ Path \in Fields(stream) /\ Path \notin Closed
         /\ {f \in Fields(stream) : f.last < position + 1} = Closed \cup {Path}
         /\ Sized(Path) <=> length > 0
<1>1. /\ stream \in Seq(Characters) /\ Len(stream) \in Nat
      /\ position \in Nat /\ position < Len(stream) /\ MaxPath \in Nat
      /\ length \in Nat /\ length <= position /\ length <= MaxPath
  BY DEF IInv, TypeOK, BufferIsFieldSoFar, AtEnd
<1>2. /\ Path = [first |-> position - length + 1, last |-> position]
      /\ position - length + 1 \in 1..Len(stream) /\ position \in 0..Len(stream)
  BY <1>1 DEF Path
<1>3. Path \in Fields(stream)
  <2>1. Path \in [first : 1..Len(stream), last : 0..Len(stream)]
    BY <1>2
  <2>2. Path.first = 1 \/ stream[Path.first - 1] = NUL
    <3>1. Path.first - 1 = position - length  BY <1>1, <1>2
    <3>2. position = length => Path.first = 1  BY <1>1, <1>2
    <3> QED  BY <3>1, <3>2 DEF InStep
  <2>3. \A i \in Path.first..Path.last : stream[i] # NUL
    BY <1>2 DEF IInv, BufferIsFieldSoFar, Reading
  <2>4. Path.first <= Path.last + 1 /\ Path.last < Len(stream)
    BY <1>1, <1>2
  <2>5. stream[Path.last + 1] = NUL
    BY <1>2 DEF NextCharacter
  <2> QED  BY <2>1, <2>2, <2>3, <2>4, <2>5 DEF Fields
<1>4. Path \notin Closed
  BY <1>1, <1>2 DEF Closed
<1>5. ASSUME NEW f \in Fields(stream)
      PROVE  f.last < position + 1 <=> f.last < position \/ f = Path
  <2>1. f.last \in Nat  BY DEF Fields
  <2>2. f.last < position + 1 <=> f.last < position \/ f.last = position
    BY <1>1, <2>1
  <2>3. f.last = position <=> f = Path
    BY <1>1, <1>2, <1>3, FieldsApart
  <2> QED  BY <2>2, <2>3
<1>6. {f \in Fields(stream) : f.last < position + 1} = Closed \cup {Path}
  BY <1>3, <1>5 DEF Closed
<1>7. Sized(Path) <=> length > 0
  BY <1>1, <1>2 DEF Sized
<1> QED  BY <1>3, <1>4, <1>6, <1>7

\* The reader keeps a field that closes exactly when it should.
LEMMA KeepsTheRightOnes ==
  ASSUME IInv, InStep, Reading, ~AtEnd, NextCharacter = NUL
  PROVE  Path \in Kept(mode, stream) <=> field \in {"name", "file"}
<1>1. /\ position \in Nat /\ length \in Nat /\ length <= position
      /\ mode \in {"names", "raw"} /\ field \in {"name", "header", "file", "skip"}
      /\ mode = "names" <=> field = "name"
  BY DEF IInv, TypeOK, BufferIsFieldSoFar
<1>2. Path \in Fields(stream)
  BY FieldCloses
<1>3. CASE mode = "names"
  BY <1>1, <1>2, <1>3 DEF Kept
<1>4. CASE mode = "raw"
  <2>1. Path \in Kept(mode, stream) <=> IsAddedFile(stream, Path)
    BY <1>2, <1>4 DEF Kept
  <2>2. Path.last = position /\ Path.first - 1 = position - length
    BY <1>1 DEF Path
  <2>3. IsAddedFile(stream, Path) <=>
          /\ Cardinality(NulsBefore(stream, position)) % 2 = 1
          /\ AfterFileHeader(stream, position - length)
    BY <2>2 DEF IsAddedFile
  <2>4. Cardinality(NulsBefore(stream, position)) \in Nat
    BY <1>1, NulsCounted
  <2>5. field = "header" <=> Cardinality(NulsBefore(stream, position)) % 2 # 1
    BY <1>4, <2>4 DEF InStep
  <2>6. field # "header" =>
          (field = "file" <=> AfterFileHeader(stream, position - length))
    BY <1>4 DEF InStep
  <2> QED  BY <1>1, <1>4, <2>1, <2>3, <2>5, <2>6
<1> QED  BY <1>1, <1>3, <1>4

LEMMA InitExact == Init => ExactSoFar
<1> SUFFICES ASSUME Init PROVE ExactSoFar
  OBVIOUS
<1>1. NulsBefore(stream, 0) = {} /\ Cardinality(NulsBefore(stream, 0)) = 0
  BY FS_EmptySet DEF NulsBefore
<1>2. InStep
  BY <1>1 DEF Init, InStep, FirstField
<1>3. Closed = {}
  BY DEF Init, Closed, Fields
<1>4. items = <<>> /\ Len(items) = 0
  BY DEF Init
<1>5. Listed = {} /\ InOrder
  BY <1>4 DEF Listed, InOrder
<1>6. Cardinality(Listed) = Len(items)
  BY <1>4, <1>5, FS_EmptySet
<1> QED
  BY <1>2, <1>3, <1>5, <1>6 DEF Init, ExactSoFar, ListIsKept, RefusesOnlyMalformed

LEMMA TakeExact == IInv /\ ExactSoFar /\ TakeCharacter => ExactSoFar'
<1> SUFFICES ASSUME IInv, ExactSoFar, TakeCharacter PROVE ExactSoFar'
  OBVIOUS
<1> USE DEF TakeCharacter, Reading, NextCharacter
<1>1. InStep /\ ListIsKept /\ \A f \in Closed : Sized(f)
  BY DEF ExactSoFar
<1>2. /\ position \in Nat /\ length \in Nat /\ length <= position
      /\ position' = position + 1 /\ length' = length + 1
      /\ stream[position + 1] # NUL
  BY DEF IInv, TypeOK, BufferIsFieldSoFar
<1>3. Closed' = Closed
  <2>1. ASSUME NEW f \in Fields(stream)
        PROVE  f.last < position + 1 <=> f.last < position
    <3>1. f.last \in Nat /\ f.last # position  BY <1>2 DEF Fields
    <3> QED  BY <1>2, <3>1
  <2> QED  BY <1>2, <2>1 DEF Closed
<1>4. InStep'
  <2>1. Cardinality(NulsBefore(stream, position + 1))
          = Cardinality(NulsBefore(stream, position))
    BY <1>2, NulsGrow
  <2>2. position' - length' = position - length
        /\ (position' # length' => position # length)
    BY <1>2
  <2> QED  BY <1>1, <1>2, <2>1, <2>2 DEF InStep
<1>5. ListIsKept'
  BY <1>1, <1>3 DEF ListIsKept, Listed, InOrder
<1>6. \A f \in Closed' : Sized(f)
  BY <1>1, <1>3
<1>7. status' = "reading"
  OBVIOUS
<1> QED  BY <1>4, <1>5, <1>6, <1>7 DEF ExactSoFar, RefusesOnlyMalformed

\* What every way to end a field has in common.
LEMMA FieldEnds ==
  ASSUME IInv, ExactSoFar, EndOfField, stream' = stream, status' = status
  PROVE  /\ Closed' = Closed \cup {Path}
         /\ \A f \in Closed' : Sized(f)
         /\ position' # length' => stream'[position' - length'] = NUL
         /\ mode = "raw" =>
              (field = "header" <=> Cardinality(NulsBefore(stream', position')) % 2 = 1)
         /\ AfterFileHeader(stream', position' - length')
              <=> stream[position - length + 1] = FileMark
<1> USE DEF EndOfField
<1>1. InStep /\ ListIsKept /\ \A f \in Closed : Sized(f)
  BY DEF ExactSoFar, Reading
<1>2. /\ position \in Nat /\ length \in Nat /\ length <= position
      /\ position' = position + 1 /\ length' = 0 /\ position' - length' = position + 1
      /\ stream[position + 1] = NUL
  BY DEF IInv, TypeOK, BufferIsFieldSoFar, NextCharacter
<1>3. /\ Path \in Fields(stream) /\ Sized(Path)
      /\ {f \in Fields(stream) : f.last < position + 1} = Closed \cup {Path}
  BY <1>1, FieldCloses
<1>4. Closed' = Closed \cup {Path}
  BY <1>2, <1>3 DEF Closed
<1>5. \A f \in Closed' : Sized(f)
  BY <1>1, <1>3, <1>4
<1>6. position' # length' => stream'[position' - length'] = NUL
  BY <1>2
<1>7. mode = "raw" =>
        (field = "header" <=> Cardinality(NulsBefore(stream', position')) % 2 = 1)
  <2> SUFFICES ASSUME mode = "raw"
               PROVE  field = "header"
                        <=> Cardinality(NulsBefore(stream, position + 1)) % 2 = 1
    BY <1>2
  <2> DEFINE before == Cardinality(NulsBefore(stream, position))
  <2>1. before \in Nat /\ Cardinality(NulsBefore(stream, position + 1)) = before + 1
    BY <1>2, NulsCounted, NulsGrow
  <2>2. field = "header" <=> before % 2 = 0
    BY <1>1 DEF InStep
  <2> HIDE DEF before
  <2>3. before % 2 = 0 <=> (before + 1) % 2 = 1
    BY <2>1
  <2> QED  BY <2>1, <2>2, <2>3
<1>8. AfterFileHeader(stream', position' - length')
        <=> stream[position - length + 1] = FileMark
  <2>1. Path.last + 1 = position + 1 /\ Path.first = position - length + 1
    BY <1>2 DEF Path
  <2>2. ASSUME NEW h \in Fields(stream), h.last + 1 = position + 1
        PROVE  h = Path
    <3>1. h.last = Path.last
      <4>1. h.last \in Nat /\ Path.last \in Nat  BY <1>3 DEF Fields
      <4> QED  BY <2>1, <2>2, <4>1
    <3> QED  BY <1>3, <3>1, FieldsApart DEF IInv, TypeOK
  <2> QED  BY <1>2, <1>3, <2>1, <2>2 DEF AfterFileHeader
<1> QED  BY <1>4, <1>5, <1>6, <1>7, <1>8

LEMMA KeptExact == IInv /\ ExactSoFar /\ EndOfKept => ExactSoFar'
<1> SUFFICES ASSUME IInv, ExactSoFar, EndOfKept PROVE ExactSoFar'
  OBVIOUS
<1> USE DEF EndOfKept
<1>1. InStep /\ ListIsKept
  BY DEF ExactSoFar, EndOfField, Reading
<1>2. EndOfField /\ stream' = stream /\ status' = status /\ mode' = mode
      /\ field \in {"name", "file"} /\ field' = FirstField(mode)
  OBVIOUS
<1>3. /\ Closed' = Closed \cup {Path}
      /\ \A f \in Closed' : Sized(f)
      /\ position' # length' => stream'[position' - length'] = NUL
      /\ mode = "raw" =>
           (field = "header" <=> Cardinality(NulsBefore(stream', position')) % 2 = 1)
  BY <1>2, FieldEnds
<1>4. Path \in Kept(mode, stream) /\ Path \notin Closed
  BY <1>1, <1>2, FieldCloses, KeepsTheRightOnes DEF EndOfField
<1>5. /\ items' = Append(items, Path) /\ items \in Seq(Intervals) /\ Path \in Intervals
      /\ Len(items) \in Nat /\ Len(items') = Len(items) + 1
      /\ \A k \in 1..Len(items) : items'[k] = items[k]
      /\ items'[Len(items')] = Path
  <2>1. Path \in Intervals
    BY DEF Path, Intervals, IInv, TypeOK, BufferIsFieldSoFar
  <2> QED  BY <2>1 DEF AppendPath, IInv, TypeOK
<1>6. Listed' = Listed \cup {Path}
  <2>1. 1..Len(items') = 1..Len(items) \cup {Len(items')}
    BY <1>5
  <2>2. Len(items') \in 1..Len(items')
    BY <1>5
  <2>3. ASSUME NEW x PROVE x \in Listed' <=> x \in Listed \cup {Path}
    BY <1>5, <2>1, <2>2 DEF Listed
  <2> QED  BY <2>3
<1>7. Cardinality(Listed') = Len(items')
  <2>1. Path \notin Listed
    BY <1>1, <1>4 DEF ListIsKept
  <2>2. IsFiniteSet(Listed)
    BY <1>1, ListedFinite
  <2>3. Cardinality(Listed \cup {Path}) = Cardinality(Listed) + 1
    BY <2>1, <2>2, FS_AddElement
  <2>4. Cardinality(Listed) = Len(items)
    BY <1>1 DEF ListIsKept
  <2> QED  BY <1>5, <1>6, <2>3, <2>4
<1>8. InOrder'
  <2> SUFFICES ASSUME NEW j \in 1..Len(items'), NEW k \in 1..Len(items'), j < k
               PROVE  items'[j].last < items'[k].first
    BY DEF InOrder
  <2>1. CASE k \in 1..Len(items)
    <3>1. j \in 1..Len(items)
      BY <1>5, <2>1
    <3>2. items'[j] = items[j] /\ items'[k] = items[k]
      BY <1>5, <2>1, <3>1
    <3>3. items[j].last < items[k].first
      BY <1>1, <2>1, <3>1 DEF ListIsKept, InOrder
    <3> QED  BY <3>2, <3>3
  <2>2. CASE k = Len(items')
    <3>1. j \in 1..Len(items) /\ items'[j] = items[j] /\ items'[k] = Path
      BY <1>5, <2>2
    <3>2. items[j] \in Closed /\ Path \in Fields(stream) /\ Path.last = position
      BY <1>1, <1>4, <3>1 DEF ListIsKept, Listed, Kept, Path
    <3> DEFINE f == items[j]
               g == Path
    <3>3. /\ f.last \in Nat /\ g.first \in Nat /\ g.first # 0 /\ g.last \in Nat
          /\ f.last < g.last /\ stream[f.last + 1] = NUL
          /\ \A i \in g.first..g.last : stream[i] # NUL
      BY <3>2 DEF Closed, Fields
    <3> HIDE DEF f, g
    <3>4. f.last + 1 \in Nat /\ f.last + 1 <= g.last /\ ~(f.last + 1 \in g.first..g.last)
      BY <3>3
    <3>5. f.last < g.first
      BY <3>3, <3>4
    <3> QED  BY <3>1, <3>5 DEF f, g
  <2> QED  BY <1>5, <2>1, <2>2
<1>9. ListIsKept'
  <2>1. Listed' = Kept(mode', stream') \cap Closed'
    BY <1>1, <1>2, <1>3, <1>4, <1>6 DEF ListIsKept
  <2> QED  BY <1>7, <1>8, <2>1 DEF ListIsKept
<1>10. InStep'
  <2>1. mode = "raw" => field = "file" /\ field' = "header"
    BY <1>2 DEF FirstField, IInv, BufferIsFieldSoFar
  <2>2. mode = "raw" => Cardinality(NulsBefore(stream', position')) % 2 = 0
    <3>1. position' \in Nat  BY DEF EndOfField, IInv, TypeOK
    <3>2. Cardinality(NulsBefore(stream', position')) \in Nat  BY <3>1, NulsCounted
    <3> QED  BY <1>3, <2>1, <3>2
  <2> QED  BY <1>2, <1>3, <2>1, <2>2 DEF InStep
<1>11. status' = "reading"
  BY DEF EndOfField, Reading
<1> QED  BY <1>3, <1>9, <1>10, <1>11 DEF ExactSoFar, RefusesOnlyMalformed

LEMMA NotKeptExact == IInv /\ ExactSoFar /\ (EndOfSkipped \/ EndOfHeader) => ExactSoFar'
<1> SUFFICES ASSUME IInv, ExactSoFar, EndOfSkipped \/ EndOfHeader PROVE ExactSoFar'
  OBVIOUS
<1> USE DEF EndOfSkipped, EndOfHeader
<1>1. InStep /\ ListIsKept
  BY DEF ExactSoFar, EndOfField, Reading
<1>2. /\ EndOfField /\ stream' = stream /\ status' = status /\ mode' = mode
      /\ items' = items /\ field \in {"skip", "header"}
  OBVIOUS
<1>3. /\ Closed' = Closed \cup {Path}
      /\ \A f \in Closed' : Sized(f)
      /\ position' # length' => stream'[position' - length'] = NUL
      /\ mode = "raw" =>
           (field = "header" <=> Cardinality(NulsBefore(stream', position')) % 2 = 1)
      /\ AfterFileHeader(stream', position' - length')
           <=> stream[position - length + 1] = FileMark
  BY <1>2, FieldEnds
<1>4. Path \notin Kept(mode, stream)
  BY <1>1, <1>2, KeepsTheRightOnes DEF EndOfField
<1>5. ListIsKept'
  <2>1. Listed' = Listed /\ InOrder' = InOrder
    BY <1>2 DEF Listed, InOrder
  <2>2. Kept(mode', stream') \cap Closed' = Kept(mode, stream) \cap Closed
    BY <1>2, <1>3, <1>4
  <2> QED  BY <1>1, <1>2, <2>1, <2>2 DEF ListIsKept
<1>6. InStep'
  <2>1. position' \in Nat  BY DEF EndOfField, IInv, TypeOK
  <2>2. Cardinality(NulsBefore(stream', position')) \in Nat
    BY <2>1, NulsCounted
  <2>3. mode' = "raw" =>
          (field' = "header" <=> Cardinality(NulsBefore(stream', position')) % 2 = 0)
    BY <1>2, <1>3, <2>2
  <2>4. field' # "header" =>
          (field' = "file" <=> AfterFileHeader(stream', position' - length'))
    BY <1>2, <1>3
  <2> QED  BY <1>3, <2>3, <2>4 DEF InStep
<1>7. status' = "reading"
  BY DEF EndOfField, Reading
<1> QED  BY <1>3, <1>5, <1>6, <1>7 DEF ExactSoFar, RefusesOnlyMalformed

--------------------------------------------------------------------------------
(* What is refused *)

LEMMA LongPathMalformed ==
  IInv /\ ExactSoFar /\ RefuseLongPath => ~WellFormed(mode, stream)
<1> SUFFICES ASSUME IInv, ExactSoFar, RefuseLongPath, WellFormed(mode, stream)
             PROVE  FALSE
  OBVIOUS
<1>0. Reading /\ ~AtEnd /\ NextCharacter # NUL /\ length = MaxPath
  BY Zenon DEF RefuseLongPath
<1> USE <1>0 DEF Reading, AtEnd, NextCharacter
<1>1. /\ stream \in Seq(Characters) /\ Len(stream) \in Nat
      /\ position \in Nat /\ position < Len(stream) /\ stream[position + 1] # NUL
      /\ length \in Nat /\ length <= position /\ length = MaxPath /\ MaxPath \in Nat
  BY DEF IInv, TypeOK, BufferIsFieldSoFar
<1>2. stream[Len(stream)] = NUL
  BY <1>1 DEF WellFormed
<1>3. PICK e \in (position + 1)..Len(stream) :
        stream[e] = NUL /\ \A i \in (position + 1)..(e - 1) : stream[i] # NUL
  BY <1>1, <1>2, FirstNul
<1>4. e \in Nat /\ e > position + 1
  BY <1>1, <1>3
<1> DEFINE f == [first |-> position - length + 1, last |-> e - 1]
<1>5. f \in Fields(stream)
  <2>1. f \in [first : 1..Len(stream), last : 0..Len(stream)]
    BY <1>1, <1>4
  <2>2. f.first = 1 \/ stream[f.first - 1] = NUL
    <3>1. f.first - 1 = position - length /\ (position = length => f.first = 1)
      BY <1>1
    <3>2. position # length => stream[position - length] = NUL
      BY DEF ExactSoFar, InStep
    <3> QED  BY <3>1, <3>2
  <2>3. f.first <= f.last + 1 /\ f.last < Len(stream) /\ f.last + 1 = e
    BY <1>1, <1>4
  <2>4. \A i \in (position - length + 1)..position : stream[i] # NUL
    BY DEF IInv, BufferIsFieldSoFar
  <2>5. ASSUME NEW i \in f.first..f.last PROVE stream[i] # NUL
    <3>1. i \in (position - length + 1)..position \/ i \in (position + 1)..(e - 1)
      BY <1>1, <1>4
    <3> QED  BY <1>3, <2>4, <3>1
  <2> HIDE DEF f
  <2> QED  BY <1>3, <2>1, <2>2, <2>3, <2>5 DEF Fields
<1>6. ~Sized(f)
  BY <1>1, <1>4 DEF Sized
<1> QED  BY <1>5, <1>6 DEF WellFormed

LEMMA OverLimitMalformed ==
  IInv /\ ExactSoFar /\ RefuseOverLimit => ~WellFormed(mode, stream)
<1> SUFFICES ASSUME IInv, ExactSoFar, RefuseOverLimit
             PROVE  ~(Cardinality(Kept(mode, stream)) <= Limit(mode))
  BY DEF WellFormed
<1>0. /\ Reading /\ ~AtEnd /\ NextCharacter = NUL
      /\ field \in {"name", "file"} /\ Len(items) = Limit(mode)
  BY Zenon DEF RefuseOverLimit
<1> USE <1>0
<1>1. InStep /\ ListIsKept
  BY DEF ExactSoFar, Reading
<1>2. Path \in Kept(mode, stream) /\ Path \notin Closed
  BY <1>1, FieldCloses, KeepsTheRightOnes
<1>3. IsFiniteSet(Listed) /\ Path \notin Listed /\ Listed \cup {Path} \subseteq Kept(mode, stream)
  BY <1>1, <1>2, ListedFinite DEF ListIsKept
<1>4. Cardinality(Listed \cup {Path}) = Limit(mode) + 1
  BY <1>1, <1>3, FS_AddElement DEF ListIsKept
<1>5. IsFiniteSet(Kept(mode, stream))
  <2>1. IsFiniteSet(Fields(stream))
    BY FieldsFinite DEF IInv, TypeOK
  <2> QED  BY <2>1, FS_Subset DEF Kept
<1>6. Cardinality(Listed \cup {Path}) <= Cardinality(Kept(mode, stream))
      /\ Cardinality(Kept(mode, stream)) \in Nat
  BY <1>3, <1>5, FS_Subset, FS_CardinalityType
<1> QED  BY <1>4, <1>6, LimitIsPositive

\* Whatever the reader refuses of its own accord is not well formed.
LEMMA RefusedMalformed == IInv /\ ExactSoFar /\ Refuse => ~WellFormed(mode, stream)
<1> SUFFICES ASSUME IInv, ExactSoFar, Refuse PROVE ~WellFormed(mode, stream)
  OBVIOUS
<1>0. /\ position \in Nat /\ length \in Nat /\ length <= position
      /\ stream \in Seq(Characters) /\ Len(stream) \in Nat
  BY DEF IInv, TypeOK, BufferIsFieldSoFar
<1>1. CASE RefuseLongPath
  BY <1>1, LongPathMalformed
<1>2. CASE RefuseEmptyPath
  <2>0. Reading /\ ~AtEnd /\ NextCharacter = NUL /\ length = 0
    BY <1>2, Zenon DEF RefuseEmptyPath
  <2>1. InStep  BY <2>0 DEF ExactSoFar, Reading
  <2>2. Path \in Fields(stream) /\ (Sized(Path) <=> length > 0)
    BY <2>0, <2>1, FieldCloses
  <2>3. ~Sized(Path)
    BY <2>0, <2>2
  <2> QED  BY <2>2, <2>3 DEF WellFormed
<1>3. CASE RefuseOverLimit
  BY <1>3, OverLimitMalformed
<1>4. CASE RefuseUnterminated
  <2>1. position = Len(stream) /\ length > 0 /\ status # "failed"
    BY <1>4 DEF RefuseUnterminated, AtEnd, Reading
  <2>2. position \in (position - length + 1)..position
    BY <1>0, <2>1
  <2>3. stream[Len(stream)] # NUL
    BY <2>1, <2>2 DEF IInv, BufferIsFieldSoFar
  <2>4. stream # <<>>
    BY <1>0, <2>1
  <2> QED  BY <2>3, <2>4 DEF WellFormed
<1>5. CASE RefuseMissingPath
  <2>1. position = Len(stream) /\ field \in {"file", "skip"} /\ status # "failed"
    BY <1>5 DEF RefuseMissingPath, AtEnd, Reading
  <2>2. mode = "raw"
    BY <2>1 DEF IInv, TypeOK, BufferIsFieldSoFar
  <2>3. Cardinality(NulsBefore(stream, Len(stream))) % 2 # 0
    BY <2>1, <2>2 DEF ExactSoFar, InStep
  <2> QED  BY <2>2, <2>3 DEF WellFormed
<1> QED  BY <1>1, <1>2, <1>3, <1>4, <1>5 DEF Refuse

LEMMA NextExact == IInv /\ ExactSoFar /\ [Next]_vars => ExactSoFar'
<1> SUFFICES ASSUME IInv, ExactSoFar, [Next]_vars PROVE ExactSoFar'
  OBVIOUS
<1>1. CASE TakeCharacter  BY <1>1, TakeExact
<1>2. CASE TakeField      BY <1>2, KeptExact, NotKeptExact DEF TakeField
<1>3. CASE EndOfStream
  <2> USE DEF EndOfStream
  <2>1. UNCHANGED <<mode, stream, position, length, field, items>> /\ status' = "read"
        /\ status # "failed" /\ field \in {"name", "header"}
    BY <1>3 DEF Reading
  <2>2. InStep' /\ ListIsKept' /\ Closed' = Closed
    BY <2>1 DEF ExactSoFar, InStep, ListIsKept, Listed, InOrder, Closed
  <2> QED  BY <2>1, <2>2 DEF ExactSoFar, RefusesOnlyMalformed
<1>4. CASE Refuse
  <2>1. ~WellFormed(mode, stream)
    BY <1>4, RefusedMalformed
  <2>2. status' = "failed" /\ mode' = mode /\ stream' = stream
    BY <1>4 DEF Refuse, RefuseLongPath, RefuseEmptyPath, RefuseOverLimit,
                RefuseUnterminated, RefuseMissingPath, Fail
  <2> QED  BY <2>1, <2>2 DEF ExactSoFar, RefusesOnlyMalformed
<1>5. CASE Fault
  <2>1. status' = "failed" /\ error' \in {"memory", "stream"}
    BY <1>5 DEF Fault, AllocationFails, StreamFails, Fail
  <2> QED  BY <2>1 DEF ExactSoFar, RefusesOnlyMalformed
<1>6. CASE UNCHANGED vars
  <2>1. InStep' = InStep /\ ListIsKept' = ListIsKept /\ Closed' = Closed
    BY <1>6 DEF vars, InStep, ListIsKept, Listed, InOrder, Closed
  <2> QED  BY <1>6, <2>1 DEF vars, ExactSoFar, RefusesOnlyMalformed
<1> QED  BY <1>1, <1>2, <1>3, <1>4, <1>5, <1>6 DEF Next, Finished

\* The loop invariant of the two readers, with what was refused.
THEOREM ExactInvariant == Spec => []ExactSoFar
BY InitExact, NextExact, ChangeReaderInvariant, PTL DEF Spec

\* Only the system or the stream itself can make the reader refuse.
THEOREM RefusalsJustified == Spec => []RefusesOnlyMalformed
<1>1. ExactSoFar => RefusesOnlyMalformed  BY DEF ExactSoFar
<1> QED  BY <1>1, ExactInvariant, PTL

\* An accepted list is well formed and holds exactly the fields it should, in
\* the order of the stream, in both modes.
THEOREM AcceptedExactly == Spec => []AcceptsExactlyTheFields
<1>1. IInv /\ ExactSoFar => AcceptsExactlyTheFields
  <2> SUFFICES ASSUME IInv, ExactSoFar, status = "read"
               PROVE  WellFormed(mode, stream) /\ Listed = Kept(mode, stream) /\ InOrder
    BY DEF AcceptsExactlyTheFields
  <2>1. /\ position = Len(stream) /\ length = 0 /\ Len(stream) \in Nat
        /\ stream \in Seq(Characters)
        /\ InStep /\ ListIsKept /\ (\A f \in Closed : Sized(f))
        /\ field \in {"name", "header"}
    BY DEF ExactSoFar, IInv, ReadIsFinished, TypeOK
  <2>2. Closed = Fields(stream)
    BY <2>1 DEF Closed, Fields
  <2>3. Listed = Kept(mode, stream) /\ InOrder
    BY <2>1, <2>2 DEF ListIsKept, Kept
  <2>4. Cardinality(Kept(mode, stream)) <= Limit(mode)
    <3>1. Len(items) \in Nat /\ Len(items) <= capacity /\ capacity \in Nat
          /\ capacity <= Limit(mode)
      BY DEF IInv, TypeOK, MemoryBounded
    <3>2. Cardinality(Listed) = Len(items)
      BY <2>1 DEF ListIsKept
    <3>3. Limit(mode) \in Nat
      BY LimitIsPositive
    <3>4. Len(items) <= Limit(mode)
      BY <3>1, <3>3
    <3> QED  BY <2>3, <3>2, <3>4
  <2>5. stream # <<>> => stream[Len(stream)] = NUL
    BY <2>1 DEF InStep
  <2>6. mode = "raw" => Cardinality(NulsBefore(stream, Len(stream))) % 2 = 0
    BY <2>1 DEF InStep, IInv, BufferIsFieldSoFar
  <2> QED  BY <2>1, <2>2, <2>3, <2>4, <2>5, <2>6 DEF WellFormed
<1> QED  BY <1>1, ExactInvariant, ChangeReaderInvariant, PTL

================================================================================
