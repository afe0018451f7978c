SPECIFICATION Spec
CONSTANTS
  MaxPath = 2
  FirstCapacity = 2
  NamesLimit = 3
  RawLimit = 2
  Streams <- MCStreams
INVARIANTS
  MemoryBounded
  ListTilesStream
  AcceptsExactlyTheFields
  RefusesOnlyMalformed
