SPECIFICATION Spec
CONSTANTS
  Words <- MCWords
  Dashed <- MCDashed
  Banged <- MCBanged
  CommandLines <- MCCommandLines
  FirstCapacity = 2
  MaxFile = 2
  FileLengths = {0, 2, 3}
  MaxWrites = 2
  MaxPatterns = 4
  MaxBytes = 6
  MaxLength = 3
  Size <- MCSize
  AllowLists <- MCAllowLists
INVARIANTS
  ParsedAsWritten
  FileReadWhole
  BudgetKept
  SlotsOwned
  PolicyInOrder
