SPECIFICATION ContainersSpec
CONSTANTS
  TableSize = 4
  Keys <- MCKeys
  Values = {v1, v2}
  EmptyKey <- MCEmptyKey
  Null = Null
  Hash <- StrHash
  Tables = {index, saved}
  Others = {saved}
  StartSizes <- MCStartSizes
  NewSizes <- MCNewSizes
  IndexKeys = {0, 3}
  MaxIndex = 2
  MaxIndexSize = 4
  GRANULARITY = 2
  INVALID_INDEX = INVALID_INDEX
  STR_ALLOC_BASE = 3
  STR_ALLOC_GRAN = 4
  Junk = Junk
  Broken = Broken
  StrTexts <- MCStrTexts
  StrParts <- MCStrParts
  StrFilters <- MCStrFilters
  StrNumbers <- MCStrNumbers
  MaxStrCalls = 3
  Arrays = {x1, x2}
  Elements = {v1, v2}
  Blocks = {m1, m2, m3}
  NULL = NULL
  Uninit = Uninit
  AnyElement = AnyElement
  MaxUsed = 2
  MaxArrayCalls = 6
INVARIANTS
  ArraysAsMeant
  StringsAsMeant
PROPERTIES
  ImplementsMap
  CallsReturn
  ImplementsLists
