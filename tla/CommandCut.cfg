SPECIFICATION Spec
CONSTANTS
  BuffLen = 10
  Requests <- LongLines
  Garbage <- NoGarbage
  Fill <- AnyFill
  Beyond <- Clean
  MaxWrites = 3
INVARIANT OnlyRequests
