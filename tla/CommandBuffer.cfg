SPECIFICATION Spec
CONSTANTS
  BuffLen = 16
  Requests <- ShortLines
  Garbage <- ShortGarbage
  Fill <- AnyFill
  Beyond <- AnyBeyond
  MaxWrites = 3
INVARIANT TypeOK
PROPERTIES AnswersInOrder AnswersAll
