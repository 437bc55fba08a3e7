CONSTANTS
  junk = junk
  Junk = junk
  Items <- SmallItems
  Kept <- OddItems
  MaxLen = 5
  GoOrder <- TypeNames
  Literals <- SomeLiterals
  Operations <- PlainOperations
  Loops <- PlainLoops
SPECIFICATION Spec
INVARIANTS SameOutcome TurnsAreBounded
PROPERTIES LoopsEnd LoopsSucceed ImplementsOrderedList
CHECK_DEADLOCK FALSE
