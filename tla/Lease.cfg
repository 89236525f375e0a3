SPECIFICATION FairSpec
CONSTANT Messages = {m1, m2}
INVARIANTS
  AnswersTrue
  UncertainMeansClaimed
  LeaseHeld
PROPERTIES
  ImplementsContract
  AlwaysAnswered
CHECK_DEADLOCK FALSE
