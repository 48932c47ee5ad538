SPECIFICATION FairSpec
CONSTANTS
  Nil = Nil
  Keys = {ip1}
  Requests = {r1,r2,r3}
  Limit = 3
  Window = 3
INVARIANTS
  TypeOK
  OverrunBounded
PROPERTY KeepsBeingServed
