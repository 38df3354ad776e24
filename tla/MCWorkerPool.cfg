CONSTANTS
  NoTask = NoTask
  r1 = r1
  r2 = r2
  add = add
  sub = sub
  Workers = {w1, w2}
  Requests <- MCRequests
  Methods <- MCMethods
  MethodOf <- MCMethodOf
  Malformed <- MCMalformed
SPECIFICATION FairSpec
INVARIANTS
  TypeOK
  FifoOnce
  NoRequestLost
  WorkConserving
  DrainedOnJoin
PROPERTIES
  ImplementsService
  RequestAnswered
  DestructorReturns
