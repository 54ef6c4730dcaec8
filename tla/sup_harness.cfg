\* Both harnesses; timers fire, the operation may hang at every step.
SPECIFICATION FairSpec
CONSTANTS
  r1 = r1
  r2 = r2
  t1 = t1
  t2 = t2
  NoToken = NoToken
  NoRun = NoRun
  Request = {r1, r2}
  Token = {t1, t2}
  TokenOf <- MCTokenOf
  TimeoutOf <- MCTimeoutOf
  MaxTimeout = 2
  Grace = 1
  Remember = 4
  CancelCapacity = 1
INVARIANTS
  TypeOK OneProcess CancelHolds AnswersAreTrue
  ShutdownIsClean
PROPERTIES
  KeepsSlot SlotIsReturned ShutdownSettles
