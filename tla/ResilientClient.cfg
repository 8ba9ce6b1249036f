\* Two request threads; the attempts and the threshold config.py defaults to.
CONSTANTS
  Threads = {t1, t2}
  NoThread = none
  MaxAttempts = 3
  FailMax = 3
SPECIFICATION FairSpec
INVARIANT TypeOK
INVARIANT StreamTellsState
INVARIANT FailureIsEvidenced
PROPERTY NoNetworkWhileOpen
PROPERTY FaultBudget
PROPERTY ImplementsBreaker
PROPERTY LockIsReleased
PROPERTY RecoveryClosesCircuit
