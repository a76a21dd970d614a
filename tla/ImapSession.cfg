SPECIFICATION MCSpec
CONSTANTS
  s1 = s1
  s2 = s2
  w1 = w1
  w2 = w2
  None = None
  Sessions = {s1, s2}
  Threads = {w1, w2}
  PoolSize = 1
  Scripts <- MCScripts
INVARIANT OneActivity
INVARIANT NoPlainCommandAfterTLS
PROPERTY ImplementsService
 
PROPERTY DispatchReturns
