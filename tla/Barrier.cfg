CONSTANTS
  Threads = {t1, t2, t3}
  MaxRounds = 3
SPECIFICATION Spec
PROPERTIES
  ContractSpec
  EveryCallReturns
