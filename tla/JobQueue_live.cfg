SPECIFICATION LiveSpec
CONSTANTS
  j1 = j1  j2 = j2  k1 = k1  w1 = w1  w2 = w2  p1 = p1  p2 = p2
  NoKey = NoKey
  NoJob = NoJob
  Job <- OneJob
  Key <- OneKey
  Worker <- TwoWorkers
  Producer <- OneProducer
  MaxAttempts = 2
  Unparsable <- NoRows
  LeaseOutlivesDelivery = FALSE
  MaxDeliveries = 9
  MaxCrashes = 1
  MaxErrors = 1
PROPERTIES
  EveryJobSettles
