SPECIFICATION ClientFairSpec
CONSTANTS
  ha = ha
  hb = hb
  k1 = k1
  k2 = k2
  v = v
  Nothing = Nothing
  Key = {k1, k2}
  Value = {v}
  Host = {ha, hb}
  Port = {1, 2}
  Configured <- MCConfigured
  Score <- MCScore
  RetryAttempts = 1
  KeyList <- MCKeyList
  MaxCopies = 1
PROPERTIES
  KeepsPromise
  ServersRecover
CHECK_DEADLOCK FALSE
