CONSTANTS
  a = a
  b = b
  n = n
  IP = {a, b}
  Net = {}
  Covers <- MCNoSubnet
  Goroutine = {g1, g2}
  MaxTimeout = 1
  LocalTimeout = 1
  CloudTimeout = 1
  SetHasTimeout = FALSE
  ClientFails = TRUE
  Retry = 1
  WhitelistConfigs <- NoConfig
  BlacklistConfigs <- NoConfig
  CloudBatches <- TwoAddresses
SPECIFICATION FairSpec
INVARIANT HonestResult
PROPERTIES CallsEnd AtomicBlacklist
