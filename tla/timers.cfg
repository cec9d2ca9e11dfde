CONSTANTS
  a = a
  b = b
  IP = {a}
  Net = {}
  Covers <- MCNoSubnet
  Goroutine = {operator, cloud, sweeper}
  Triggers = {}
  Operators = {operator}
  Clouds = {cloud}
  Sweepers = {sweeper}
  AutoSave = FALSE
  MaxTimeout = 1
  LocalTimeout = 1
  CloudTimeout = 1
  LocalBlockTTL = 1
  CloudBlockTTL = 1
  MaxTTL = 1
  TTLRequests = {0}
  SetHasTimeout = TRUE
  ClientFails = TRUE
  Retry = 1
  WhitelistConfigs <- NoConfig
  BlacklistConfigs <- NoConfig
  CloudBatches <- CloudOfA
SPECIFICATION ESpec
INVARIANT TimedBlock
