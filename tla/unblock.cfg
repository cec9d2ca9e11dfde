CONSTANTS
  a = a
  b = b
  IP = {a}
  Net = {}
  Covers <- MCNoSubnet
  Goroutine = {trigger, operator, sweeper}
  Triggers = {trigger}
  Operators = {operator}
  Clouds = {}
  Sweepers = {sweeper}
  AutoSave = TRUE
  MaxTimeout = 1
  LocalTimeout = 1
  CloudTimeout = 1
  LocalBlockTTL = 1
  CloudBlockTTL = 1
  MaxTTL = 2
  TTLRequests = {0, 2}
  SetHasTimeout = FALSE
  ClientFails = FALSE
  Retry = 1
  WhitelistConfigs <- NoConfig
  BlacklistConfigs <- NoConfig
  CloudBatches <- CloudOfA
SPECIFICATION EFairSpec
PROPERTY AutoUnblock
