CONSTANTS
  a = a
  b = b
  IP = {a}
  Net = {}
  Covers <- MCNoSubnet
  Goroutine = {trigger}
  Triggers = {trigger}
  Operators = {}
  Clouds = {}
  Sweepers = {}
  AutoSave = FALSE
  MaxTimeout = 1
  LocalTimeout = 1
  CloudTimeout = 1
  LocalBlockTTL = 1
  CloudBlockTTL = 1
  MaxTTL = 1
  TTLRequests = {0}
  SetHasTimeout = FALSE
  ClientFails = FALSE
  Retry = 1
  WhitelistConfigs <- NoConfig
  BlacklistConfigs <- NoConfig
  CloudBatches <- CloudOfA
SPECIFICATION EFairSpec
PROPERTY TimedBlockExpires
