CONSTANTS
  a = a
  b = b
  n = n
  IP = {a}
  Net = {n}
  Covers <- MCCoversA
  Goroutine = {g1, g2}
  MaxTimeout = 1
  LocalTimeout = 1
  CloudTimeout = 1
  SetHasTimeout = TRUE
  ClientFails = TRUE
  Retry = 1
  WhitelistConfigs <- MaybeAOrNet
  BlacklistConfigs <- MaybeA
  CloudBatches <- OneAddress
SPECIFICATION Spec
SYMMETRY Symmetry
INVARIANTS WhitelistExempt Agreement
