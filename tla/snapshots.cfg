\* Two loaders of one key through outages that may end.
SPECIFICATION FairSpec
CONSTANTS
  l1 = l1
  l2 = l2
  full = full
  gaps = gaps
  made = made
  Nothing = Nothing
  Loaders = {l1, l2}
  Live = {full, gaps}
  Synthetic = {made}
  GateOf <- MCGateOf
  Ttl = 2
  Freshness = 2
  MaxLag = 1
INVARIANTS
  GoodIsFreshLive
PROPERTIES
  RecoversAfterOutage
