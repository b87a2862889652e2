\* Two threads; the subtree is computed and cached as the paths are.
SPECIFICATION FairSpec
CONSTANTS
  t1 = t1
  t2 = t2
  Nothing = Nothing
  Threads = {t1, t2}
  Tools = {"paths", "exposure"}
  Ttl <- MCTtl
  Cooldown = 2
  MaxLag = 1
INVARIANTS
  OpenDriversAreBounded
  FailuresAreSpaced
  ResultsAreFresh
PROPERTIES
  GraphRecovers
