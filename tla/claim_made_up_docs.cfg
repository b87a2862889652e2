\* As docs.cfg.
SPECIFICATION Spec
CONSTANTS
  t1 = t1
  t2 = t2
  price = price
  supply = supply
  Nothing = Nothing
  Threads = {t1, t2}
  Searches = {"main"}
  Asked <- MCAsked
  TopK = 2
  MadeUpMax = 1
  Articles = 1
INVARIANT MadeUpDocsAreFlagged
