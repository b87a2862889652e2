\* Two runs that make the search of two queries; two documents are asked for.
SPECIFICATION FairSpec
CONSTANTS
  t1 = t1
  t2 = t2
  price = price
  supply = supply
  Nothing = Nothing
  Threads = {t1, t2}
  Searches = {"main"}
  Asked <- MCAsked
  TopK = 2
  MadeUpMax = 1
  Articles = 1
INVARIANTS
  TypeOK
  FallbackIsFlagged
  DocsAreTraceable
PROPERTIES
  FlagClears
