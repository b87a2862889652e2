\* All graphs over eight edges and four nodes.
SPECIFICATION SearchSpec
CONSTANTS
  company = company
  product = product
  input = input
  rival = rival
  Universe <- MCUniverse
  Root = company
  Entities = {input, rival, company}
  MaxHops = 3
  Limit = 1
INVARIANTS
  SearchTypeOK
  PathsAreSound
  NearestPathsReturned
  HeaviestOfLengthReturned
  SubtreeIsBall
CHECK_DEADLOCK FALSE
