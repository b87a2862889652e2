\* A shadow run writes a note.
SPECIFICATION Spec
CONSTANTS
  r1 = r1
  r2 = r2
  Requests = {r1, r2}
  RunModes <- MCRunModes
  ShadowOn = TRUE
  TopK = 5
  Ttl = 1
  MaxLag = 1
INVARIANTS
  ShadowDoesNotAffectLive
