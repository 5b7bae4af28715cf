SPECIFICATION Spec
CONSTANTS
  Versions = {"1", "2"}
  Digests = {"d1", "d2"}
INVARIANT TypeOK
INVARIANT ReleasesResolve
INVARIANT ReportsAreEvidenced
INVARIANT TagsAreInventoried
