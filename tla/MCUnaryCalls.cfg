SPECIFICATION FairSpec
CONSTANTS
  Tables = {t1}
  Jobs = {j1, j2}
  Loadable = {1, 3}
  None = None
  Lists <- FewLists
INVARIANT TypeOK
INVARIANT SchemasAreKept
PROPERTY DispositionIsHonoured
PROPERTY AdvertisedFormatsLoad
PROPERTY PollingEnds
