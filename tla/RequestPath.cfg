SPECIFICATION FairSpec
CONSTANTS
  Meta <- MetaKeys
  m1 = m1  m2 = m2
  Sizes = {21, 22}
  MaxChunks = 3
CHECK_DEADLOCK FALSE
INVARIANTS
  TypeOK
  OneStatusPerCall
  FailuresStayVisible
  MetadataArrives
  NothingHeldBack
PROPERTY AbandonedRequestsEnd
