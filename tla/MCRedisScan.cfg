\* finds of pages, of everything and by key, among writes
SPECIFICATION FairSpec
CONSTANTS
  k1 = k1
  k2 = k2
  k3 = k3
  Keys = {k1, k2, k3}
  Buckets = 2
  BucketOf <- TwoBuckets
  KeyLists <- Lists
  PageSizes = {1, 2}
  MaxPage = 2
  DefaultPerPage = 2
  MaxWrites = 1
  MaxShrinks = 1
  HashModes = {TRUE, FALSE}
  None = None
INVARIANTS TypeOK AnswersHonest
PROPERTIES FindsEnd
CHECK_DEADLOCK FALSE
