SPECIFICATION FairSpec
CONSTANTS
  C = C
  R = R
  k1 = k1
  k2 = k2
  t1 = t1
  Threads = {t1}
  Guids = {R, C}
  Root = R
  Keys = {k1, k2}
  NotCached = NotCached
  NoImage = NoImage
  AutoMerge = TRUE
  AllowEvict = FALSE
  Background = TRUE
  Manual = FALSE
  Options <- MCBackground
INVARIANT WalBeforeData
INVARIANT NoDanglingEdge
INVARIANT TruncatedIsDurable
INVARIANT LookupFindsLatest
PROPERTY WalGetsTruncated
