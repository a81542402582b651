CONSTANTS
  t1 = t1
  t2 = t2
  Threads = {t1, t2}
  a = a
  b = b
  Keys = {a, b}
  Prefix = {a}
  Shard <- MCShard
  BlobOf <- MCBlobOf
  NoToken = NoToken
  Options <- MCListOptions
SYMMETRY MCSymmetry
SPECIFICATION Spec
INVARIANT ListingIsFresh
CHECK_DEADLOCK FALSE
