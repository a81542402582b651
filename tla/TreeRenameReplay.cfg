CONSTANTS
  t1 = t1
  t2 = t2
  Threads = {t1, t2}
  a = a
  b = b
  Keys = {a, b}
  Prefix = {a}
  Shard <- MCShard
  BlobOf <- MCBlobOf
  NoToken = NoToken
  Options <- MCRenameOptions
SYMMETRY MCSymmetry
SPECIFICATION Spec
INVARIANT RecoveryIsExact
CHECK_DEADLOCK FALSE
