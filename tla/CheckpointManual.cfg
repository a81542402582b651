SPECIFICATION Spec
CONSTANTS
  C = C
  D = D
  R = R
  k1 = k1
  k2 = k2
  t1 = t1
  Threads = {t1}
  Guids = {R, C, D}
  Root = R
  Keys = {k1, k2}
  NotCached = NotCached
  NoImage = NoImage
  AutoMerge = FALSE
  AllowEvict = TRUE
  Background = FALSE
  Manual = TRUE
  Options <- MCManual
INVARIANT WalBeforeData
 
 
 
