SPECIFICATION Spec
CONSTANTS
  Keys = {k1}
  Recycled = {k1}
  Lod = {l1}
  Trees = {t1}
  Awaits = {a1}
  Polls = {p1}
  Workers = 1
  CacheSizes = {0, 1}
  MayFail = TRUE
  NoBytes = NoBytes
  MaxVersion = 2
CHECK_DEADLOCK FALSE
INVARIANT FreshRead
INVARIANT BackendOutlivesReads
PROPERTY ReadersReleased
