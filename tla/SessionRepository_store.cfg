SPECIFICATION Spec
CONSTANTS
  s1 = s1
  s2 = s2
  g1 = g1
  g2 = g2
  w1 = w1
  w2 = w2
  Nobody = Nobody
  Session <- OneSession
  Reader <- TwoReaders
  Writer <- OneWriter
  MaxEntries = 2
  MaxCrashes = 1
INVARIANTS
  Durable
  CacheServesReads
