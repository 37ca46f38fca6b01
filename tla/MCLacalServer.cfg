CONSTANTS
  t1 = t1
  t2 = t2
  c1 = c1
  c2 = c2
  Topics = {t1, t2}
  ArcalTopics = {t1, t2}
  Clients = {c1, c2}
  Discovery = Discovery
  PubBatch = 2
  SampleBatch = 16
  Depth = 1
  MaxPublications = 3
SPECIFICATION Spec
INVARIANTS
  TypeOK
  MonitorUsesLiveParts
PROPERTIES
  Bridged
  Drained
  ExitsWhenAlone
CHECK_DEADLOCK FALSE
