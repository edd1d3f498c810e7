SPECIFICATION ProxySpec
CONSTANTS
  r1 = r1
  r2 = r2
  r3 = r3
  l1 = l1
  w1 = w1
  Requests <- MCRequests
  Policies <- MCPolicies
  Infos <- MCInfos
  VAppName = "app"
  Subset = "blue"
  CacheExpiration = 2
  MaxChanges = 1
  None = None
  Lists = {l1}
  Watches = {w1}
  Frames <- MCFrames
  BaseWidth = 2
  MaxBufferBytes = 8
  PoolSize = 2
  MaxBuffers = 6
  NoBuf = NoBuf
  Pods = {"p0", "p1", "p2"}
  SubsetOf <- MCSubsetOf
  MaxFaults = 1
  NoLock = NoLock
  Identities = {"a", "b"}
  ChanSize = 1000
  MaxStreams = 2
  MaxSpecs = 2
  MaxElections = 1
INVARIANTS
  SlotsExact
  InFlightBounded
  CacheNotStale
  BuffersOwnedOnce
  StreamIntact
PROPERTIES
  TwoClientsAnswered
  PartFlushed
  PartLed
  PartReported
CHECK_DEADLOCK FALSE
