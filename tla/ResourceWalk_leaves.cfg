SPECIFICATION ComposedSpec
CONSTANTS
  k = k
  x = x
  y = y
  m = m
  n = n
  Object = {x, n}
  Claim = {}
  Provider = {n}
  ManagedGroup = {}
  ClusterScoped = {x, n}
  Refs <- MC_LeafRefs
  KindOf <- MC_LeafTypes
  NameOf <- MC_LeafTypes
  ApiOf <- MC_LeafTypes
  Begins <- MC_LeafBegins
  Compositions = {}
  Plans = {}
  CollectDepth = 2
  TreeDepth = 1
  MaxRev = 1
INVARIANT AllLeavesAreCollected
