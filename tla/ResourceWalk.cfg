SPECIFICATION ComposedSpec
CONSTANTS
  k = k
  x = x
  y = y
  m = m
  n = n
  Object = {k, x, y, m}
  Claim = {k}
  Provider = {m}
  ManagedGroup = {m}
  ClusterScoped = {x, y, m}
  Refs <- MC_Refs
  KindOf <- MC_KindOf
  NameOf <- MC_NameOf
  ApiOf <- MC_ApiOf
  Begins <- MC_Begins
  Compositions <- MC_Compositions
  Plans <- MC_Plans
  CollectDepth = 2
  TreeDepth = 1
  MaxRev = 2
INVARIANTS TypeOK WalkIsBounded NothingInvented StableChainsAreCollected ChangesFollowPatches NamesItsResource
