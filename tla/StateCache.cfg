SPECIFICATION FairSpec
CONSTANTS
  c1 = c1
  x1 = x1
  oc = oc
  ox = ox
  CoreGVR = {c1}
  XRGVR = {x1}
  Listable = {c1, x1}
  Object = {ox}
  GvrOf <- MC_GvrOfX
  MaxRev = 3
  MaxFactory = 2
  MaxPending = 2
INVARIANTS TypeOK OneInformerPerGVR MapFollowsInformer
PROPERTIES MirrorOfCluster
  MapConverges
  ServedIsWatched
