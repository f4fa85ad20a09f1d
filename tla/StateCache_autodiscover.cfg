SPECIFICATION FairSpec
CONSTANTS
  c1 = c1
  x1 = x1
  oc = oc
  ox = ox
  CoreGVR = {c1}
  XRGVR = {x1}
  Listable = {c1}
  Object = {oc, ox}
  GvrOf <- MC_GvrOf
  MaxRev = 1
  MaxFactory = 2
  MaxPending = 1
PROPERTIES
  AutoDiscovers
