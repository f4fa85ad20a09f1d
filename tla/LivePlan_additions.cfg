SPECIFICATION Spec
CONSTANTS
  m = m
  x = x
  y = y
  z = z
  c = c
  d = d
  Request = {r1}
  Object <- MC_Object
  Managed = {m}
  Composite = {x, y, z}
  Claim = {z}
  Key <- MC_Key
  Composition = {c, d}
  Named <- MC_Named
  Typed <- MC_Typed
  Parts <- MC_Parts
  Broken <- MC_Broken
  Proposals <- MC_FewProposals
  MaxRev = 2
INVARIANT NewObjectsAreAdded
