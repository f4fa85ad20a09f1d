SPECIFICATION OpFairSpec
CONSTANTS
  c1 = c1
  o1 = o1
  CoreGVR = {c1}
  XRGVR = {}
  Listable = {c1}
  Object = {o1}
  GvrOf <- MC_GvrOf
  MaxRev = 1
  MaxFactory = 1
  MaxPending = 1
INVARIANTS
  OpTypeOK
  SendersNeverBlock
PROPERTIES
  SignalEndsProcess
  FatalErrorEndsProcess
  EventuallyReady
  ReplicaPhases
