SPECIFICATION Spec
CONSTANTS
  Short = 1
  Specs <- MC_Specs
  Tree <- MC_Tree
  Height <- MC_Height
INVARIANTS
  ChangesLeadToTarget
  ChangesUndoToBase
  NothingPassedOver
