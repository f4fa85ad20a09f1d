SPECIFICATION CliSpec
CONSTANTS
  Dir <- MC_Dir
  File <- MC_File
  Entries <- MC_Entries
  Trees <- MC_Trees
  XrsIn <- MC_XrsIn
  Rendered <- MC_Rendered
  TypeOf <- MC_TypeOf
  Graphs <- MC_Graphs
  RenderDepth = 2
  Managed <- MC_Managed
  Content = {1, 2}
  Convertible = {"p", "q"}
  Importable = {"p", "q"}
  Schemas = {"s", "u"}
  AddressOf <- MC_AddressOf
  Issue = {"error", "warning"}
  Broken = Broken
  Nil = Nil
  Value <- MC_Value
  Height <- MC_Height
  Schema <- MC_Schema
  Xrds <- MC_Xrds
  Resources <- MC_Resources
  Configs = {"default"}
  AnyValue = AnyValue
  NoSpec = NoSpec
  None = None
  Pod = {"p1", "p2"}
  NoPod = NoPod
  Process = {"j1", "j2"}
  Tool = {"t1", "t2"}
  Blocks = 2
  Absent = Absent
INVARIANTS
  FindsTheManifests
  ReadsDirectoriesOnce
  RenderedIsReachable
  CloudPlanMatchesCloud
  NothingIsWithheld
  
  ValidatorAgreesWithServer
  ReadyPodAnswersFully
  PartialIsExplained
PROPERTIES
  WholeToolsAreKept
  LiveCommandEnds
CHECK_DEADLOCK FALSE
