CONSTANTS
  Sources <- FullSources
  Compiled <- CompiledModules
  CompiledUnpriced <- UnpricedModules
  W = 4
  FuncTypes <- MCFuncTypes
  FuncTypeOf <- MCFuncTypeOf
  Intrinsics <- Nothing
  GlobalTypes <- MCGlobalTypes
  TableTypes <- MCTableTypes
  TableMaximum <- MCTableMaximum
  BrTables <- MCBrTables
  DataSections <- Nothing
  ElemSections <- Nothing
  MaxPages = 4
  WithConsumeFuel = TRUE
  WithCodeSnippets = TRUE
  ConsumeFuelForBulkOps = TRUE
  ConsumeFuelForParamsAndLocals = TRUE
  FuelCosts <- MCFuelCosts
  FuelForLocals <- MCFuelForLocals
  ByteRate = 4
  ByteShift = 2
  ElemRate = 2
  ElemShift = 1
  PageBytes = 8
  MaxBlockFuel = 100
  MaxDropKeep = 20
  Imports <- MCImports
  BuiltinsConsumeFuel = TRUE
  AllowStartSection = TRUE
  AllowMalformedEntrypointFuncType = FALSE
  FuelMaxLinear = 5
  FuelMaxQuadratic = 5
  WordBytes = 2
  EntrypointHeight = 5
  NoFunc = NoFunc
  NoRouter = NoRouter
  NoOpcode = NoOpcode
  ImportedFuncs = 3
  HostAnswer <- MCHostAnswer
  HostPrice <- MCHostPrice
  NoRun = NoRun
  Word <- MCWord
  Modules <- FullModules
  Code <- CompiledCode
  SourcePc <- CompiledSourcePc
  TableElems <- CompiledTables
  ParamSets <- FullParamSets
  ResultLen <- CompiledResultLen
  SysFuncs <- MCSyscalls
  SysParams <- MCSysParams
  SysResults <- MCSysResults
  SysValues <- MCSysValues
  HandlerWords = {5}
  HandlerTraps = {}
  HandlerFuel = {}
  FuelLimits = {NoLimit, 14}
  Globals <- MCGlobals
  N_DEFAULT_STACK_SIZE = 9
  N_MAX_STACK_SIZE = 80
  N_MAX_RECURSION_DEPTH = 5
  N_MAX_TABLES = 1
  N_MAX_DATA_SEGMENTS = 2
  N_MAX_ELEM_SEGMENTS = 2
  MaxFuel = 1000
  NoLimit = NoLimit
  NoSignature = NoSignature
  UnaryOps <- MCUnaryOps
  BinaryOps <- MCBinaryOps
  WideOps <- MCWideOps
  AluUnary <- MCUnary
  AluBinary <- MCBinary
  AluTrap <- MCTrap
  AluWide <- MCWide
SPECIFICATION RunsSpec
INVARIANTS
  StackInBounds
