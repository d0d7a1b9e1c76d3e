CONSTANTS
  Word <- MCWord
  Modules <- MCModules
  Code <- ProgCode
  Shape <- MCShape
  SourcePc <- ProgSourcePc
  TableElems <- ProgTableElems
  ParamSets <- ProgParamSets
  ResultLen <- ProgResultLen
  SysFuncs <- Syscalls
  SysParams <- ProgSysParams
  SysResults <- ProgSysResults
  SysValues <- ProgSysValues
  HandlerWords = {0, 1, 2, 15}
  HandlerTraps = {"OutOfFuel"}
  HandlerFuel = {1}
  FuelLimits = {NoLimit, 2, 5, 12}
  Globals <- MCGlobals
  N_DEFAULT_STACK_SIZE = 2
  N_MAX_STACK_SIZE = 7
  N_MAX_RECURSION_DEPTH = 3
  N_MAX_TABLES = 1
  N_MAX_DATA_SEGMENTS = 2
  N_MAX_ELEM_SEGMENTS = 2
  MaxFuel = 12
  NoLimit = NoLimit
  NoSignature = NoSignature
  UnaryOps <- MCUnaryOps
  BinaryOps <- MCBinaryOps
  WideOps <- MCWideOps
  AluUnary <- MCUnary
  AluBinary <- MCBinary
  AluTrap <- MCTrap
  AluWide <- MCWide
SPECIFICATION Spec
INVARIANTS
  TypeOK
  PcInCode
  StackInBounds
  CallDepthBounded
  FuelWithinLimit
  NoStaleSignature
  CleanExit
  OperandsPresent
  FramesInv
