CONSTANTS
  CodeBound = 3
  Word <- MCWord
  Modules <- MCModules
  Code <- MCCode
  SourcePc <- MCSourcePc
  TableElems <- MCTableElems
  ParamSets <- MCParamSets
  ResultLen <- MCResultLen
  SysFuncs = {}
  SysParams = {}
  SysResults = {}
  SysValues = {}
  HandlerWords = {}
  HandlerTraps = {}
  HandlerFuel = {}
  FuelLimits = {NoLimit}
  Globals = {}
  N_DEFAULT_STACK_SIZE = 2
  N_MAX_STACK_SIZE = 4
  N_MAX_RECURSION_DEPTH = 2
  N_MAX_TABLES = 1
  N_MAX_DATA_SEGMENTS = 2
  N_MAX_ELEM_SEGMENTS = 2
  MaxFuel = 0
  NoLimit = NoLimit
  NoSignature = NoSignature
  UnaryOps = {}
  BinaryOps = {}
  WideOps = {}
  AluUnary <- NoUnary
  AluBinary <- NoBinary
  AluTrap <- NoTrap
  AluWide <- NoWide
SPECIFICATION Spec
INVARIANT PcInCode
CHECK_DEADLOCK FALSE
