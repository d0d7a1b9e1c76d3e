CONSTANTS
  W = 4
  Limbs <- MCLimbs
  Word <- MCWord
  Modules <- AllOps
  Code <- OpCode
  SourcePc <- OpSourcePc
  TableElems <- OpTables
  ParamSets <- OpParamSets
  ResultLen <- OpResultLen
  SysFuncs = {}
  SysParams = {}
  SysResults = {}
  SysValues = {}
  HandlerWords = {}
  HandlerTraps = {}
  HandlerFuel = {}
  FuelLimits = {NoLimit}
  Globals = {}
  N_DEFAULT_STACK_SIZE = 4
  N_MAX_STACK_SIZE = 64
  N_MAX_RECURSION_DEPTH = 0
  N_MAX_TABLES = 1
  N_MAX_DATA_SEGMENTS = 2
  N_MAX_ELEM_SEGMENTS = 2
  MaxFuel = 0
  NoLimit = NoLimit
  NoSignature = NoSignature
  UnaryOps <- MCUnaryOps
  BinaryOps <- MCBinaryOps
  WideOps <- MCWideOps
  AluUnary <- MCUnary
  AluBinary <- MCBinary
  AluTrap <- MCTrap
  AluWide <- MCWide
SPECIFICATION LowSpec
INVARIANTS
  LoweringCorrect
  SequenceMatchesSnippet
  SnippetMatchesWasm
  HeightCovered
