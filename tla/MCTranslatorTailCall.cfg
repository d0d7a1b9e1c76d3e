SPECIFICATION Spec
CHECK_DEADLOCK FALSE
CONSTANTS
  W = 8
  FuncTypes <- MCFuncTypes
  FuncTypeOf <- MCFuncTypeOf
  Intrinsics <- MCIntrinsics
  GlobalTypes <- MCGlobalTypes
  TableTypes <- MCTableTypes
  TableMaximum <- MCTableMaximum
  BrTables <- MCBrTables
  DataSections <- MCDataSections
  ElemSections <- MCElemSections
  MaxPages = 4
  WithConsumeFuel = TRUE
  WithCodeSnippets = TRUE
  ConsumeFuelForBulkOps = TRUE
  ConsumeFuelForParamsAndLocals = TRUE
  FuelCosts <- MCFuelCosts
  FuelForLocals <- MCFuelForLocals
  ByteRate = 4
  ByteShift = 2
  ElemRate = 2
  ElemShift = 1
  PageBytes = 8
  MaxBlockFuel = 20
  MaxDropKeep = 9
  TranslatedFuncs <- MCTailCallFuncs
  Alphabet <- MCAlphabet
  MaxOperators <- MCMaxOperators
INVARIANTS
  StackCheckCovers
