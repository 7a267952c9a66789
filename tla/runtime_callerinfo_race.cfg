\* Two goroutines call the same contract at once.
CONSTANTS
  Threads = {t1, t2}
  EmptyAddress = e
  alice = alice  acctA = acctA  acctB = acctB  acctC = acctC  acctD = acctD
  acctE = acctE  acctF = acctF  acctG = acctG
  idA = idA  idB = idB  idC = idC  idD = idD  idE = idE  idF = idF  idG = idG
  wGood = wGood  wI64Alloc = wI64Alloc  wBig = wBig
  wManyExports = wManyExports  wNoAlloc = wNoAlloc
  wAllocGlobal = wAllocGlobal  wNoInstance = wNoInstance
  f = f  g = g
  NoValue = NoValue
  Addrs <- MCAddrs
  ContractIDs <- MCContractIDs
  Codes <- MCCodes
  FunctionNames <- MCFunctionNames
  Module <- MCModule
  AccountContract <- MCAccountContract
  ContractCode <- MCContractCode
  CallInfos <- MCCallInfosRace
  Limits <- MCLimits
  Genesis <- MCGenesis
  CacheSize = 4
  IdLen = 1
  Amounts = {1}
  Word = 8
  AllocCosts = {1}
  BurnCosts = {1, 2}
  ConsumeAmounts = {2}
  MaxCalls = 1
  NoChild = NoChild
  t1 = t1  c1 = c1
  Child <- MCNoChild
  NestedCallInfos = {}
  NestedFuel = {1}
SPECIFICATION Spec
INVARIANT NoConcurrentMapWrite
