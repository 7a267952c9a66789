--------------------------- MODULE MCWasmRuntime ---------------------------
(* Instantiation of WasmRuntime for TLC.  The contract code is a handful   *)
(* of descriptors chosen to reach each branch of getModule, getInstance    *)
(* and writeToMemory; the limits are DefaultResourceLimits scaled down so  *)
(* that each descriptor sits on one side of one limit.                     *)
EXTENDS WasmRuntime, TLC

CONSTANTS
  alice, acctA, acctB, acctC, acctD, acctE, acctF, acctG,   \* addresses
  idA, idB, idC, idD, idE, idF, idG,                        \* contract IDs
  wGood, wI64Alloc, wBig, wManyExports, wNoAlloc, wAllocGlobal,
  wNoInstance,                                              \* code blobs
  f, g,                                                     \* function names
  t1, c1                                                    \* frames

MCAddrs == {EmptyAddress, alice, acctA, acctB, acctC, acctD, acctE, acctF, acctG}
MCContractIDs == {idA, idB, idC, idD, idE, idF, idG}
MCCodes == {wGood, wI64Alloc, wBig, wManyExports, wNoAlloc, wAllocGlobal, wNoInstance}
MCFunctionNames == {f, g}

MCLimits == [MaxContractSize |-> 4, MaxFunctions |-> 3,
             MaxImports |-> 2, MaxExports |-> 2]

Desc(size, ser, ex, im) ==
  [size |-> size, serialized |-> ser, parses |-> TRUE, exports |-> ex,
   imports |-> im, instantiates |-> TRUE, alloc |-> "func",
   allocRet |-> "i32", memory |-> "memory", funcs |-> {f}]

\* wGood: a well-formed contract exporting f; wI64Alloc: its alloc returns
\* an i64; wBig: over MaxContractSize; wManyExports: over MaxExports;
\* wNoAlloc: no alloc export; wAllocGlobal: "alloc" names a global;
\* wNoInstance: an import the linker cannot satisfy.
MCModule ==
     wGood        :> Desc(2, 2, 2, 1)
  @@ wI64Alloc    :> [Desc(1, 1, 2, 1) EXCEPT !.allocRet = "i64"]
  @@ wBig         :> Desc(5, 5, 2, 1)
  @@ wManyExports :> Desc(2, 2, 3, 0)
  @@ wNoAlloc     :> [Desc(2, 2, 1, 1) EXCEPT !.alloc = "absent"]
  @@ wAllocGlobal :> [Desc(2, 2, 2, 1) EXCEPT !.alloc = "other"]
  @@ wNoInstance  :> [Desc(2, 2, 2, 1) EXCEPT !.instantiates = FALSE]

MCAccountContract ==
  [a \in MCAddrs |-> CASE a = acctA -> idA [] a = acctB -> idB
                        [] a = acctC -> idC [] a = acctD -> idD
                        [] a = acctE -> idE [] a = acctF -> idF
                        [] a = acctG -> idG [] OTHER -> NoValue]
MCContractCode ==
     idA :> wGood @@ idB :> wI64Alloc @@ idC :> wBig @@ idD :> wManyExports
  @@ idE :> wNoAlloc @@ idF :> wAllocGlobal @@ idG :> wNoInstance

CI(to, fn, fu, v) ==
  [actor |-> alice, contract |-> to, function |-> fn, fuel |-> fu, value |-> v]

\* Every path of a call, value transfers that succeed and fail, and modules
\* that hit, miss, evict and are refused by the cache.
MCCallInfosCall ==
  {CI(acctA, f, 3, 0), CI(acctA, f, 3, 1), CI(acctA, g, 3, 0), CI(acctA, f, 0, 0),
   CI(alice, f, 3, 0), CI(acctB, f, 3, 0), CI(acctC, f, 3, 0), CI(acctE, f, 3, 0),
   CI(acctD, f, 3, 0), CI(acctF, f, 3, 0), CI(acctG, f, 3, 0)}
\* Two threads calling one good contract.
MCCallInfosRace == {CI(acctA, f, 1, 0)}
\* A paid call to a contract whose "alloc" export is not a function.
MCCallInfosInstance == {CI(acctF, f, 3, 1)}
\* A contract whose code lacks the alloc export.
MCCallInfosPanic == {CI(acctE, f, 1, 0)}

\* Goroutine t1's nested calls run on frame c1; the other cfgs have none.
MCChild == [t \in Threads |-> IF t = t1 THEN c1 ELSE NoChild]
MCNoChild == [t \in Threads |-> NoChild]

\* A nested call to the good contract, and one to an address with no
\* contract (it fails before getInstance).
MCNestedCallInfos == {CI(acctA, f, 0, 0), CI(alice, f, 0, 0)}

MCGenesis == [a \in MCAddrs |-> IF a = alice THEN 1 ELSE 0]
=============================================================================
