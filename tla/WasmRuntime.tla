---------------------------- MODULE WasmRuntime ----------------------------
(***************************************************************************)
(* The call orchestrator of x/contracts/runtime: WasmRuntime.CallContract, *)
(* getModule, validateModule, getInstance and the callerInfo map           *)
(* (util_test.go, which carries the runtime's source), and                 *)
(* ContractInstance.call, writeToMemory and the fuel helpers of CallInfo   *)
(* (contract.go).  Several goroutines (Threads) drive CallContract on one  *)
(* WasmRuntime, which the spec allows ("a caller may drive multiple        *)
(* CallContract invocations in parallel").                                 *)
(*                                                                         *)
(* Shared state: the module cache (a SizedLRU, which locks internally),    *)
(* the callerInfo map (a plain Go map: each write is split into a begin    *)
(* and an end step so that overlapping writes are visible) and the         *)
(* balances behind the StateManager (an atomic Ledger, as the interface    *)
(* promises).  Per-thread state: the call being run, its store's fuel and  *)
(* the outcome of the last call.  Contract code is abstracted to a         *)
(* descriptor (Module[cd]) holding what the pipeline looks at.             *)
(*                                                                         *)
(* A nested call (the contract module's call_contract host import, which   *)
(* is not in this repository and follows spec section 4.7) runs on a child *)
(* frame Child[t] of the calling goroutine: the parent reserves fuel with  *)
(* ConsumeFuel, the child runs the whole CallContract pipeline with that   *)
(* budget, and the parent takes the child's RemainingFuel back with        *)
(* AddFuel.  The child frame is a member of Threads that never starts a    *)
(* call of its own.                                                        *)
(***************************************************************************)
EXTENDS Naturals, Sequences, FiniteSets, SequencesExt

CONSTANTS
  Threads,          \* goroutines calling CallContract
  Addrs,            \* codec.Address values
  EmptyAddress,
  ContractIDs,
  Codes,            \* contract code blobs
  NoValue,          \* absent key in the StateManager
  AccountContract,  \* [Addrs -> ContractIDs \cup {NoValue}]: deployed accounts
  ContractCode,     \* [ContractIDs -> Codes \cup {NoValue}]: stored code
  Module,           \* Module[cd]: descriptor of code cd (see ModuleDesc)
  FunctionNames,
  CallInfos,        \* the CallInfo values callers pass
  Limits,           \* r.limits (DefaultResourceLimits, scaled)
  CacheSize,        \* cfg.ContractCacheSize, in weight units
  IdLen,            \* len(id) of a cache key
  Amounts,          \* balance amounts (for the Ledger)
  Genesis,          \* [Addrs -> balances]: balances before the first call
  Word,             \* 2^64 scaled: fuel and balances are uint64
  AllocCosts,       \* fuel the guest's alloc may burn
  BurnCosts,        \* fuel a run of guest instructions may burn
  ConsumeAmounts,   \* n passed to consume_fuel by the guest
  MaxCalls,         \* calls each thread makes
  Child,            \* Child[t]: the frame t's nested calls run on, or NoChild
  NoChild,
  NestedCallInfos,  \* the calls a guest asks call_contract to make
  NestedFuel        \* fuel a guest reserves for a nested call

ModuleDesc ==
  [size : Nat, serialized : Nat, parses : BOOLEAN, exports : Nat,
   imports : Nat, instantiates : BOOLEAN,
   alloc : {"func", "other", "absent"}, allocRet : {"i32", "i64"},
   memory : {"memory", "other", "absent"}, funcs : SUBSET FunctionNames]

CallInfoType ==
  [actor : Addrs, contract : Addrs, function : FunctionNames,
   fuel : 0 .. Word - 1, value : {0} \cup Amounts]

ASSUME
  /\ Module \in [Codes -> ModuleDesc]
  /\ CallInfos \subseteq CallInfoType
  /\ AccountContract \in [Addrs -> ContractIDs \cup {NoValue}]
  /\ ContractCode \in [ContractIDs -> Codes \cup {NoValue}]
  /\ BurnCosts \subseteq Nat \ {0}
  /\ Genesis \in [Addrs -> 0 .. Word - 1]
  /\ Child \in [Threads -> Threads \cup {NoChild}]
  /\ NestedCallInfos \subseteq CallInfoType
  /\ NestedFuel \subseteq Nat \ {0}

\* Frames that run nested calls only, and the frame a nested one belongs to.
Children == {Child[t] : t \in Threads} \ {NoChild}
Roots == Threads \ Children
RootOf(s) == IF s \in Roots THEN s ELSE CHOOSE t \in Threads : Child[t] = s

VARIABLES
  pc,          \* pc[t]: where thread t is in CallContract
  ci,          \* ci[t]: the *CallInfo thread t is running
  fuel,        \* fuel[t]: the fuel cell of thread t's current store
  cache,       \* r.contractCache: IDs from least to most recently used
  callerInfo,  \* r.callerInfo: callerInfo[t] is the entry of t's store
  writers,     \* threads inside a write of r.callerInfo
  bal,         \* balances behind callInfo.State
  ret,         \* ret[t]: how thread t's last CallContract ended
  paid,        \* paid[t]: the current call's value transfer went through
  calls,       \* calls[t]: CallContract invocations thread t has made
  inst,        \* inst[t]: callInfo.inst has been set (getInstance succeeded)
  burned       \* burned[r]: fuel metered away in root r's call, children included

vars == <<pc, ci, fuel, cache, callerInfo, writers, bal, ret, paid, calls,
          inst, burned>>

NoEntry == NoValue   \* a key absent from r.callerInfo
\* "instanceError": the Instance kind of spec section 7 (instantiation
\* failure, missing memory or alloc).
Outcomes == {"none", "ok", "error", "instanceError", "panic"}

LG == INSTANCE Ledger

Stages == {"idle", "getModule", "compile", "instantiate", "setCallInfo",
           "setCallInfoEnd", "call", "transfer", "writeToMemory", "run",
           "nested", "deleteCallInfo", "deleteCallInfoEnd"}

\* Stages during which thread t's store is registered in r.callerInfo.
Registered == {"call", "transfer", "writeToMemory", "run", "nested",
               "deleteCallInfo"}

TypeOK ==
  /\ pc \in [Threads -> Stages]
  /\ ci \in [Threads -> CallInfoType]
  /\ fuel \in [Threads -> 0 .. Word - 1]
  /\ cache \in Seq(ContractIDs) /\ IsInjective(cache)
  /\ callerInfo \in [Threads -> CallInfoType \cup {NoEntry}]
  /\ writers \subseteq Threads
  /\ bal \in [Addrs -> 0 .. Word - 1]
  /\ ret \in [Threads -> Outcomes]
  /\ paid \in [Threads -> BOOLEAN]
  /\ calls \in [Threads -> 0 .. MaxCalls]
  /\ inst \in [Threads -> BOOLEAN]
  /\ burned \in [Threads -> 0 .. Word]

Init ==
  /\ pc = [t \in Threads |-> "idle"]
  /\ ci = [t \in Threads |-> CHOOSE c \in CallInfos : TRUE]
  /\ fuel = [t \in Threads |-> 0]
  /\ cache = <<>>
  /\ callerInfo = [t \in Threads |-> NoEntry]
  /\ writers = {}
  /\ bal = Genesis
  /\ ret = [t \in Threads |-> "none"]
  /\ paid = [t \in Threads |-> FALSE]
  /\ calls = [t \in Threads |-> 0]
  /\ inst = [t \in Threads |-> FALSE]
  /\ burned = [t \in Threads |-> 0]

\* Moves thread t to stage s.
Goto(t, s) == pc' = [pc EXCEPT ![t] = s]

\* Thread t's call returns with outcome o from stage `to`.
Finish(t, o, to) == Goto(t, to) /\ ret' = [ret EXCEPT ![t] = o]

\* The contract ID the StateManager resolves for thread t's call.
IdOf(t) == AccountContract[ci[t].contract]
\* The descriptor of the code stored for thread t's contract.
ModOf(t) == Module[ContractCode[IdOf(t)]]

-----------------------------------------------------------------------------
(* The module cache: cache.NewSizedLRU with weight len(id)+len(serialized) *)
(* (avalanchego's SizedLRU, outside this repository): a put evicts the     *)
(* least recently used entries until the new one fits, an entry heavier   *)
(* than the whole budget empties the cache, a get refreshes recency.       *)

EntryWeight(id) == IdLen + Module[ContractCode[id]].serialized

CacheWeight(s) == FoldLeft(LAMBDA acc, id : acc + EntryWeight(id), 0, s)

RECURSIVE EvictFor(_, _)
EvictFor(s, w) ==
  IF s # <<>> /\ CacheWeight(s) + w > CacheSize THEN EvictFor(Tail(s), w) ELSE s

CacheGet(s, id) == Append(Remove(s, id), id)

\* (mutant) a put of a key already present adds a second entry.
CachePutDuplicate(s, id) ==
  IF EntryWeight(id) > CacheSize THEN <<>>
  ELSE Append(EvictFor(s, EntryWeight(id)), id)

CachePut(s, id) ==
  IF EntryWeight(id) > CacheSize THEN <<>>
  ELSE Append(EvictFor(Remove(s, id), EntryWeight(id)), id)

-----------------------------------------------------------------------------
(* getModule's checks on bytes fetched from the StateManager: the size     *)
(* limit, then validateModule (parse, function, import and export counts), *)
(* then the second wasmtime.NewModule, which succeeds when parsing did.    *)
(* Absent code is read as nil bytes, which pass the size check and fail to *)
(* parse.                                                                   *)

\* (mutant) getModule without validateModule: only the size is checked.
AcceptsSizeOnly(cd) ==
  /\ cd # NoValue
  /\ Module[cd].size <= Limits.MaxContractSize
  /\ Module[cd].parses

ValidateModule(m) ==
  /\ m.parses
  /\ m.exports + m.imports <= Limits.MaxFunctions
  /\ m.imports <= Limits.MaxImports
  /\ m.exports <= Limits.MaxExports

Accepts(cd) ==
  /\ cd # NoValue
  /\ Module[cd].size <= Limits.MaxContractSize
  /\ ValidateModule(Module[cd])

-----------------------------------------------------------------------------
(* CallContract(ctx, callInfo).                                           *)

\* Where GetAccountContract sends call c: an account without a contract
\* is an error returned at once.
EntryStage(c) == IF AccountContract[c.contract] = NoValue THEN "idle" ELSE "getModule"
EntryRet(c) == IF AccountContract[c.contract] = NoValue THEN "error" ELSE "none"

\* Fuel metered away in thread t's frame is charged to its root call.  The
\* tally saturates at Word, which a call within its budget never reaches.
Burn(t, x) ==
  burned' = [burned EXCEPT ![RootOf(t)] = IF @ + x < Word THEN @ + x ELSE Word]

\* Entry of a top-level call, then GetAccountContract.
CallContract(t, c) ==
  /\ t \in Roots
  /\ pc[t] = "idle"
  /\ calls[t] < MaxCalls
  /\ calls' = [calls EXCEPT ![t] = @ + 1]
  /\ ci' = [ci EXCEPT ![t] = c]
  /\ paid' = [paid EXCEPT ![t] = FALSE]
  /\ inst' = [inst EXCEPT ![t] = FALSE]
  /\ burned' = [burned EXCEPT ![t] = 0]
  /\ Finish(t, EntryRet(c), EntryStage(c))
  /\ UNCHANGED <<fuel, cache, callerInfo, writers, bal>>

\* getModule: r.contractCache.Get(string(id)).
GetModuleCached(t) ==
  /\ pc[t] = "getModule"
  /\ \/ /\ IdOf(t) \in ToSet(cache)
        /\ cache' = CacheGet(cache, IdOf(t))
        /\ Goto(t, "instantiate")
     \/ /\ IdOf(t) \notin ToSet(cache)
        /\ Goto(t, "compile")
        /\ UNCHANGED cache
  /\ UNCHANGED <<ci, fuel, callerInfo, writers, bal, ret, paid, calls, inst, burned>>

\* (mutant) getModule without the call to validateModule.
GetModuleBuildNoValidate(t) ==
  /\ pc[t] = "compile"
  /\ \/ /\ AcceptsSizeOnly(ContractCode[IdOf(t)])
        /\ cache' = CachePut(cache, IdOf(t))
        /\ Goto(t, "instantiate")
        /\ UNCHANGED ret
     \/ /\ ~AcceptsSizeOnly(ContractCode[IdOf(t)])
        /\ Finish(t, "error", "idle")
        /\ UNCHANGED cache
  /\ UNCHANGED <<ci, fuel, callerInfo, writers, bal, paid, calls, inst, burned>>

\* (mutant) getModule's refusal does not return: the call goes on to
\* getInstance with the refused module.
GetModuleBuildNoReturn(t) ==
  /\ pc[t] = "compile"
  /\ \/ /\ Accepts(ContractCode[IdOf(t)])
        /\ cache' = CachePut(cache, IdOf(t))
     \/ /\ ~Accepts(ContractCode[IdOf(t)])
        /\ UNCHANGED cache
  /\ Goto(t, "instantiate")
  /\ UNCHANGED <<ci, fuel, callerInfo, writers, bal, ret, paid, calls, inst, burned>>

\* getModule on a miss: GetContractBytes, size check, validateModule,
\* NewModule, then r.contractCache.Put.
GetModuleBuild(t) ==
  /\ pc[t] = "compile"
  /\ \/ /\ Accepts(ContractCode[IdOf(t)])
        /\ cache' = CachePut(cache, IdOf(t))
        /\ Goto(t, "instantiate")
        /\ UNCHANGED ret
     \/ /\ ~Accepts(ContractCode[IdOf(t)])
        /\ Finish(t, "error", "idle")
        /\ UNCHANGED cache
  /\ UNCHANGED <<ci, fuel, callerInfo, writers, bal, paid, calls, inst, burned>>

\* getInstance: a fresh store (fuel 0, epoch deadline 1) and
\* linker.Instantiate; on success callInfo.inst = inst.
GetInstance(t) ==
  /\ pc[t] = "instantiate"
  /\ IF ModOf(t).instantiates
       THEN /\ Goto(t, "setCallInfo") /\ UNCHANGED ret
            /\ inst' = [inst EXCEPT ![t] = TRUE]
       ELSE Finish(t, "instanceError", "idle") /\ UNCHANGED inst
  /\ fuel' = [fuel EXCEPT ![t] = 0]
  /\ UNCHANGED <<ci, cache, callerInfo, writers, bal, paid, calls, burned>>

\* r.setCallInfo(inst.store, callInfo): r.callerInfo[toMapKey(store)] = info,
\* an unsynchronised map write from the calling goroutine.
SetCallInfo(t) ==
  /\ pc[t] = "setCallInfo"
  /\ writers' = writers \cup {t}
  /\ Goto(t, "setCallInfoEnd")
  /\ UNCHANGED <<ci, fuel, cache, callerInfo, bal, ret, paid, calls, inst, burned>>

SetCallInfoEnd(t) ==
  /\ pc[t] = "setCallInfoEnd"
  /\ callerInfo' = [callerInfo EXCEPT ![t] = ci[t]]
  /\ writers' = writers \ {t}
  /\ Goto(t, "call")
  /\ UNCHANGED <<ci, fuel, cache, bal, ret, paid, calls, inst, burned>>

\* inst.call: store.SetFuel(GetFuel() + callInfo.Fuel); the value
\* transfer comes first when callInfo.Value > 0.
Call(t) ==
  /\ pc[t] = "call"
  /\ fuel' = [fuel EXCEPT ![t] = (@ + ci[t].fuel) % Word]
  /\ Goto(t, IF ci[t].value > 0 THEN "transfer" ELSE "writeToMemory")
  /\ UNCHANGED <<ci, cache, callerInfo, writers, bal, ret, paid, calls, inst, burned>>

\* (mutant) a failed transfer returns without the deferred deleteCallInfo.
TransferValueNoDefer(t) ==
  LET c == ci[t] IN
  /\ pc[t] = "transfer"
  /\ \/ /\ LG!Transfer(c.actor, c.contract, c.value)
        /\ paid' = [paid EXCEPT ![t] = TRUE]
        /\ Goto(t, "writeToMemory")
        /\ UNCHANGED ret
     \/ /\ ~LG!CanTransfer(c.actor, c.contract, c.value)
        /\ Finish(t, "error", "idle")
        /\ UNCHANGED <<bal, paid>>
  /\ UNCHANGED <<ci, fuel, cache, callerInfo, writers, calls, inst, burned>>

\* (mutant) a failed transfer is ignored and the call goes on.
TransferValueIgnoreError(t) ==
  LET c == ci[t] IN
  /\ pc[t] = "transfer"
  /\ \/ /\ LG!Transfer(c.actor, c.contract, c.value)
        /\ paid' = [paid EXCEPT ![t] = TRUE]
     \/ /\ ~LG!CanTransfer(c.actor, c.contract, c.value)
        /\ UNCHANGED <<bal, paid>>
  /\ Goto(t, "writeToMemory")
  /\ UNCHANGED <<ci, fuel, cache, callerInfo, writers, ret, calls, inst, burned>>

\* State.TransferBalance(Actor, Contract, Value); an error returns it.
TransferValue(t) ==
  LET c == ci[t] IN
  /\ pc[t] = "transfer"
  /\ \/ /\ LG!Transfer(c.actor, c.contract, c.value)
        /\ paid' = [paid EXCEPT ![t] = TRUE]
        /\ Goto(t, "writeToMemory")
        /\ UNCHANGED ret
     \/ /\ ~LG!CanTransfer(c.actor, c.contract, c.value)
        /\ Finish(t, "error", "deleteCallInfo")
        /\ UNCHANGED <<bal, paid>>
  /\ UNCHANGED <<ci, fuel, cache, callerInfo, writers, calls, inst, burned>>

\* The exports writeToMemory looks up: GetExport(...).Func() and .Memory().
\* GetExport returns nil for a missing export and the method call on nil
\* panics; an export of another kind yields nil and an error.
ExportsFound(m) == m.alloc = "func" /\ m.memory = "memory"
ExportPanics(m) == m.alloc = "absent" \/ (m.alloc = "func" /\ m.memory = "absent")

\* writeToMemory(ctx ++ params), then GetFunc(FunctionName).  allocFn.Call
\* runs guest code, metered like any other: it burns k fuel or traps when
\* less is left.  Its result is asserted to be int32 (dataOffsetIntf.(int32)),
\* and linearMem[dataOffset:] panics on an offset beyond the memory.
WriteToMemory(t) ==
  LET m == ModOf(t) IN
  /\ pc[t] = "writeToMemory"
  /\ \/ /\ ExportPanics(m)
        /\ Finish(t, "panic", "deleteCallInfo")
        /\ UNCHANGED <<fuel, burned>>
     \/ /\ ~ExportPanics(m) /\ ~ExportsFound(m)
        /\ Finish(t, "instanceError", "deleteCallInfo")
        /\ UNCHANGED <<fuel, burned>>
     \/ /\ ExportsFound(m)
        /\ \E k \in AllocCosts :
             \/ /\ fuel[t] < k
                /\ fuel' = [fuel EXCEPT ![t] = 0]
                /\ Burn(t, fuel[t])
                /\ Finish(t, "error", "deleteCallInfo")
             \/ /\ fuel[t] >= k
                /\ fuel' = [fuel EXCEPT ![t] = @ - k]
                /\ Burn(t, k)
                /\ \E offsetInMemory \in BOOLEAN :
                     IF m.allocRet = "i64" \/ ~offsetInMemory
                       THEN Finish(t, "panic", "deleteCallInfo")
                     ELSE IF ci[t].function \notin m.funcs
                       THEN Finish(t, "error", "deleteCallInfo")
                     ELSE Goto(t, "run") /\ UNCHANGED ret
  /\ UNCHANGED <<ci, cache, callerInfo, writers, bal, paid, calls, inst>>

-----------------------------------------------------------------------------
(* function.Call(store, offset): the guest runs under fuel metering and    *)
(* calls host imports.  Of those, consume_fuel is CallInfo.ConsumeFuel;    *)
(* the contract module's import surfaces its error as a trap.              *)

\* (mutant) metering without the out-of-fuel trap: the counter wraps.
GuestRunWrapping(t, k) ==
  /\ pc[t] = "run"
  /\ fuel' = [fuel EXCEPT ![t] = (@ - k) % Word]
  /\ Burn(t, k)
  /\ UNCHANGED <<pc, ret>>
  /\ UNCHANGED <<ci, cache, callerInfo, writers, bal, paid, calls, inst>>

\* The guest executes instructions worth k fuel, or traps out of fuel.
GuestRun(t, k) ==
  /\ pc[t] = "run"
  /\ \/ /\ fuel[t] >= k
        /\ fuel' = [fuel EXCEPT ![t] = @ - k]
        /\ Burn(t, k)
        /\ UNCHANGED <<pc, ret>>
     \/ /\ fuel[t] < k
        /\ fuel' = [fuel EXCEPT ![t] = 0]
        /\ Burn(t, fuel[t])
        /\ Finish(t, "error", "deleteCallInfo")
  /\ UNCHANGED <<ci, cache, callerInfo, writers, bal, paid, calls, inst>>

\* (mutant) ConsumeFuel without the remaining < fuel check.
ConsumeFuelUnchecked(t, n) ==
  /\ pc[t] = "run"
  /\ fuel' = [fuel EXCEPT ![t] = (@ - n) % Word]
  /\ Burn(t, n)
  /\ UNCHANGED <<pc, ret>>
  /\ UNCHANGED <<ci, cache, callerInfo, writers, bal, paid, calls, inst>>

\* CallInfo.ConsumeFuel(n): "out of fuel" when remaining < n, otherwise
\* SetFuel(remaining - n).
ConsumeFuel(t, n) ==
  /\ pc[t] = "run"
  /\ \/ /\ fuel[t] < n
        /\ Finish(t, "error", "deleteCallInfo")
        /\ UNCHANGED <<fuel, burned>>
     \/ /\ fuel[t] >= n
        /\ fuel' = [fuel EXCEPT ![t] = @ - n]
        /\ Burn(t, n)
        /\ UNCHANGED <<pc, ret>>
  /\ UNCHANGED <<ci, cache, callerInfo, writers, bal, paid, calls, inst>>

(* The call_contract host import (spec section 4.7, "Nested calls"): the  *)
(* guest names a contract, function and value and a fuel reservation n.   *)
(* The parent pays n with ConsumeFuel, a derived CallInfo (the parent's   *)
(* Actor, Fuel n, inst unset) enters CallContract on the child frame, and  *)
(* when it returns the parent gets RemainingFuel of the child back by     *)
(* AddFuel and resumes.                                                    *)

\* (mutant) RemainingFuel answers the CallInfo's budget, as its GetFuel
\* error branch does, instead of the store's fuel.
RemainingFuelBudget(s) == ci[s].fuel

\* CallInfo.RemainingFuel: c.inst.store.GetFuel(), which cannot fail with
\* fuel metering on; callers check c.inst first (a nil one panics).
RemainingFuel(s) == fuel[s]

\* CallInfo.AddFuel(x): SetFuel(remaining + x), a uint64 sum.
AddFuel(s, x) == fuel' = [fuel EXCEPT ![s] = (@ + x) % Word]

NestedCall(t, c, n) ==
  LET ch == Child[t]
      d  == [c EXCEPT !.actor = ci[t].actor, !.fuel = n]
  IN
  /\ pc[t] = "run"
  /\ ch # NoChild
  /\ \/ /\ fuel[t] < n
        /\ Finish(t, "error", "deleteCallInfo")
        /\ UNCHANGED <<ci, fuel, paid, inst>>
     \/ /\ fuel[t] >= n
        /\ fuel' = [fuel EXCEPT ![t] = @ - n]
        /\ ci' = [ci EXCEPT ![ch] = d]
        /\ paid' = [paid EXCEPT ![ch] = FALSE]
        /\ inst' = [inst EXCEPT ![ch] = FALSE]
        /\ pc' = [pc EXCEPT ![t] = "nested", ![ch] = EntryStage(d)]
        /\ ret' = [ret EXCEPT ![ch] = EntryRet(d)]
  /\ UNCHANGED <<cache, callerInfo, writers, bal, calls, burned>>

\* The child's CallContract has returned.  Without an instance (the call
\* failed before getInstance) RemainingFuel dereferences a nil c.inst and
\* the host panics; otherwise the unused fuel goes back to the parent.
NestedReturn(t) ==
  LET ch == Child[t] IN
  /\ pc[t] = "nested"
  /\ pc[ch] = "idle"
  /\ \/ /\ ~inst[ch]
        /\ Finish(t, "panic", "deleteCallInfo")
        /\ UNCHANGED fuel
     \/ /\ inst[ch]
        /\ AddFuel(t, RemainingFuel(ch))
        /\ Goto(t, "run")
        /\ UNCHANGED ret
  /\ UNCHANGED <<ci, cache, callerInfo, writers, bal, paid, calls, inst, burned>>

\* The guest function returns: call returns p.result.
GuestReturn(t) ==
  /\ pc[t] = "run"
  /\ Finish(t, "ok", "deleteCallInfo")
  /\ UNCHANGED <<ci, fuel, cache, callerInfo, writers, bal, paid, calls, inst, burned>>

\* The guest traps (unreachable, out-of-bounds access, ...).
GuestTrap(t) ==
  /\ pc[t] = "run"
  /\ Finish(t, "error", "deleteCallInfo")
  /\ UNCHANGED <<ci, fuel, cache, callerInfo, writers, bal, paid, calls, inst, burned>>

\* The deferred r.deleteCallInfo(inst.store): delete(r.callerInfo, key).
DeleteCallInfo(t) ==
  /\ pc[t] = "deleteCallInfo"
  /\ writers' = writers \cup {t}
  /\ Goto(t, "deleteCallInfoEnd")
  /\ UNCHANGED <<ci, fuel, cache, callerInfo, bal, ret, paid, calls, inst, burned>>

DeleteCallInfoEnd(t) ==
  /\ pc[t] = "deleteCallInfoEnd"
  /\ callerInfo' = [callerInfo EXCEPT ![t] = NoEntry]
  /\ writers' = writers \ {t}
  /\ Goto(t, "idle")
  /\ UNCHANGED <<ci, fuel, cache, bal, ret, paid, calls, inst, burned>>

-----------------------------------------------------------------------------
Step(t) ==
  \/ \E c \in CallInfos : CallContract(t, c)
  \/ GetModuleCached(t)
  \/ GetModuleBuild(t)
  \/ GetInstance(t)
  \/ SetCallInfo(t)
  \/ SetCallInfoEnd(t)
  \/ Call(t)
  \/ TransferValue(t)
  \/ WriteToMemory(t)
  \/ \E k \in BurnCosts : GuestRun(t, k)
  \/ \E n \in ConsumeAmounts : ConsumeFuel(t, n)
  \/ \E c \in NestedCallInfos, n \in NestedFuel : NestedCall(t, c, n)
  \/ NestedReturn(t)
  \/ GuestReturn(t)
  \/ GuestTrap(t)
  \/ DeleteCallInfo(t)
  \/ DeleteCallInfoEnd(t)

\* Every goroutine has made its calls and every call has returned.
Done ==
  /\ \A t \in Threads : pc[t] = "idle"
  /\ \A t \in Roots : calls[t] = MaxCalls
  /\ UNCHANGED vars

Next == (\E t \in Threads : Step(t)) \/ Done

\* A goroutine with a step to take is eventually scheduled.
Fairness == \A t \in Threads : WF_vars(Step(t))

Spec == Init /\ [][Next]_vars /\ Fairness

-----------------------------------------------------------------------------
(* Properties.                                                            *)

\* Stages at which thread t's call has a store (from getInstance on).
HasStore == Stages \ {"idle", "getModule", "compile", "instantiate"}

\* Frame s has put its budget into its store (inst.call's SetFuel ran), and
\* the part of its budget it still holds.
Called(s) ==
  \/ pc[s] \in {"transfer", "writeToMemory", "run", "nested", "deleteCallInfo",
               "deleteCallInfoEnd"}
  \/ pc[s] = "idle" /\ inst[s]
Held(s) == IF Called(s) THEN fuel[s] ELSE ci[s].fuel

\* Fuel is conserved across nested calls: once a top-level call's budget
\* (callInfo.Fuel) is in its store, the fuel it holds, the fuel its nested
\* call holds and the fuel metered away by both (instructions, alloc,
\* consume_fuel) add up to the budget.  It rests on ConsumeFuel's check,
\* RemainingFuel reading the child's store and AddFuel's uint64 sum, and
\* rules out both creating fuel and a refund that wraps.  A call the host
\* panicked out of is not held to it.
FuelConserved ==
  \A r \in Roots :
    Called(r) /\ ret[r] # "panic" =>
      fuel[r] + burned[r] + (IF pc[r] = "nested" THEN Held(Child[r]) ELSE 0)
        = ci[r].fuel

\* r.callerInfo holds exactly the live calls: while a call can reach its
\* host imports (from inst.call until the deferred deleteCallInfo) its
\* store maps to its own CallInfo, and once CallContract has returned, on
\* the success path, an error path or a panic, its entry is gone.
CallInfoOnlyForLiveCalls ==
  \A t \in Threads :
    /\ pc[t] \in Registered => callerInfo[t] = ci[t]
    /\ callerInfo[t] # NoEntry =>
         pc[t] \in Registered \cup {"deleteCallInfoEnd"} /\ callerInfo[t] = ci[t]

\* A module the checks refuse never gets a store (spec section 8, item 2):
\* whenever callInfo.inst is set, on a cache hit or after a miss, for a
\* top-level or a nested call, the contract's code passed getModule.
NoStoreForRejected == \A t \in Threads : inst[t] => Accepts(ContractCode[IdOf(t)])

\* A call whose attached value could not be transferred never runs guest
\* code (spec section 8, item 5): a frame running its function, or a
\* nested call from it, has paid its value.
PaidBeforeRun ==
  \A t \in Threads : pc[t] \in {"run", "nested"} /\ ci[t].value > 0 => paid[t]

\* Every CallContract returns: fuel metering bounds the guest, and no step
\* of the orchestrator waits.
CallsReturn == \A t \in Threads : pc[t] # "idle" ~> pc[t] = "idle"

\* The cache holds only modules that passed getModule's checks under the
\* runtime's limits, even when two goroutines miss on the same contract
\* and both compile and put it.
CacheHoldsAccepted == \A i \in 1 .. Len(cache) : Accepts(ContractCode[cache[i]])

\* No two goroutines write r.callerInfo at once (Go aborts the process with
\* "concurrent map writes").
NoConcurrentMapWrite == Cardinality(writers) <= 1

\* Instance errors (a module that does not instantiate or lacks a usable
\* memory or alloc export) come before any state mutation (spec section 7):
\* a call that ends with one has not moved its attached value.
InstanceErrorBeforeMutation == \A t \in Threads : ret[t] = "instanceError" => ~paid[t]

\* A contract cannot make CallContract panic: a missing alloc or memory
\* export, or a bad result from the guest's alloc, surfaces as an error.
NoHostPanic == \A t \in Threads : ret[t] # "panic"
=============================================================================
