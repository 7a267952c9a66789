# TLA+ models of the hypersdk-wasm contract runtime and simulator

This directory holds TLA+ models of the WebAssembly contract runtime in
`src/x/contracts/runtime` and of the simulator state behind it in
`src/x/contracts/simulator`, with the TLC configurations that check them.
`PROJECT.json` lists the components, the runs, the mutants that show each
property can fail, the map from every modelling definition to its source
lines, the findings and the hazards.

## 1. The system

| Part | Source | State | Operations |
|---|---|---|---|
| Call orchestrator | `runtime/util_test.go` 310-562 (the runtime's source), `runtime/contract.go` | `WasmRuntime{contractCache, callerInfo map, linker, limits}`; per call a `CallInfo` and a `ContractInstance{store, inst, result}` | `CallContract` → `GetAccountContract` → `getModule` (cache, `GetContractBytes`, size, `validateModule`, compile, `Put`) → `getInstance` → `setCallInfo` → `call` (fuel, value transfer, `writeToMemory`, `GetFunc`, `function.Call`) → deferred `deleteCallInfo` |
| Fuel helpers | `contract.go` 54-86 | the store's fuel cell | `RemainingFuel`, `AddFuel`, `ConsumeFuel` |
| Module cache | `util_test.go` 410-417 (weight), avalanchego `SizedLRU` (not in `src/`) | LRU of contract ID → module, total weight | `Get`, `Put` with eviction |
| Resource limits | `unnamed/part_003` 48-60 | constants | — |
| Simulator state | `simulator/state/state.go` | `data map[string][]byte` under an `RWMutex`; global `stateMap` under `stateMu` | `GetValue`, `Insert`, `Remove`, contract/account registry, `GetBalance`, `TransferBalance`, `WrapSimulatorState`, `NewSimulatorState`, the C callbacks |
| Simulator FFI | `simulator/ffi/ffi.go` | none of its own | `CallContract`, `CreateContract`, `GetBalance`, `SetBalance` |
| cgo bridge | `unnamed/part_001` | global `contracts` and `states` maps | `hypersdk_deploy_contract`, `_call_contract`, `_get_state` |
| Validators | `unnamed/part_008`, `validators/rules.go`, `runtime/validator.go` | rule lists | `ValidateModule`, security rules, resource limits, resource rules |
| Resources | `resources/types.go`, `unnamed/part_002`, `_005`, `_006`, `_007` | resource records, abilities | `Marshal`/`Unmarshal`, type checks |

**How they interact.** The FFI and the cgo bridge are the entry points. An
FFI call wraps a simulator state and builds a fresh runtime. It then calls
`CallContract`, which reads the account's contract and the contract's bytes
from that state. The guest's host imports (state, balance, nested calls) call
back into the runtime through the `callerInfo` map, keyed by the store. An
embedder that shares one runtime may call `CallContract` from several
goroutines at once (spec section 5). The simulator state is meant to give
the same linearizable key/value semantics (spec section 5), and the code
guards `stateMap` and each state's data with mutexes for that use. Its own
tests (`state_test.go`) call it from one goroutine.

**What makes each part correct, and what is hard to test.**
- The balance transfer must act as one atomic step that never creates funds
  and never wraps. The code takes the lock four separate times.
- The `callerInfo` map must hold exactly the live calls. It is written with no
  lock from every calling goroutine, and its entry is deleted by a `defer` on
  every exit path.
- Fuel must be conserved, across nested calls too. The fuel cell is a
  uint64: `ConsumeFuel` must check before it subtracts, and `AddFuel` adds
  the child's `RemainingFuel` back unchecked, so a wrong refund creates fuel
  or wraps.
- The cache may hold only validated modules within its weight budget, even
  when two goroutines miss on the same contract at once.
- A guest must not be able to crash the host. `writeToMemory` trusts the
  exports and the offset returned by the guest's `alloc`.
- Every call must return, and only fuel metering bounds the guest.

## 2. Plan

1. `Ledger`: the abstract promise of `transfer_balance` (done).
2. `SimulatorState`: `TransferBalance` per lock step, plus the registry,
   refined to `Ledger` (done).
3. `WasmRuntime`: `CallContract` for concurrent goroutines, with the cache,
   the `callerInfo` map, fuel and the value transfer against `Ledger` (done).
4. `StateStore` and `StateRegistry`: `stateMap`, `WrapSimulatorState`, the
   finalizer, the C callbacks and the FFI entry points, refined to the
   abstract per-id store (done).
5. `ResourceCodec`: the `Marshal`/`Unmarshal` round trip (done).
6. Nested `call_contract` inside `WasmRuntime` (host import outside `src/`)
   (done).
7. `Validator`: `DefaultValidator`, its options and rule checks as pure
   operators, checked against spec section 4.2 (done).
8. `CgoBridge`: deploy, call and get_state over the unlocked global maps
   (not done: see section 7).

## 3. Modules

**`Ledger.tla`** is an abstract specification. It has one variable,
`bal[a]`, and one action, `Transfer(from, to, amt)`. The transfer is atomic.
It is refused on insufficient funds or overflow. It mints when `from` is
`EmptyAddress`.

**`SimulatorState.tla`** models `state.go`.
- `bal[a]` is the uint64 decoded from `balanceKey(a)`. `acct[a]` is the ID
  stored under `account[:]`. `code[id]` is the code stored under
  `contractID[:]`.
- `op[c]` holds the locals of caller `c` inside `TransferBalance` (`from`,
  `to`, `amt` and the balance it last read).
- Each lock acquisition is one action: `TransferBalance` (entry and the mint
  shortcut), `ReadFromBalance` (`GetBalance` plus the insufficiency check),
  `WriteFromBalance`, `ReadToBalance`, `WriteToBalance` (`(read + amt) % Word`).
- The registry calls are one `Insert` or `GetValue` each: `SetContractBytes`,
  `SetAccountContract`, `NewAccountWithContract` and `GetAccountContract`.
- `LedgerBal` maps the state to `Ledger`: `bal[a]` plus the amounts of
  callers that have debited (or are minting) and not yet credited `a`.

**`WasmRuntime.tla`** models the orchestrator for `Threads` goroutines.
- Per thread: `pc[t]` (stage of `CallContract`), `ci[t]` (the `CallInfo`),
  `fuel[t]` (the store's fuel cell), `ret[t]` (`ok`, `error`,
  `instanceError` or `panic`) and `paid[t]` (whether the value moved).
- Shared: `cache` (LRU order of IDs), `callerInfo[t]` (the map entry of `t`'s
  store), `writers` (goroutines inside a map write) and `bal` (through
  `INSTANCE Ledger`).
- One action per step of the code: `CallContract`, `GetModuleCached`,
  `GetModuleBuild`, `GetInstance`, `SetCallInfo`/`SetCallInfoEnd`, `Call`,
  `TransferValue`, `WriteToMemory`, the guest steps (`GuestRun`,
  `ConsumeFuel`, `GuestReturn`, `GuestTrap`) and the deferred
  `DeleteCallInfo`/`DeleteCallInfoEnd`, which also runs on errors and panics.
- `inst[t]` records that `callInfo.inst` was set (`getInstance`
  succeeded). `burned[r]` is a ghost: the fuel metered away in top-level
  call `r` and its nested calls.
- Nested calls. `Child[t]` is the frame on which goroutine `t`'s nested
  calls run; a child frame never starts a call of its own. `NestedCall` is
  the `call_contract` host import (spec section 4.7, not in `src/`). It
  reserves `n` fuel as `ConsumeFuel` does, with the out-of-fuel trap. Then it
  enters the child's `CallContract` with a derived `CallInfo` (the parent's
  `Actor`, fuel `n`). The parent waits at stage `nested` until the child
  returns. `NestedReturn` then gives back `RemainingFuel(child)` by
  `AddFuel`. If the child failed before `getInstance`, `c.inst` is nil,
  `RemainingFuel` dereferences it, and the host panics.
- Contract code is a descriptor `Module[cd]` of what the pipeline looks at.
- `SizedLRU` is not in `src/`; its operators follow spec section 4.3 and are
  marked spec-modelled.

**`StateStore.tla`** is the abstract promise of the simulator state: per
state id a map from keys to values, changed only by `Put` and `Delete`.

**`StateRegistry.tla`** models `state.go`'s registry and the FFI in
`ffi.go` for `Threads` goroutines, each serving a list of `Requests`.
- Shared: `stateMap[id]` (the `*SimulatorState` handle or `NoObj`), the
  handles allocated so far (`alloc`, `objId`), `finalized`, and `data[o]`,
  the key/value map of handle `o`.
- Per goroutine: `pc` (stage), `req` (the request), `held` (the handle it
  holds, which keeps it from the collector), `got` (its result), `read` (the
  balance read by the mint) and `calls`.
- Actions: `Begin` (the nil `statePtr` check of each cgo export, with its
  result `NilResult`), `WrapLookup` (the `RLock` lookup) and `WrapInsert`
  (the later `Lock` insert of a fresh state), `GetValueCallback`,
  `InsertValueCallback` and `RemoveValueCallback` (each is `CbNil`, the nil
  data pointer error, or `CbLookup`, the lookup that returns an error on a
  miss), `GetValue`, `Insert`, `Remove` (each rejecting
  the empty key), the FFI `GetBalance`, `SetBalance` with `MintWrite`,
  `CreateContract` (with `ReadFileFails`) and `CallContract`, and
  `Finalize(o)`: the garbage collector runs `o`'s finalizer once no map entry
  and no goroutine references it, deleting `stateMap[objId[o]]` whatever it
  holds then.
- `ContractState` keys are `PrefixedKey(a, k)`, the address bytes followed
  directly by the key (`state.go:64`). Spec section 8.3 writes the prefix as
  `A || '/'`, but the code appends no separator. Addresses have a fixed
  33 bytes, so the prefixed keys of two contracts cannot collide either way.
  The model's tagged tuple stands for the code's concatenation.
- `Registered` maps the registry to `StateStore` (the data of the handle
  `stateMap` holds); `StoreRefinement` checks `StateStore!Spec` under it.

**`ResourceCodec.tla`** models `NewBaseResource`, `MarkMoved`, and
`BaseResource.Marshal` and `Unmarshal` as operators on byte sequences; the
codec run's resources are exactly those the two constructors build. Widths are constants (`IdLen`, `AddrLen`,
`OwnerSlot`, `LenWidth`, `AbilityWidth`, byte values `0..Base-1`); `Marshal`
is a fold of its writes over a zeroed buffer at the code's offsets;
`Unmarshal` is the code's chain of checks, returning the error and the
receiver as left; every out-of-range index is `Panic`.

**`Validator.tla`** models `DefaultValidator` (`unnamed/part_008`), the
three `ValidatorOption`s of `validators/rules.go` and the types of
`runtime/validator.go`.
- A module is the part of a wasmtime `Module` the validator reads: its size,
  whether it parses, and its exports and imports in order. Each extern is a
  function (parameter and result value kinds), a global, or a memory or table
  (minimum and maximum, `NoMax` when none is declared).
- A `SecurityRule` is a record of type, name, allow list, deny list and
  validator. An option is represented by the rule it appends with
  `AddCustomRule`.
- `ValidateModule` follows the code's order: size, parse, default rules,
  custom rules, then `ValidateResourceLimits`. Each rule goes to its kind's
  check (`ValidateInstructions`/`ValidateType`, `ValidateFloatingPoint`,
  `ValidateMemoryOperations`, or the custom predicate).
- Results are `Accept` or the `ValidationError`'s rule name.
- `WithinPolicyLimits`, `WithinTypeDiscipline` and `WithinCustomRules`
  restate spec section 4.2's items 1-5, 6 and 7 as a reference.

`MCSimulatorState.tla`, `MCWasmRuntime.tla`, `MCStateRegistry.tla` and
`MCOperators.tla` fix the constants for TLC. `MCOperators` checks the pure
components, the codec and the validator, as invariants over a constant input
chosen in `Init`.

## 4. Runs

| Run | Expect | Checks | Shows |
|---|---|---|---|
| `simstate_seq` | pass | `TypeOK`, `TransferIsAtomic` | One caller's transfers, mints and registry calls refine `Ledger`. |
| `simstate_race` | violation | `TransferIsAtomic` | Two concurrent `TransferBalance`s lose a credit: both read the recipient's balance before either writes. |
| `runtime_call` | pass | `TypeOK`, `FuelConserved`, `CallInfoOnlyForLiveCalls`, `CacheHoldsAccepted`, `NoStoreForRejected`, `PaidBeforeRun`, `CallsReturn` | Two goroutines over every path of a call, one of them making nested calls on a child frame. The results (44,235 states): fuel held, fuel lent to a nested call and fuel burned add up to the budget; the map entry lives exactly as long as the call; the cache holds only validated modules; a refused module never gets a store; a call whose value did not move runs no guest code; every call returns. |
| `runtime_callerinfo_race` | violation | `NoConcurrentMapWrite` | Two goroutines write `r.callerInfo` at once. |
| `runtime_instance_error` | violation | `InstanceErrorBeforeMutation` | A paid call whose `alloc` export is a global moves the value, then fails with an Instance error. |
| `runtime_host_panic` | violation | `NoHostPanic` | A validated module without an `alloc` export makes `CallContract` panic. |
| `registry_seq` | pass | `StoreRefinement` | One goroutine issuing every FFI call and callback (with a nil state pointer too) refines `StateStore` (4,021 states). With one goroutine the map keeps every state reachable, so the finalizer never runs here. |
| `registry_concurrent` | pass | `TypeOK` | Two goroutines, one writing through a `ContractState` and one calling back through `get_value_callback`, race on one id. A displaced state is then finalized, and every registration, handle and result stays within its type (905 states). This is the passing run in which `Finalize` fires. |
| `registry_race` | violation | `StoreRefinement` | Two goroutines wrapping the same new id both insert a state; the second replaces the first after it was written, and the data vanishes. |
| `ffi_call_panic` | violation | `CallContractNeverPanics` | FFI `CallContract` always fails before an instance exists and then reads `RemainingFuel` of a nil instance. |
| `codec_layout` | pass | `MarshalledDecodes`, `UnmarshalNeverPanics`, `AcceptedWithinLimits`, `PolicyAccepted` | Every resource within the bounds round-trips (id, name, abilities, data, moved), and Unmarshal of every byte string up to 8 bytes returns without reading past the end. `ValidateModule`, for every validator built from up to two options or from a config, accepts only modules within the limits and the memory-growth rule, and accepts every module spec 4.2 admits (34,873 states). |
| `codec_owner` | violation | `OwnerPreserved` | The data-length field overwrites the last byte of the 33-byte owner address, which Unmarshal never restores. |

Each property of a passing run has a mutant in `PROJECT.json`: a plausible bug
in a mapped definition under which TLC finds the property violated.
- `TransferIsAtomic`, `TypeOK` (`simstate_seq`): an off-by-one in the
  insufficiency check.
- `FuelConserved`: `RemainingFuel` answering the `CallInfo`'s budget (its
  error branch) instead of the store's fuel.
- `NoStoreForRejected`: `getModule` going on to `getInstance` after refusing
  a module.
- `PaidBeforeRun`: a failed value transfer ignored.
- `CallInfoOnlyForLiveCalls`: an error path that skips the deferred delete.
- `CallsReturn` (`runtime_call`): metering without the out-of-fuel trap.
- `TypeOK` (`runtime_call`): a put that does not replace an existing key.
- `CacheHoldsAccepted`: `getModule` without `validateModule`.
- `TypeOK` (`registry_concurrent`): a wrap that reuses an existing handle.
- `StoreRefinement`: a wrap that inserts without looking the id up.
- `MarshalledDecodes`: a size computation without the moved-flag byte.
- `UnmarshalNeverPanics`: a data-length check without the `-1` for the flag.
- `AcceptedWithinLimits`: a memory or table limit check that ignores the
  declared maximum.
- `PolicyAccepted`: `validateFloatingPoint` without its allow-list shortcut,
  so `WithDeterministicFloatingPoint` refuses every float signature.

## 5. Bounds

- **SimulatorState.** Three addresses (the empty one and two accounts), one
  contract ID, one code, amounts {1, 2}, `MaxCalls` = 3, `Word` = 8: three
  mints of at most 2 stay below 8. The race run has two callers with two
  calls each, enough for two transfers to overlap in every order.
- **WasmRuntime.** Seven code descriptors, each on one side of one limit or
  exercising one branch; limits scaled to 4/3/2/2; `Word` = 8; fuel budgets
  0, 1 or 3, so that `alloc`, metering and `consume_fuel(2)` can each exhaust
  the fuel; `CacheSize` = 4 with weights 2 and 3, so a second module evicts
  the first. `runtime_call` has two goroutines with one call each, and
  goroutine `t1` has a child frame `c1`. A nested call reserves 2 fuel, so
  that the child can burn 1 on `alloc` and refund 1, or run out. It targets
  either the good contract or an address without one. Two calls per thread
  exceed five minutes without reaching new branches. The `burned` tally
  saturates at `Word`; a call that conserves fuel never gets there, and the
  cap keeps the state space finite under a mutant that wraps.
- **StateRegistry.** One state id (every race is on one id), two addresses,
  one contract, one guest key plus the empty key, one value plus the empty
  value, `Word` = 4. `MaxObjs` bounds the handles ever allocated (3 or 4: a
  wrap, a finalize and a re-wrap), `MaxCalls` the requests per goroutine.
  `registry_seq` serves 24 requests covering every kind and every early
  return, seven of them with a nil state pointer, five calls on its one
  goroutine. `registry_concurrent` and `registry_race` have two goroutines
  with two calls each and four handles: enough for both to miss on the id,
  both to register, and the displaced state to be finalized.
- **ResourceCodec.** Bytes 0..2, a 1-byte id, a 2-byte owner in a 1-byte
  slot (one byte short, as 33 in 32), 1-digit lengths and 2-byte abilities.
  Resources have names and data of up to 1 byte and up to 2 abilities; the
  Unmarshal inputs are every string of up to 8 bytes, which reaches each
  check on both sides.
- **Validator.** Limits scaled so that every count and size limit is 1,
  except `MaxExports` = 2. The exports are up to two of nine externs, plus
  one module with three exports. The nine are a function with an `i32`
  parameter, one with an `f32` result, a global, memories (1,1), (1,none),
  (1,2) and (2,2), and tables (1,1) and (1,2). The imports are up to two of
  an `i64` function, a global and an unbounded memory. Every module has at
  most one memory, and there are modules over the size limit or not parsing.
  The 21 validators are built from every sequence of up to two options
  (`WithCustomMemoryLimits(0)` among them), or from a config with or without
  the default rules and with no custom rule, or with one of a custom memory
  cap, a float ban, or an `i64` ban. Each limit is reached and exceeded by one.

## 6. Fairness

`WasmRuntime.Spec` assumes weak fairness of each
goroutine's steps (a child frame's steps are its goroutine's, run while
the parent waits in the host import): a runnable goroutine is eventually
scheduled, and no step
blocks except on a mutex that every holder releases in the same step. The
finalizer gets no fairness: Go does not promise that a finalizer ever runs.
`StateRegistry`, `SimulatorState`, `ResourceCodec` and `Validator` check
safety only. No step of the registry waits or loops, so a liveness property
there would hold by the model's shape.

## 7. Not modelled, and why

- **Modelled from the spec.** The host import modules (`call_contract`,
  `state`, `balance`, `log`), `NewConfig` and `SizedLRU` are not in `src/`.
  The cache and the `ConsumeFuel` trap semantics are modelled from the spec.
- **`customSerialize`, the parameter buffer and `set_result` payloads.** Byte
  layout; no property here depends on the bytes.
- **The epoch deadline.** It is set to 1 and never advanced (spec section 9).
- **Resource manager.** Its method bodies are blank in this repository.
- **Early error returns that touch no state.** A nil `ctx` or `path`, and a
  failing `crypto/rand.Read` in `CreateContract`, return an error response
  before any state is read or written. They change nothing the properties
  look at, so they are left out. The nil `statePtr` is modelled.
- **Nested calls against spec section 7.** The spec says unused child fuel
  is "always credited back to the parent, even on child error". With
  `RemainingFuel` as written, a child that fails before `getInstance` makes
  the host panic instead. The spec also says a nested call's value should
  come from the calling contract, but the source takes it from
  `callInfo.Actor`. Both are hazards without a violation run. The model's
  nested calls carry no value.
- **Two validator defects without a run.** The project keeps at most twelve
  runs, and each violation run checks a finding. Two defects the
  `Validator` model exposes are therefore recorded only as hazards:
  - `ValidateSecurityRules` sends a memory-typed rule to
    `validateMemoryOperations`, which never calls the rule's `Validator`.
    `WithCustomMemoryLimits` therefore has no effect: with
    `WithCustomMemoryLimits(0)`, a module exporting a one-page memory is
    accepted.
  - Memories are checked only when exported, while spec 4.2 item 4 speaks
    of every declared memory.
  `AcceptedWithinLimits` is stated over exported memories, as the code
  checks them.
- **The resource validator** (`ruleValidator` and `NewResourceRuleValidator`,
  `unnamed/part_008` 779-907; `ValidateBalanceNotNegative`, 925-938). These
  have bodies: type, move and update checks against per-type rules, and a
  balance check. They belong to the resource object model, which spec
  sections 1 and 9 put outside the runtime modelled here. No contract call,
  deploy or state operation under `src/` calls them, and they change no
  state. `validation/validator.go` and `testutils/mock_validator.go` hold an
  interface and a mock.
- **The cgo bridge** (`unnamed/part_001`) is not modelled. Each of its
  defects would be a violation run, and there is no run slot left:
  - `hypersdk_get_state` always indexes an empty slice;
  - deploy and call use the `contracts` map without the mutex;
  - contracts sharing their first 32 bytes overwrite each other.
  They are listed as hazards.
- **The resource `TypeSystem`, `AbilitySet` and `BalanceResource`** lie
  outside the runtime's call path. The spec's open question on the "unused
  resource object model" excludes them.
- **Resource accessors** (`Type`, `ID`, `Owner`, `IsMoved`, `Data`) are
  field reads.
