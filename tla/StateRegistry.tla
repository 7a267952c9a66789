--------------------------- MODULE StateRegistry ---------------------------
(***************************************************************************)
(* The simulator's process-global state registry (simulator/state/state.go)*)
(* and the cgo entry points that reach it (simulator/ffi/ffi.go).          *)
(*                                                                         *)
(* A caller names a state by a uint64 id.  WrapSimulatorState looks the id *)
(* up in stateMap under stateMu.RLock and, on a miss, creates a fresh      *)
(* SimulatorState and stores it under a separate stateMu.Lock, attaching a *)
(* finalizer that deletes stateMap[s.id].  The C callbacks look the id up  *)
(* and fail on a miss.  Every operation on one SimulatorState is atomic    *)
(* under its own s.mu, so it is one step here; SetBalance's mint reads and *)
(* writes under two acquisitions, so it is two.                            *)
(*                                                                         *)
(* SimulatorState objects are the handles 1..MaxObjs, allocated in order.  *)
(* The flat keys of s.data are tagged tuples: the byte strings they stand  *)
(* for have disjoint lengths or prefixes (32-byte contract ids, 33-byte    *)
(* account addresses, address||key for contract state, "balance:..").     *)
(***************************************************************************)
EXTENDS Naturals, FiniteSets, Functions

CONSTANTS
    Threads,        \* goroutines entering through cgo
    Ids,            \* state ids the embedder passes by pointer
    NilPtr,         \* a nil state pointer, not an id
    Addrs, ContractIDs, Codes,
    GuestKeys,      \* keys a contract passes to its state view
    EmptyKey,       \* the zero-length key, a member of GuestKeys
    Vals,           \* stored values
    EmptyVal,       \* the zero-length value, a member of Vals
    Amounts, Word,  \* SetBalance amounts; 2^64 scaled down
    CidAddr,        \* [ContractIDs -> Addrs]: the address built from an id
    NoFile,         \* a contract path os.ReadFile cannot read
    Requests,       \* the calls goroutines make, see Kinds
    Missing, NoObj, Error, Panic, Ok, None,
    MaxObjs,        \* bound on SimulatorState objects ever allocated
    MaxCalls        \* bound on calls per goroutine

Objs == 1..MaxObjs

BalanceKey(a) == <<"balance", a>>
AccountKey(a) == <<"account", a>>
CodeKey(id)   == <<"code", id>>
\* ContractState: append(c.address[:], key...)
PrefixedKey(a, k) == <<"contract", a, k>>

FlatKeys ==
    {BalanceKey(a) : a \in Addrs} \union {AccountKey(a) : a \in Addrs}
    \union {CodeKey(id) : id \in ContractIDs}
    \union {PrefixedKey(a, k) : a \in Addrs, k \in GuestKeys \ {EmptyKey}}

Values == Vals \union ContractIDs \union Codes \union (0..(Word - 1))

EmptyData == [k \in FlatKeys |-> Missing]

CallbackKinds == {"cbGet", "cbInsert", "cbRemove"}

Results == Values \union Addrs \union {Missing, Error, Panic, Ok, None}

Stages == {"idle", "readFail", "wrapLookup", "wrapInsert", "cbLookup",
           "op", "mintWrite"}

VARIABLES
    stateMap,   \* stateMap: id -> *SimulatorState
    objId,      \* s.id of each allocated object
    alloc,      \* objects allocated so far
    finalized,  \* objects whose finalizer has run
    data,       \* s.data of each object
    pc, req,    \* each goroutine's stage and call
    held,       \* the *SimulatorState a goroutine has in hand
    got,        \* the last result returned to each goroutine
    read,       \* the balance the mint read under RLock
    calls

vars == <<stateMap, objId, alloc, finalized, data, pc, req, held, got, read,
          calls>>

TypeOK ==
    /\ stateMap \in [Ids -> Objs \union {NoObj}]
    /\ objId \in [Objs -> Ids \union {NoObj}]
    /\ alloc \in 0..MaxObjs
    /\ finalized \subseteq 1..alloc
    /\ data \in [Objs -> [FlatKeys -> Values \union {Missing}]]
    /\ pc \in [Threads -> Stages]
    /\ req \in [Threads -> Requests]
    /\ held \in [Threads -> (1..alloc) \union {NoObj}]
    /\ got \in [Threads -> Results]
    /\ read \in [Threads -> 0..(Word - 1)]
    /\ calls \in [Threads -> 0..MaxCalls]

Init ==
    /\ stateMap = [i \in Ids |-> NoObj]
    /\ objId = [o \in Objs |-> NoObj]
    /\ alloc = 0
    /\ finalized = {}
    /\ data = [o \in Objs |-> EmptyData]
    /\ pc = [t \in Threads |-> "idle"]
    /\ req = [t \in Threads |-> CHOOSE r \in Requests : TRUE]
    /\ held = [t \in Threads |-> NoObj]
    /\ got = [t \in Threads |-> None]
    /\ read = [t \in Threads |-> 0]
    /\ calls = [t \in Threads |-> 0]

\* Where a call starts: the callbacks look the id up, CreateContract reads
\* the contract file before it wraps the state, the rest wrap first.
Entry(r) ==
    IF r.kind \in CallbackKinds THEN "cbLookup"
    ELSE IF r.kind = "createContract" /\ r.code = NoFile THEN "readFail"
    ELSE "wrapLookup"

\* What the cgo exports return for a nil statePtr: CallContract and
\* CreateContract an ErrInvalidParam response, GetBalance 0, SetBalance
\* nothing.
NilResult(kind) ==
    CASE kind = "getBalance" -> 0 [] kind = "setBalance" -> None [] OTHER -> Error

\* A cgo export checks statePtr before anything else; the callbacks check
\* their data pointer themselves (CbNil).
Begin(t) ==
    /\ pc[t] = "idle"
    /\ calls[t] < MaxCalls
    /\ \E r \in Requests :
          /\ req' = [req EXCEPT ![t] = r]
          /\ IF r.id = NilPtr /\ r.kind \notin CallbackKinds
               THEN pc' = pc /\ got' = [got EXCEPT ![t] = NilResult(r.kind)]
               ELSE pc' = [pc EXCEPT ![t] = Entry(r)] /\ got' = [got EXCEPT ![t] = None]
    /\ calls' = [calls EXCEPT ![t] = @ + 1]
    /\ UNCHANGED <<stateMap, objId, alloc, finalized, data, held, read>>

\* Return from the call with result v, dropping the reference to the state.
Return(t, v) ==
    /\ pc' = [pc EXCEPT ![t] = "idle"]
    /\ held' = [held EXCEPT ![t] = NoObj]
    /\ got' = [got EXCEPT ![t] = v]

ReadFileFails(t) ==
    /\ pc[t] = "readFail"
    /\ Return(t, Error)
    /\ UNCHANGED <<stateMap, objId, alloc, finalized, data, req, read, calls>>

(***************************************************************************)
(* WrapSimulatorState: the lookup under RLock, then on a miss a fresh      *)
(* state stored under a separate Lock, overwriting whatever another        *)
(* goroutine stored meanwhile.                                             *)
(***************************************************************************)
WrapLookupNoCheck(t) ==
    /\ pc[t] = "wrapLookup"
    /\ pc' = [pc EXCEPT ![t] = "wrapInsert"]
    /\ UNCHANGED <<stateMap, objId, alloc, finalized, data, req, held, got, read, calls>>

WrapLookup(t) ==
    /\ pc[t] = "wrapLookup"
    /\ LET o == stateMap[req[t].id] IN
         \/ /\ o # NoObj
            /\ held' = [held EXCEPT ![t] = o]
            /\ pc' = [pc EXCEPT ![t] = "op"]
         \/ /\ o = NoObj
            /\ pc' = [pc EXCEPT ![t] = "wrapInsert"]
            /\ UNCHANGED held
    /\ UNCHANGED <<stateMap, objId, alloc, finalized, data, req, got, read, calls>>

WrapInsertSameHandle(t) ==
    /\ pc[t] = "wrapInsert"
    /\ LET o == alloc IN
         /\ stateMap' = [stateMap EXCEPT ![req[t].id] = o]
         /\ objId' = [objId EXCEPT ![o] = req[t].id]
         /\ held' = [held EXCEPT ![t] = o]
    /\ pc' = [pc EXCEPT ![t] = "op"]
    /\ UNCHANGED <<alloc, finalized, data, req, got, read, calls>>

WrapInsert(t) ==
    /\ pc[t] = "wrapInsert"
    /\ alloc < MaxObjs
    /\ LET o == alloc + 1 IN
         /\ alloc' = o
         /\ stateMap' = [stateMap EXCEPT ![req[t].id] = o]
         /\ objId' = [objId EXCEPT ![o] = req[t].id]
         /\ held' = [held EXCEPT ![t] = o]
    /\ pc' = [pc EXCEPT ![t] = "op"]
    /\ UNCHANGED <<finalized, data, req, got, read, calls>>

(***************************************************************************)
(* The C callbacks get_value_callback, insert_value_callback and          *)
(* remove_value_callback: a nil data pointer is the error "nil state       *)
(* object", then the id is looked up under RLock and a miss is the error  *)
(* "invalid state object"; a hit goes on to the state operation.           *)
(***************************************************************************)
CbNil(t) ==
    /\ pc[t] = "cbLookup"
    /\ req[t].id = NilPtr
    /\ Return(t, Error)
    /\ UNCHANGED <<stateMap, objId, alloc, finalized, data, req, read, calls>>

CbLookup(t) ==
    /\ pc[t] = "cbLookup"
    /\ req[t].id # NilPtr
    /\ LET o == stateMap[req[t].id] IN
         \/ /\ o # NoObj
            /\ held' = [held EXCEPT ![t] = o]
            /\ pc' = [pc EXCEPT ![t] = "op"]
            /\ UNCHANGED got
         \/ /\ o = NoObj
            /\ Return(t, Error)
    /\ UNCHANGED <<stateMap, objId, alloc, finalized, data, req, read, calls>>

GetValueCallback(t)    == req[t].kind = "cbGet" /\ (CbNil(t) \/ CbLookup(t))
InsertValueCallback(t) == req[t].kind = "cbInsert" /\ (CbNil(t) \/ CbLookup(t))
RemoveValueCallback(t) == req[t].kind = "cbRemove" /\ (CbNil(t) \/ CbLookup(t))

(***************************************************************************)
(* The finalizer: once nothing references an object (not the map, not a    *)
(* goroutine) the collector may at any later time run delete(stateMap,     *)
(* s.id), whatever the map then holds under that id.                       *)
(***************************************************************************)
Finalize(o) ==
    /\ o \in (1..alloc) \ finalized
    /\ o \notin Range(stateMap)
    /\ \A t \in Threads : held[t] # o
    /\ finalized' = finalized \union {o}
    /\ stateMap' = [stateMap EXCEPT ![objId[o]] = NoObj]
    /\ UNCHANGED <<objId, alloc, data, pc, req, held, got, read, calls>>

(***************************************************************************)
(* The key an operation reaches: the callbacks pass the raw key on,        *)
(* ContractState rejects an empty key and prefixes the contract address.   *)
(***************************************************************************)
OpKey(t) ==
    IF req[t].kind \in CallbackKinds \/ req[t].key = EmptyKey THEN req[t].key
    ELSE PrefixedKey(req[t].addr, req[t].key)

\* get_value_callback hands C no bytes for a nil or an empty value.
ToC(v) == IF v \in {Missing, EmptyVal} THEN Missing ELSE v

\* SimulatorState.GetValue, through get_value_callback or ContractState.
GetValue(t) ==
    /\ pc[t] = "op"
    /\ req[t].kind \in {"cbGet", "csGet"}
    /\ \/ OpKey(t) = EmptyKey /\ Return(t, Error)
       \/ /\ OpKey(t) # EmptyKey
          /\ LET v == data[held[t]][OpKey(t)] IN
               Return(t, IF req[t].kind = "cbGet" THEN ToC(v) ELSE v)
    /\ UNCHANGED <<stateMap, objId, alloc, finalized, data, req, read, calls>>

\* SimulatorState.Insert, through insert_value_callback or ContractState.
Insert(t) ==
    /\ pc[t] = "op"
    /\ req[t].kind \in {"cbInsert", "csInsert"}
    /\ \/ OpKey(t) = EmptyKey /\ Return(t, Error) /\ UNCHANGED data
       \/ /\ OpKey(t) # EmptyKey
          /\ data' = [data EXCEPT ![held[t]][OpKey(t)] = req[t].val]
          /\ Return(t, Ok)
    /\ UNCHANGED <<stateMap, objId, alloc, finalized, req, read, calls>>

\* SimulatorState.Remove, through remove_value_callback or ContractState.
Remove(t) ==
    /\ pc[t] = "op"
    /\ req[t].kind \in {"cbRemove", "csRemove"}
    /\ \/ OpKey(t) = EmptyKey /\ Return(t, Error) /\ UNCHANGED data
       \/ /\ OpKey(t) # EmptyKey
          /\ data' = [data EXCEPT ![held[t]][OpKey(t)] = Missing]
          /\ Return(t, Ok)
    /\ UNCHANGED <<stateMap, objId, alloc, finalized, req, read, calls>>

(***************************************************************************)
(* The cgo exports of ffi.go, each after WrapSimulatorState.               *)
(***************************************************************************)
GetBalance(t) ==
    /\ pc[t] = "op"
    /\ req[t].kind = "getBalance"
    /\ LET v == data[held[t]][BalanceKey(req[t].addr)] IN
         Return(t, IF v = Missing THEN 0 ELSE v)
    /\ UNCHANGED <<stateMap, objId, alloc, finalized, data, req, read, calls>>

\* SetBalance is TransferBalance(codec.Address{}, addr, balance): the empty
\* sender skips the debit, the credit reads under RLock ...
SetBalance(t) ==
    /\ pc[t] = "op"
    /\ req[t].kind = "setBalance"
    /\ LET v == data[held[t]][BalanceKey(req[t].addr)] IN
         read' = [read EXCEPT ![t] = IF v = Missing THEN 0 ELSE v]
    /\ pc' = [pc EXCEPT ![t] = "mintWrite"]
    /\ UNCHANGED <<stateMap, objId, alloc, finalized, data, req, held, got, calls>>

\* ... and writes toBalance + amount, a uint64 sum, under Lock.
MintWrite(t) ==
    /\ pc[t] = "mintWrite"
    /\ data' = [data EXCEPT ![held[t]][BalanceKey(req[t].addr)] =
                                (read[t] + req[t].amt) % Word]
    /\ Return(t, Ok)
    /\ UNCHANGED <<stateMap, objId, alloc, finalized, req, read, calls>>

\* CreateContract stores the code under the new id and returns the address
\* made of the id's bytes; no account is bound to that address.
CreateContract(t) ==
    /\ pc[t] = "op"
    /\ req[t].kind = "createContract"
    /\ data' = [data EXCEPT ![held[t]][CodeKey(req[t].cid)] = req[t].code]
    /\ Return(t, CidAddr[req[t].cid])
    /\ UNCHANGED <<stateMap, objId, alloc, finalized, req, read, calls>>

(***************************************************************************)
(* CallContract runs runtime.CallContract on the wrapped state.  Its first *)
(* step, GetAccountContract, fails on a missing or non-32-byte value and   *)
(* otherwise copies into a nil ContractID, whose code lookup is           *)
(* GetValue of an empty key: an error either way, before an instance      *)
(* exists.  newCallContractResponse's argument callInfo.RemainingFuel()    *)
(* then reads c.inst.store with c.inst nil.                                *)
(***************************************************************************)
\* GetAccountContract: an error, or the empty ID copy() leaves behind.
AccountContract(o, a) ==
    IF data[o][AccountKey(a)] \in ContractIDs THEN EmptyKey ELSE Error

\* GetContractBytes(id) is GetValue(id[:]), which refuses the empty key.
ContractBytes(o, id) == IF id = EmptyKey THEN Error ELSE data[o][CodeKey(id)]

CallContract(t) ==
    /\ pc[t] = "op"
    /\ req[t].kind = "callContract"
    /\ LET id == AccountContract(held[t], req[t].addr)
           code == IF id = Error THEN Error ELSE ContractBytes(held[t], id)
       IN  /\ code = Error
           /\ Return(t, Panic)
    /\ UNCHANGED <<stateMap, objId, alloc, finalized, data, req, read, calls>>

Step(t) ==
    \/ Begin(t) \/ ReadFileFails(t) \/ WrapLookup(t) \/ WrapInsert(t)
    \/ GetValueCallback(t) \/ InsertValueCallback(t) \/ RemoveValueCallback(t)
    \/ GetValue(t) \/ Insert(t) \/ Remove(t)
    \/ GetBalance(t) \/ SetBalance(t) \/ MintWrite(t)
    \/ CreateContract(t) \/ CallContract(t)

\* Every goroutine has made its calls: the embedder stops.
Done ==
    /\ \A t \in Threads : pc[t] = "idle" /\ calls[t] = MaxCalls
    /\ UNCHANGED vars

Next == (\E t \in Threads : Step(t)) \/ (\E o \in Objs : Finalize(o)) \/ Done

Spec == Init /\ [][Next]_vars

-----------------------------------------------------------------------------
(***************************************************************************)
(* Properties.                                                             *)
(***************************************************************************)

\* What an id names: the state registered under it, or a fresh empty one
\* (the next WrapSimulatorState creates it).
Registered == [i \in Ids |-> IF stateMap[i] = NoObj THEN EmptyData
                             ELSE data[stateMap[i]]]

S == INSTANCE StateStore WITH Keys <- FlatKeys, store <- Registered

\* The state an id names changes only by one insert or one remove: the
\* registration in WrapSimulatorState and the finalizer's delete never
\* swap or drop a state that holds data.
StoreRefinement == S!Spec

\* CallContract returns a response, an error included, and never panics
\* across the cgo boundary.
CallContractNeverPanics == \A t \in Threads : got[t] # Panic
=============================================================================
