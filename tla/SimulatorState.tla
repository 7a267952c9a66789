--------------------------- MODULE SimulatorState ---------------------------
(***************************************************************************)
(* The simulator's StateManager (x/contracts/simulator/state/state.go):   *)
(* one SimulatorState whose data map is guarded by an RWMutex and which    *)
(* several goroutines call at once (the tests in simulator_test.go call it *)
(* from concurrent goroutines).                                            *)
(*                                                                         *)
(* Every lock acquisition of the code is one step here.  GetValue, Insert  *)
(* and the account/contract registry calls built on them take the lock     *)
(* once and are atomic.  TransferBalance takes it four times: it reads the *)
(* sender's balance, writes the debited balance, reads the recipient's     *)
(* balance and writes the credited one, so its locals live in op[c]        *)
(* between those steps.  Data is abstracted: the value under a balance key *)
(* is the uint64 it encodes, wrapping modulo Word; the value under an      *)
(* account key is the contract ID it stores, under a contract ID key the   *)
(* code it stores.                                                         *)
(***************************************************************************)
EXTENDS Naturals, FiniteSets, FiniteSetsExt

CONSTANTS
  Callers,        \* goroutines calling into the state
  Addrs,          \* codec.Address values used as accounts
  EmptyAddress,   \* codec.EmptyAddress: a transfer from it mints
  ContractIDs,    \* runtime.ContractID values (32 bytes each)
  Codes,          \* contract code blobs
  Amounts,        \* amounts passed to TransferBalance
  Word,           \* 2^64 scaled down: a balance is a uint64
  NoValue,        \* a key absent from s.data
  NilID,          \* the empty runtime.ContractID{} (a nil byte slice)
  MaxCalls        \* calls each caller makes

ASSUME
  /\ EmptyAddress \in Addrs
  /\ Amounts \subseteq 0 .. Word - 1
  /\ NoValue \notin ContractIDs \cup Codes
  /\ NilID \notin ContractIDs
  /\ MaxCalls \in Nat

VARIABLES
  bal,      \* bal[a]: the balance decoded from s.data[balanceKey(a)] (0 when absent)
  acct,     \* acct[a]: s.data[string(account[:])], a contract ID or NoValue
  code,     \* code[id]: s.data[string(contractID[:])], contract code or NoValue
  op,       \* op[c]: the TransferBalance caller c is inside, with its locals
  got,      \* the last GetAccountContract call: account, value read, ID returned
  calls     \* calls[c]: calls caller c has made

vars == <<bal, acct, code, op, got, calls>>

Balance == 0 .. Word - 1

Idle == [pc |-> "idle", from |-> EmptyAddress, to |-> EmptyAddress,
         amt |-> 0, read |-> 0]

OpState == [pc : {"idle", "readFrom", "writeFrom", "readTo", "writeTo"},
            from : Addrs, to : Addrs, amt : {0} \cup Amounts, read : Balance]

Error == "error"

TypeOK ==
  /\ bal \in [Addrs -> Balance]
  /\ acct \in [Addrs -> ContractIDs \cup {NoValue}]
  /\ code \in [ContractIDs -> Codes \cup {NoValue}]
  /\ op \in [Callers -> OpState]
  /\ got \in [acct : Addrs \cup {NoValue}, read : ContractIDs \cup {NoValue},
              ret : ContractIDs \cup {NilID, Error}]
  /\ calls \in [Callers -> 0 .. MaxCalls]

Init ==
  /\ bal = [a \in Addrs |-> 0]
  /\ acct = [a \in Addrs |-> NoValue]
  /\ code = [id \in ContractIDs |-> NoValue]
  /\ op = [c \in Callers |-> Idle]
  /\ got = [acct |-> NoValue, read |-> NoValue, ret |-> Error]
  /\ calls = [c \in Callers |-> 0]

\* A caller may start a call when it is idle and has calls left.
StartCall(c) ==
  /\ op[c].pc = "idle"
  /\ calls[c] < MaxCalls
  /\ calls' = [calls EXCEPT ![c] = @ + 1]

-----------------------------------------------------------------------------
(* TransferBalance(from, to, amount), one step per lock acquisition.      *)

\* Entry: a transfer from EmptyAddress skips the debit and goes straight
\* to reading the recipient's balance.
TransferBalance(c, from, to, amt) ==
  /\ StartCall(c)
  /\ op' = [op EXCEPT ![c] = [pc |-> IF from = EmptyAddress THEN "readTo"
                                                             ELSE "readFrom",
                              from |-> from, to |-> to, amt |-> amt, read |-> 0]]
  /\ UNCHANGED <<bal, acct, code, got>>

\* (mutant) the insufficiency check off by one: fromBalance+1 < amount.
ReadFromBalanceOffByOne(c) ==
  LET o == op[c] IN
  /\ o.pc = "readFrom"
  /\ \/ /\ bal[o.from] + 1 < o.amt
        /\ op' = [op EXCEPT ![c] = Idle]
     \/ /\ bal[o.from] + 1 >= o.amt
        /\ op' = [op EXCEPT ![c] = [o EXCEPT !.pc = "writeFrom",
                                             !.read = bal[o.from]]]
  /\ UNCHANGED <<bal, acct, code, got, calls>>

\* fromBalance := GetBalance(from) under RLock; return "insufficient
\* balance" when it is below the amount.
ReadFromBalance(c) ==
  LET o == op[c] IN
  /\ o.pc = "readFrom"
  /\ \/ /\ bal[o.from] < o.amt
        /\ op' = [op EXCEPT ![c] = Idle]
     \/ /\ bal[o.from] >= o.amt
        /\ op' = [op EXCEPT ![c] = [o EXCEPT !.pc = "writeFrom",
                                             !.read = bal[o.from]]]
  /\ UNCHANGED <<bal, acct, code, got, calls>>

\* s.data[balanceKey(from)] = fromBalance - amount under Lock.
WriteFromBalance(c) ==
  LET o == op[c] IN
  /\ o.pc = "writeFrom"
  /\ bal' = [bal EXCEPT ![o.from] = o.read - o.amt]
  /\ op' = [op EXCEPT ![c] = [o EXCEPT !.pc = "readTo"]]
  /\ UNCHANGED <<acct, code, got, calls>>

\* toBalance := GetBalance(to) under RLock.
ReadToBalance(c) ==
  LET o == op[c] IN
  /\ o.pc = "readTo"
  /\ op' = [op EXCEPT ![c] = [o EXCEPT !.pc = "writeTo", !.read = bal[o.to]]]
  /\ UNCHANGED <<bal, acct, code, got, calls>>

\* s.data[balanceKey(to)] = toBalance + amount under Lock; the uint64
\* addition wraps and nothing checks it.
WriteToBalance(c) ==
  LET o == op[c] IN
  /\ o.pc = "writeTo"
  /\ bal' = [bal EXCEPT ![o.to] = (o.read + o.amt) % Word]
  /\ op' = [op EXCEPT ![c] = Idle]
  /\ UNCHANGED <<acct, code, got, calls>>

-----------------------------------------------------------------------------
(* The contract registry: each call is one Insert or GetValue.            *)

\* SetContractBytes: Insert(contractID[:], code).
SetContractBytes(c, id, cd) ==
  /\ StartCall(c)
  /\ code' = [code EXCEPT ![id] = cd]
  /\ UNCHANGED <<bal, acct, op, got>>

\* SetAccountContract: Insert(account[:], contractID[:]).
SetAccountContract(c, a, id) ==
  /\ StartCall(c)
  /\ acct' = [acct EXCEPT ![a] = id]
  /\ UNCHANGED <<bal, code, op, got>>

\* NewAccountWithContract: a fresh random address, then SetAccountContract.
NewAccountWithContract(c, id) ==
  /\ StartCall(c)
  /\ \E a \in Addrs \ {EmptyAddress} :
       /\ acct[a] = NoValue
       /\ acct' = [acct EXCEPT ![a] = id]
  /\ UNCHANGED <<bal, code, op, got>>

\* GetAccountContract: GetValue(account[:]); a value whose length is not 32
\* (an absent key reads as nil) is an error; otherwise the value is copied
\* into `var contractID runtime.ContractID`, a nil slice, so copy moves no
\* bytes and the empty ID is returned.
GetAccountContract(c, a) ==
  /\ StartCall(c)
  /\ got' = [acct |-> a, read |-> acct[a],
             ret |-> IF acct[a] = NoValue THEN Error ELSE NilID]
  /\ UNCHANGED <<bal, acct, code, op>>

-----------------------------------------------------------------------------
\* The model's bound on calls is spent and every call has returned.
Done ==
  /\ \A c \in Callers : op[c].pc = "idle" /\ calls[c] = MaxCalls
  /\ UNCHANGED vars

Next ==
  \/ \E c \in Callers :
       \/ \E from, to \in Addrs, amt \in Amounts : TransferBalance(c, from, to, amt)
       \/ ReadFromBalance(c)
       \/ WriteFromBalance(c)
       \/ ReadToBalance(c)
       \/ WriteToBalance(c)
       \/ \E id \in ContractIDs, cd \in Codes : SetContractBytes(c, id, cd)
       \/ \E a \in Addrs, id \in ContractIDs : SetAccountContract(c, a, id)
       \/ \E id \in ContractIDs : NewAccountWithContract(c, id)
       \/ \E a \in Addrs : GetAccountContract(c, a)
  \/ Done

Spec == Init /\ [][Next]_vars
-----------------------------------------------------------------------------
(* Refinement of Ledger.  A transfer takes effect, in the abstract, at the *)
(* step that debits the sender (at entry for a mint): from then until the  *)
(* credit is written the amount is in flight to the recipient.            *)

\* Callers that have debited (or are minting) and not yet credited.
InFlightTo(a) == {c \in Callers : op[c].pc \in {"readTo", "writeTo"} /\ op[c].to = a}

LedgerBal == [a \in Addrs |-> bal[a] + MapThenSumSet(LAMBDA c : op[c].amt, InFlightTo(a))]

L == INSTANCE Ledger WITH bal <- LedgerBal

\* TransferBalance behaves as Ledger's atomic transfer: every debit is
\* covered by the sender's balance, the credit lands on the balance the
\* debit left in place (no update of another caller is lost or applied
\* twice), and no credit wraps the recipient's uint64.
TransferIsAtomic == L!Spec
=============================================================================
