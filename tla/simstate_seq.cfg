\* One caller: TransferBalance and the registry calls in sequence.
CONSTANTS
  Callers = {c1}
  Addrs = {e, a1, a2}
  EmptyAddress = e
  ContractIDs = {id1}
  Codes = {w1}
  NoValue = NoValue
  NilID = NilID
  Amounts <- MCAmounts
  Word <- MCWordWide
  MaxCalls = 3
SPECIFICATION Spec
INVARIANT TypeOK
PROPERTY TransferIsAtomic
