\* Two callers transfer at once: each TransferBalance takes the lock four times.
CONSTANTS
  Addrs = {e, a1, a2}
  EmptyAddress = e
  ContractIDs = {id1}
  Codes = {w1}
  NoValue = NoValue
  NilID = NilID
  Amounts <- MCAmounts
  Callers = {c1, c2}
  Word <- MCWordWide
  MaxCalls = 2
SPECIFICATION Spec
PROPERTY TransferIsAtomic
