------------------------------- MODULE Ledger -------------------------------
(***************************************************************************)
(* What the balance half of the StateManager interface promises (spec     *)
(* section 6.1 and section 7): transfer_balance(from, to, amount) moves    *)
(* the whole amount in one indivisible step or fails with no effect.  It   *)
(* fails on insufficient funds and on arithmetic overflow.  A transfer     *)
(* from the empty address mints: nothing is debited.  Balances are         *)
(* unsigned counters below Word (2^64 in the code, scaled down here).      *)
(***************************************************************************)
EXTENDS Naturals

CONSTANTS
  Addrs,          \* account addresses
  EmptyAddress,   \* codec.EmptyAddress: a transfer from it mints
  Amounts,        \* amounts a caller may transfer
  Word            \* 2^width of a balance

ASSUME EmptyAddress \in Addrs /\ Word \in Nat \ {0}

VARIABLE bal

Balance == 0 .. Word - 1

\* The balances once `from` is debited (nothing is debited when minting).
Debited(from, amt) ==
  IF from = EmptyAddress THEN bal ELSE [bal EXCEPT ![from] = @ - amt]

\* A transfer succeeds only when `from` holds the amount and the credit
\* does not overflow the recipient's counter.
CanTransfer(from, to, amt) ==
  /\ from = EmptyAddress \/ bal[from] >= amt
  /\ Debited(from, amt)[to] + amt < Word

Transfer(from, to, amt) ==
  /\ CanTransfer(from, to, amt)
  /\ bal' = [Debited(from, amt) EXCEPT ![to] = @ + amt]

Init == bal = [a \in Addrs |-> 0]

Next == \E from, to \in Addrs, amt \in Amounts : Transfer(from, to, amt)

Spec == Init /\ [][Next]_bal

TypeOK == bal \in [Addrs -> Balance]
=============================================================================
