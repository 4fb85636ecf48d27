-------------------------- MODULE LedgerContract --------------------------
(***************************************************************************)
(* What wallet-service promises the payment saga about the ledger: a debit *)
(* is one indivisible movement of money, made at most once per             *)
(* idempotency key, that leaves no wallet overdrawn.  How it is made, in   *)
(* statements of a transaction under row locks, is module WalletLedger.    *)
(***************************************************************************)
EXTENDS Integers

CONSTANTS
  Wallets,        \* the tenant's wallets
  Payments,       \* payments to debit; the key is "debit:<payment>"
  From,           \* source wallet of a payment
  Total(_),       \* principal and fee of a payment, in cents
  Arrives(_, _),  \* Arrives(p, w): what payment p brings to wallet w
  Opening         \* opening balance of each wallet

VARIABLES
  held,           \* balance of each wallet
  moved           \* payments whose money has moved

Init ==
  /\ held = Opening
  /\ moved = {}

(* The source loses the total; every wallet gains what the payment brings. *)
Move(p) ==
  /\ p \notin moved
  /\ held[From[p]] >= Total(p)
  /\ moved' = moved \union {p}
  /\ held' = [w \in Wallets |->
                held[w] + Arrives(p, w) - (IF w = From[p] THEN Total(p) ELSE 0)]

Next == \E p \in Payments : Move(p)

Spec == Init /\ [][Next]_<<held, moved>>
============================================================================
