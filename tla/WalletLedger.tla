--------------------------- MODULE WalletLedger ---------------------------
(***************************************************************************)
(* wallet-service's debit (services/wallet-service/src/index.mjs) over the *)
(* double-entry ledger (ledger.mjs, 0010_ledger.sql).                      *)
(*                                                                         *)
(* A debit is one database transaction at READ COMMITTED.  It locks the    *)
(* source wallet's row, looks its idempotency key up, checks the balance,  *)
(* and then creates or touches the ledger accounts it will post to; each   *)
(* INSERT ... ON CONFLICT DO UPDATE holds that account's row until the     *)
(* transaction ends.  One action below is one such statement, so any       *)
(* number of debits interleave between statements, wait for each other's   *)
(* rows, and are ended by Postgres when they wait too long or in a circle. *)
(*                                                                         *)
(* The balance of an account is a view over append-only entries; here the  *)
(* sum is kept per account and moved by each posted entry.                 *)
(***************************************************************************)
EXTENDS Integers

CONSTANTS
  Wallets,         \* wallet.wallets
  Active,          \* the wallets whose status is Active
  AssetOf,         \* asset of each wallet
  Payments,        \* payments the saga debits, key "debit:<payment>"
  From,            \* source wallet of a payment
  To,              \* destinationWalletId of a payment, or Outside
  Principal,       \* amount of a payment, in cents
  Fee,             \* its fee, in cents
  SumDrifts,       \* payments whose principal + fee, added as JS numbers,
                   \* comes out above the exact sum of cents
  Opening,         \* opening balance of a wallet
  Txs,             \* connections of wallet-service's pool
  Outside,         \* no destination wallet: the money leaves the group
  Nobody,          \* no payment, no lock holder
  MaxCalls         \* bound: how many debit requests are made altogether

ASSUME LedgerConstants ==
  /\ Active \subseteq Wallets
  /\ From \in [Payments -> Wallets]
  /\ To \in [Payments -> Wallets \union {Outside}]
  /\ Principal \in [Payments -> Nat \ {0}]
  /\ Fee \in [Payments -> Nat]
  /\ Opening \in [Wallets -> Nat]
  /\ SumDrifts \subseteq Payments
  /\ MaxCalls \in Nat
  /\ Outside \notin Wallets
  /\ Nobody \notin Payments
  /\ Nobody \notin Txs

----------------------------------------------------------------------------
(* Accounts and locks                                                      *)

(* ledger_accounts: one per wallet, and one shared account of each type for
   each asset.                                                             *)
WalletAccount(w) == <<"wallet", w>>
SharedAccount(type, w) == <<type, AssetOf[w]>>

Accounts ==
  {WalletAccount(w) : w \in Wallets}
    \union {SharedAccount(type, w) :
              type \in {"fees", "settlement_clearing"}, w \in Wallets}

(* What a transaction can lock: a wallet's row or an account's row.        *)
Row(w) == <<"row", w>>
Lockable == Accounts \union {Row(w) : w \in Wallets}

Total(p) == Principal[p] + Fee[p]

(* Mutant: the books before the ledger, where an intra-group principal never
   arrived: it is always credited to the clearing account.                 *)
ToClearing(p) == SharedAccount("settlement_clearing", From[p])

(* The account the principal is credited to: the destination wallet's when
   it is another active wallet of the same asset, the clearing account
   otherwise.                                                              *)
ToAccount(p) ==
  IF /\ To[p] \in Active \ {From[p]}
     /\ AssetOf[To[p]] = AssetOf[From[p]]
  THEN WalletAccount(To[p])
  ELSE SharedAccount("settlement_clearing", From[p])

(* The entries of a debit: what it adds to each account.                   *)
Entry(p, a) ==
  (IF a = WalletAccount(From[p]) THEN -Total(p) ELSE 0)
    + (IF a = ToAccount(p) THEN Principal[p] ELSE 0)
    + (IF a = SharedAccount("fees", From[p]) THEN Fee[p] ELSE 0)

----------------------------------------------------------------------------
VARIABLES
  balance,         \* sum of the committed entries of each account
  accounts,        \* committed rows of ledger_accounts
  posted,          \* ledger_transactions: committed postings of each key
  holder,          \* the transaction holding each row lock
  pc,              \* next statement of each transaction
  req,             \* the payment a transaction debits
  calls,           \* requests made so far
  answers          \* answers the saga received, <<payment, answer>>

db == <<balance, accounts, posted>>
vars == <<balance, accounts, posted, holder, pc, req, calls, answers>>

Statements ==
  {"row", "lookup", "funds", "source", "destination", "reference", "fees", "post"}

LedgerType ==
  /\ balance \in [Accounts -> Int]
  /\ accounts \subseteq Accounts
  /\ posted \in [Payments -> Nat]
  /\ holder \in [Lockable -> Txs \union {Nobody}]
  /\ pc \in [Txs -> Statements \union {"idle"}]
  /\ req \in [Txs -> Payments \union {Nobody}]
  /\ calls \in 0..MaxCalls
  /\ answers \subseteq Payments \X {"debited", "refused"}

(* reseedWallets: a wallet with a balance gets its account and one posting
   from the opening_balance account, which no debit touches; a wallet without
   one has no account yet.                                                 *)
LedgerInit ==
  /\ balance = [a \in Accounts |-> IF a[1] = "wallet" THEN Opening[a[2]] ELSE 0]
  /\ accounts = {WalletAccount(w) : w \in {v \in Wallets : Opening[v] > 0}}
  /\ posted = [p \in Payments |-> 0]
  /\ holder = [l \in Lockable |-> Nobody]
  /\ pc = [t \in Txs |-> "idle"]
  /\ req = [t \in Txs |-> Nobody]
  /\ calls = 0
  /\ answers = {}

----------------------------------------------------------------------------
(* Locks                                                                   *)

Free(t, l) == holder[l] \in {t, Nobody}

(* COMMIT or ROLLBACK: the transaction's locks go and the connection returns
   to the pool.                                                            *)
End(t) ==
  /\ holder' = [l \in Lockable |-> IF holder[l] = t THEN Nobody ELSE holder[l]]
  /\ pc' = [pc EXCEPT ![t] = "idle"]
  /\ req' = [req EXCEPT ![t] = Nobody]

(* The row the next statement of a transaction locks, if any.  The foreign key
   of a new wallet account takes FOR KEY SHARE on that wallet's row, which
   waits for a debit of that wallet in progress.                           *)
Locks(t) ==
  LET p == req[t]
  IN CASE pc[t] = "row" -> {Row(From[p])}
       [] pc[t] = "source" -> {WalletAccount(From[p])}
       [] pc[t] = "destination" -> {ToAccount(p)}
       [] pc[t] = "reference" -> {Row(w) : w \in {v \in Wallets : WalletAccount(v) = ToAccount(p)}}
       [] pc[t] = "fees" -> {a \in {SharedAccount("fees", From[p])} : Fee[p] > 0}
       [] OTHER -> {}

Blocked(t) == \E l \in Locks(t) : ~Free(t, l)

(* The statement at pc takes its lock, waiting while another transaction has
   it, and the transaction goes on to the next one.                        *)
TakeLock(t, next) ==
  /\ ~Blocked(t)
  /\ holder' = [l \in Lockable |-> IF l \in Locks(t) THEN t ELSE holder[l]]
  /\ pc' = [pc EXCEPT ![t] = next]
  /\ UNCHANGED <<db, req, calls, answers>>

(* The reply reaches the saga, or its 2.5 s timeout came first.            *)
Reply(p, answer) ==
  \/ answers' = answers \union {<<p, answer>>}
  \/ UNCHANGED answers

----------------------------------------------------------------------------
(* The debit                                                               *)

(* POST /wallets/:id/debit: the request is valid and a connection is free. *)
Begin(t, p) ==
  /\ pc[t] = "idle"
  /\ calls < MaxCalls
  /\ calls' = calls + 1
  /\ pc' = [pc EXCEPT ![t] = "row"]
  /\ req' = [req EXCEPT ![t] = p]
  /\ UNCHANGED <<db, holder, answers>>

(* Mutant: without FOR UPDATE.                                              *)
ReadWallet(t) ==
  /\ pc[t] = "row"
  /\ pc' = [pc EXCEPT ![t] = "lookup"]
  /\ UNCHANGED <<db, holder, req, calls, answers>>

(* SELECT ... FROM wallet.wallets ... FOR UPDATE                           *)
LockWallet(t) ==
  /\ pc[t] = "row"
  /\ TakeLock(t, "lookup")

(* Mutant: the key is left to ON CONFLICT at the end, after the checks.     *)
LookupNothing(t) ==
  /\ pc[t] = "lookup"
  /\ pc' = [pc EXCEPT ![t] = "funds"]
  /\ UNCHANGED <<db, holder, req, calls, answers>>

(* Mutant: a replay is answered in a way of its own, which the saga does not
   know.                                                                   *)
LookupAnsweringReplayed(t) ==
  /\ pc[t] = "lookup"
  /\ \/ posted[req[t]] > 0 /\ Reply(req[t], "replayed") /\ End(t)
     \/ /\ posted[req[t]] = 0
        /\ pc' = [pc EXCEPT ![t] = "funds"]
        /\ UNCHANGED <<holder, req, answers>>
  /\ UNCHANGED <<db, calls>>

(* The key lookup: a key that is posted is answered without posting again. *)
LookupKey(t) ==
  /\ pc[t] = "lookup"
  /\ \/ /\ posted[req[t]] > 0
        /\ Reply(req[t], "debited")
        /\ End(t)
     \/ /\ posted[req[t]] = 0
        /\ pc' = [pc EXCEPT ![t] = "funds"]
        /\ UNCHANGED <<holder, req, answers>>
  /\ UNCHANGED <<db, calls>>

(* The balance covers the total as JavaScript adds it: when that sum drifts
   above the cents it stands for, an exactly sufficient balance is short.  *)
Covers(p) ==
  LET have == balance[WalletAccount(From[p])]
  IN IF p \in SumDrifts THEN have > Total(p) ELSE have >= Total(p)

(* Status and balance checks: 409 for an inactive or a short wallet.       *)
CheckFunds(t) ==
  LET p == req[t]
  IN /\ pc[t] = "funds"
     /\ \/ /\ From[p] \in Active /\ Covers(p)
           /\ pc' = [pc EXCEPT ![t] = "source"]
           /\ UNCHANGED <<holder, req, answers>>
        \/ /\ ~(From[p] \in Active /\ Covers(p))
           /\ Reply(p, "refused")
           /\ End(t)
     /\ UNCHANGED <<db, calls>>

(* getOrCreateWalletAccount for the source wallet.                         *)
SourceAccount(t) ==
  /\ pc[t] = "source"
  /\ TakeLock(t, "destination")

(* getOrCreateWalletAccount or getOrCreateSharedAccount for the principal;
   inserting a row that was not there checks its foreign key.              *)
DestinationAccount(t) ==
  /\ pc[t] = "destination"
  /\ TakeLock(t, IF ToAccount(req[t]) \in accounts THEN "fees" ELSE "reference")

ReferenceWallet(t) ==
  /\ pc[t] = "reference"
  /\ TakeLock(t, "fees")

(* Mutant: the reply is sent while the transaction is still open.           *)
FeesThenReply(t) ==
  /\ pc[t] = "fees" /\ ~Blocked(t)
  /\ holder' = [l \in Lockable |-> IF l \in Locks(t) THEN t ELSE holder[l]]
  /\ pc' = [pc EXCEPT ![t] = "post"]
  /\ Reply(req[t], "debited")
  /\ UNCHANGED <<db, req, calls>>

(* getOrCreateSharedAccount for the fees, when there is a fee.             *)
FeesAccount(t) ==
  /\ pc[t] = "fees"
  /\ TakeLock(t, "post")

(* The deferred trigger, at COMMIT: the transaction's entries sum to zero. *)
Balanced(p) ==
  Entry(p, WalletAccount(From[p])) + Entry(p, ToAccount(p))
    + Entry(p, SharedAccount("fees", From[p])) = 0

(* postTransaction and COMMIT.  ON CONFLICT DO NOTHING posts no entry for a
   key that is already there, and the debit is answered all the same.      *)
Post(t) ==
  LET p == req[t]
      touched == {WalletAccount(From[p]), ToAccount(p)}
                   \union {a \in {SharedAccount("fees", From[p])} : Fee[p] > 0}
      fresh == posted[p] = 0
  IN /\ pc[t] = "post"
     /\ Balanced(p)
     /\ accounts' = accounts \union touched
     /\ posted' = IF fresh THEN [posted EXCEPT ![p] = @ + 1] ELSE posted
     /\ balance' = IF fresh THEN [a \in Accounts |-> balance[a] + Entry(p, a)] ELSE balance
     /\ Reply(p, "debited")
     /\ End(t)
     /\ UNCHANGED calls

----------------------------------------------------------------------------
(* Failures                                                                *)

(* Mutant: nothing ends a waiting statement.                                *)
WaitForEver(t) == FALSE /\ pc[t] = "row" /\ UNCHANGED vars

(* statement_timeout (5 s) or the deadlock detector ends a statement that
   waits: ROLLBACK, and a 500 the saga retries under the same key.         *)
CancelWaiting(t) ==
  /\ Blocked(t)
  /\ End(t)
  /\ UNCHANGED <<db, calls, answers>>

(* The service or its connection dies inside the transaction.              *)
Crash(t) ==
  /\ pc[t] # "idle"
  /\ End(t)
  /\ UNCHANGED <<db, calls, answers>>

Step(t) ==
  \/ LockWallet(t)
  \/ LookupKey(t)
  \/ CheckFunds(t)
  \/ SourceAccount(t)
  \/ DestinationAccount(t)
  \/ ReferenceWallet(t)
  \/ FeesAccount(t)
  \/ Post(t)

Next ==
  \/ \E t \in Txs, p \in Payments : Begin(t, p)
  \/ \E t \in Txs : Step(t)
  \/ \E t \in Txs : CancelWaiting(t)
  \/ \E t \in Txs : Crash(t)

LedgerSpec == LedgerInit /\ [][Next]_vars

(* A transaction that can go on does, and Postgres ends one that waits for
   ever.  Nothing obliges a client to call or a process to crash.          *)
FairLedger ==
  /\ LedgerSpec
  /\ \A t \in Txs : WF_vars(Step(t)) /\ WF_vars(CancelWaiting(t))

----------------------------------------------------------------------------
(* Properties                                                              *)

(* No wallet is overdrawn, whatever debits and incoming transfers run at once:
   the balance is a sum nobody can lock, and the wallet's row stands for it. *)
NeverOverdrawn == \A w \in Wallets : balance[WalletAccount(w)] >= 0

(* An answer "debited" is true: the posting is committed, once, also when the
   answer is a replay for a saga that never heard the first one.           *)
DebitedIsPosted ==
  \A p \in Payments : posted[p] <= 1 /\ (<<p, "debited">> \in answers => posted[p] = 1)

(* A payment whose money has moved is never refused afterwards: a refusal (409)
   makes the saga throw and its job run again, up to the dead letter, so a
   retry that finds the wallet emptied by its own first debit must be answered
   from the key, not from the balance, or its payment would never settle.  *)
NoRefusalOnceMoved ==
  [][\A p \in Payments :
       posted[p] > 0 /\ <<p, "refused">> \in answers' => <<p, "refused">> \in answers]_vars

(* What a debit owes a wallet: an intra-group payment lands in the destination's
   own account, money that leaves the group in no wallet's.                *)
Arrives(p, w) ==
  IF w = To[p] /\ w # From[p] /\ w \in Active /\ AssetOf[w] = AssetOf[From[p]]
  THEN Principal[p] ELSE 0

(* The statements under locks implement the indivisible movement of money.  *)
Contract == INSTANCE LedgerContract WITH
  held <- [w \in Wallets |-> balance[WalletAccount(w)]],
  moved <- {p \in Payments : posted[p] > 0}

ImplementsContract == Contract!Spec

(* Every transaction ends, although two transfers in opposite directions take
   the accounts' rows in opposite orders and can wait for each other.      *)
TransactionsEnd == \A t \in Txs : [](pc[t] # "idle" => <>(pc[t] = "idle"))
============================================================================
