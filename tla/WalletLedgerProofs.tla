------------------------ MODULE WalletLedgerProofs ------------------------
(***************************************************************************)
(* What the debit guarantees for any number of wallets, payments and       *)
(* connections.  The argument is the one the code's comment makes: the     *)
(* source wallet's row stands for its balance.  From the statement that    *)
(* locks it to COMMIT, no other transaction is between the same two points *)
(* for that wallet, so what the key lookup and the balance check saw is    *)
(* still true when the entries are posted; another wallet's debit can only *)
(* add to the balance.                                                     *)
(***************************************************************************)
EXTENDS WalletLedger, TLAPS

(* The statements that run with the source wallet's row locked, those after
   the key lookup, and those after the balance check.                      *)
Locked == Statements \ {"row"}
LookedUp == Locked \ {"lookup"}
Checked == LookedUp \ {"funds"}

LedgerInv ==
  /\ LedgerType
  /\ \A t \in Txs : pc[t] # "idle" => req[t] \in Payments
  /\ \A t \in Txs : pc[t] \in Locked => holder[Row(From[req[t]])] = t
  /\ \A t \in Txs : pc[t] \in LookedUp => posted[req[t]] = 0
  /\ \A t \in Txs : pc[t] \in Checked =>
       /\ From[req[t]] \in Active
       /\ balance[WalletAccount(From[req[t]])] >= Total(req[t])
  /\ NeverOverdrawn
  /\ DebitedIsPosted

----------------------------------------------------------------------------
(* Accounts and entries *)

LEMMA AccountsDiffer ==
  /\ \A w, v \in Wallets : WalletAccount(w) = WalletAccount(v) => w = v
  /\ \A w, v \in Wallets : Row(w) # WalletAccount(v)
  /\ \A w, v \in Wallets : \A type \in {"fees", "settlement_clearing"} :
       WalletAccount(w) # SharedAccount(type, v) /\ Row(w) # SharedAccount(type, v)
  /\ \A w, v \in Wallets : Row(w) = Row(v) => w = v
  BY DEF WalletAccount, SharedAccount, Row

LEMMA AccountTypes ==
  ASSUME NEW p \in Payments
  PROVE  /\ WalletAccount(From[p]) \in Accounts
         /\ ToAccount(p) \in Accounts
         /\ SharedAccount("fees", From[p]) \in Accounts
  BY LedgerConstants DEF Accounts, ToAccount

LEMMA TotalType ==
  ASSUME NEW p \in Payments
  PROVE  Total(p) \in Nat /\ Total(p) > 0
  BY LedgerConstants DEF Total

LEMMA EntryType ==
  ASSUME NEW p \in Payments, NEW a
  PROVE  Entry(p, a) \in Int
  BY LedgerConstants, TotalType DEF Entry

(* A wallet's account moves by what the payment brings it, less the total
   when it is the source.                                                  *)
LEMMA EntryOfWallet ==
  ASSUME NEW p \in Payments, NEW w \in Wallets
  PROVE  /\ Entry(p, WalletAccount(w)) =
              Arrives(p, w) - (IF w = From[p] THEN Total(p) ELSE 0)
         /\ Arrives(p, w) \in Nat
         /\ w = From[p] => Arrives(p, w) = 0
<1>1. From[p] \in Wallets
  BY LedgerConstants
<1>2. WalletAccount(w) # SharedAccount("fees", From[p])
  BY <1>1, AccountsDiffer
<1>3. WalletAccount(w) = WalletAccount(From[p]) <=> w = From[p]
  BY <1>1, AccountsDiffer
<1>4. WalletAccount(w) = ToAccount(p) <=>
        w = To[p] /\ w # From[p] /\ w \in Active /\ AssetOf[w] = AssetOf[From[p]]
  <2>1. CASE To[p] \in Active \ {From[p]} /\ AssetOf[To[p]] = AssetOf[From[p]]
    <3>1. To[p] \in Wallets
      BY <2>1, LedgerConstants
    <3>2. QED BY <2>1, <3>1, AccountsDiffer DEF ToAccount
  <2>2. CASE ~(To[p] \in Active \ {From[p]} /\ AssetOf[To[p]] = AssetOf[From[p]])
    BY <2>2, <1>1, AccountsDiffer DEF ToAccount
  <2>3. QED BY <2>1, <2>2
<1>5. Principal[p] \in Nat /\ Total(p) \in Nat
  BY LedgerConstants, TotalType
<1>6. QED BY <1>2, <1>3, <1>4, <1>5 DEF Entry, Arrives

----------------------------------------------------------------------------
(* The row lock *)

(* Two transactions past the row lock debit different wallets.             *)
LEMMA OneHolder ==
  ASSUME LedgerInv, NEW t \in Txs, NEW u \in Txs, t # u,
         pc[t] \in Locked, pc[u] \in Locked
  PROVE  From[req[t]] # From[req[u]] /\ req[t] # req[u]
  BY DEF LedgerInv

LEMMA OpeningBalances ==
  ASSUME LedgerInit, NEW w \in Wallets
  PROVE  balance[WalletAccount(w)] = Opening[w] /\ Opening[w] >= 0
<1>1. WalletAccount(w) \in Accounts
  BY DEF Accounts
<1>2. WalletAccount(w)[1] = "wallet" /\ WalletAccount(w)[2] = w
  BY DEF WalletAccount
<1>3. balance[WalletAccount(w)] = Opening[w]
  BY <1>1, <1>2 DEF LedgerInit
<1>4. Opening[w] \in Nat
  BY LedgerConstants
<1>5. QED BY <1>3, <1>4

LEMMA LedgerInvInit == LedgerInit => LedgerInv
<1>. SUFFICES ASSUME LedgerInit PROVE LedgerInv
  OBVIOUS
<1>1. balance \in [Accounts -> Int]
  BY LedgerConstants DEF LedgerInit, Accounts, WalletAccount, SharedAccount
<1>3. LedgerType
  BY <1>1, LedgerConstants DEF LedgerInit, LedgerType, Accounts
<1>4. NeverOverdrawn
  BY OpeningBalances DEF NeverOverdrawn
<1>5. DebitedIsPosted
  BY DEF LedgerInit, DebitedIsPosted
<1>6. \A t \in Txs : pc[t] = "idle"
  BY DEF LedgerInit
<1>7. QED
  BY <1>3, <1>4, <1>5, <1>6 DEF LedgerInv, Locked, LookedUp, Checked, Statements

(* A transaction that ends takes nothing from the others.                  *)
LEMMA EndKeeps ==
  ASSUME LedgerInv, NEW t \in Txs, End(t)
  PROVE  /\ holder' \in [Lockable -> Txs \union {Nobody}]
         /\ pc' \in [Txs -> Statements \union {"idle"}]
         /\ req' \in [Txs -> Payments \union {Nobody}]
         /\ pc'[t] = "idle"
         /\ \A u \in Txs \ {t} : pc'[u] = pc[u] /\ req'[u] = req[u]
         /\ \A u \in Txs \ {t} : \A l \in Lockable : holder[l] = u => holder'[l] = u
  BY DEF LedgerInv, LedgerType, End

(* Nor does one that takes a free lock and goes on.                        *)
LEMMA TakeLockKeeps ==
  ASSUME LedgerInv, NEW t \in Txs, NEW next \in Statements, TakeLock(t, next)
  PROVE  /\ holder' \in [Lockable -> Txs \union {Nobody}]
         /\ pc' \in [Txs -> Statements \union {"idle"}]
         /\ pc'[t] = next
         /\ \A u \in Txs \ {t} : pc'[u] = pc[u]
         /\ \A l \in Locks(t) \cap Lockable : holder'[l] = t
         /\ \A u \in Txs : \A l \in Lockable : holder[l] = u => holder'[l] = u
<1>1. \A l \in Locks(t) : holder[l] \in {t, Nobody}
  BY DEF TakeLock, Blocked, Free
<1>2. Nobody \notin Txs
  BY LedgerConstants
<1>3. holder' = [l \in Lockable |-> IF l \in Locks(t) THEN t ELSE holder[l]]
  BY DEF TakeLock
<1>4. \A u \in Txs : \A l \in Lockable : holder[l] = u => holder'[l] = u
  BY <1>1, <1>2, <1>3
<1>5. QED
  BY <1>3, <1>4 DEF TakeLock, LedgerInv, LedgerType

LEMMA RowsLockable ==
  ASSUME NEW p \in Payments
  PROVE  Row(From[p]) \in Lockable
  BY LedgerConstants DEF Lockable

----------------------------------------------------------------------------
(* The inductive step *)

LEMMA BeginKeeps ==
  ASSUME LedgerInv, NEW t \in Txs, NEW p \in Payments, Begin(t, p)
  PROVE  LedgerInv'
<1>1. /\ pc' = [pc EXCEPT ![t] = "row"] /\ req' = [req EXCEPT ![t] = p]
      /\ calls' = calls + 1 /\ calls < MaxCalls
      /\ UNCHANGED <<balance, accounts, posted, holder, answers>>
  BY DEF Begin, db
<1>2. LedgerType'
  BY <1>1, LedgerConstants DEF LedgerInv, LedgerType, Statements
<1>3. \A u \in Txs \ {t} : pc'[u] = pc[u] /\ req'[u] = req[u]
  BY <1>1 DEF LedgerInv, LedgerType
<1>4. pc'[t] = "row" /\ req'[t] = p
  BY <1>1 DEF LedgerInv, LedgerType
<1>5. QED
  BY <1>1, <1>2, <1>3, <1>4
     DEF LedgerInv, NeverOverdrawn, DebitedIsPosted, Locked, LookedUp, Checked

(* A statement that only locks: LockWallet and the account statements.     *)
LEMMA LockStepKeeps ==
  ASSUME LedgerInv, NEW t \in Txs,
         \/ LockWallet(t) \/ SourceAccount(t) \/ DestinationAccount(t)
         \/ ReferenceWallet(t) \/ FeesAccount(t)
  PROVE  LedgerInv'
<1>. DEFINE next == pc'[t]
<1>1. /\ next \in Statements /\ TakeLock(t, next)
      /\ pc[t] = "row" => next = "lookup"
      /\ pc[t] # "row" => pc[t] \in Checked /\ next \in Checked
      /\ pc[t] # "idle"
  <2>1. CASE LockWallet(t)
    BY <2>1 DEF LockWallet, TakeLock, LedgerInv, LedgerType, Statements
  <2>2. CASE SourceAccount(t)
    BY <2>2 DEF SourceAccount, TakeLock, LedgerInv, LedgerType, Statements, Locked, LookedUp, Checked
  <2>3. CASE DestinationAccount(t)
    BY <2>3 DEF DestinationAccount, TakeLock, LedgerInv, LedgerType, Statements, Locked, LookedUp, Checked
  <2>4. CASE ReferenceWallet(t)
    BY <2>4 DEF ReferenceWallet, TakeLock, LedgerInv, LedgerType, Statements, Locked, LookedUp, Checked
  <2>5. CASE FeesAccount(t)
    BY <2>5 DEF FeesAccount, TakeLock, LedgerInv, LedgerType, Statements, Locked, LookedUp, Checked
  <2>6. QED BY <2>1, <2>2, <2>3, <2>4, <2>5
<1>2. UNCHANGED <<balance, accounts, posted, req, calls, answers>>
  BY <1>1 DEF TakeLock, db
<1>3. /\ holder' \in [Lockable -> Txs \union {Nobody}]
      /\ pc' \in [Txs -> Statements \union {"idle"}]
      /\ \A u \in Txs \ {t} : pc'[u] = pc[u]
      /\ \A l \in Locks(t) \cap Lockable : holder'[l] = t
      /\ \A u \in Txs : \A l \in Lockable : holder[l] = u => holder'[l] = u
  BY <1>1, TakeLockKeeps
<1>4. LedgerType'
  BY <1>2, <1>3 DEF LedgerInv, LedgerType
<1>5. req[t] \in Payments
  BY <1>1 DEF LedgerInv
<1>6. \A u \in Txs : pc'[u] \in Locked => holder'[Row(From[req'[u]])] = u
  <2>. SUFFICES ASSUME NEW u \in Txs, pc'[u] \in Locked
                PROVE  holder'[Row(From[req[u]])] = u
    BY <1>2
  <2>1. CASE u = t /\ pc[t] = "row"
    <3>1. Row(From[req[t]]) \in Locks(t)
      BY <2>1 DEF Locks
    <3>2. QED BY <2>1, <3>1, <1>3, <1>5, RowsLockable
  <2>2. CASE ~(u = t /\ pc[t] = "row")
    <3>1. pc[u] \in Locked
      BY <2>2, <1>1, <1>3 DEF Locked, LookedUp, Checked
    <3>2. holder[Row(From[req[u]])] = u /\ req[u] \in Payments
      BY <3>1 DEF LedgerInv, Locked, Statements
    <3>3. QED BY <3>2, <1>3, RowsLockable
  <2>3. QED BY <2>1, <2>2
<1>7. \A u \in Txs : pc'[u] # "idle" => req'[u] \in Payments
  BY <1>1, <1>2, <1>3, <1>5 DEF LedgerInv
<1>8. \A u \in Txs : /\ pc'[u] \in LookedUp => pc[u] \in LookedUp
                     /\ pc'[u] \in Checked => pc[u] \in Checked
  BY <1>1, <1>3 DEF LookedUp, Checked
<1>9. QED
  BY <1>2, <1>4, <1>6, <1>7, <1>8 DEF LedgerInv, NeverOverdrawn, DebitedIsPosted

(* A transaction that ends without posting: replay, refusal, cancellation,
   crash.                                                                  *)
LEMMA EndStepKeeps ==
  ASSUME LedgerInv, NEW t \in Txs, End(t), UNCHANGED <<db, calls>>,
         answers' \subseteq Payments \X {"debited", "refused"},
         \A p \in Payments : <<p, "debited">> \in answers' => posted[p] = 1
  PROVE  LedgerInv'
<1>1. UNCHANGED <<balance, accounts, posted>>
  BY DEF db
<1>2. LedgerType'
  BY <1>1, EndKeeps DEF LedgerInv, LedgerType
<1>3. \A u \in Txs : pc'[u] # "idle" => u # t /\ pc'[u] = pc[u] /\ req'[u] = req[u]
  BY EndKeeps
<1>4. \A u \in Txs : pc'[u] \in Locked => holder'[Row(From[req'[u]])] = u
  <2>. SUFFICES ASSUME NEW u \in Txs, pc'[u] \in Locked
                PROVE  holder'[Row(From[req'[u]])] = u
    OBVIOUS
  <2>1. u # t /\ pc'[u] = pc[u] /\ req'[u] = req[u] /\ pc[u] # "idle"
    BY <1>3 DEF Locked, Statements
  <2>2. holder[Row(From[req[u]])] = u /\ req[u] \in Payments
    BY <2>1 DEF LedgerInv
  <2>3. QED BY <2>1, <2>2, EndKeeps, RowsLockable
<1>5. DebitedIsPosted'
  BY <1>1 DEF LedgerInv, DebitedIsPosted
<1>6. QED
  BY <1>1, <1>2, <1>3, <1>4, <1>5
     DEF LedgerInv, NeverOverdrawn, Locked, LookedUp, Checked, Statements

LEMMA LookupKeeps ==
  ASSUME LedgerInv, NEW t \in Txs, LookupKey(t)
  PROVE  LedgerInv'
<1>1. pc[t] = "lookup" /\ req[t] \in Payments /\ UNCHANGED <<db, calls>>
  BY DEF LookupKey, LedgerInv
<1>2. CASE posted[req[t]] > 0 /\ Reply(req[t], "debited") /\ End(t)
  <2>1. posted[req[t]] = 1
    <3>1. posted[req[t]] \in Nat /\ posted[req[t]] <= 1
      BY <1>1 DEF LedgerInv, LedgerType, DebitedIsPosted
    <3>2. QED BY <3>1, <1>2
  <2>2. answers' \subseteq Payments \X {"debited", "refused"}
    BY <1>1, <1>2 DEF Reply, LedgerInv, LedgerType
  <2>3. \A p \in Payments : <<p, "debited">> \in answers' => posted[p] = 1
    BY <1>2, <2>1 DEF Reply, LedgerInv, DebitedIsPosted
  <2>4. QED BY <1>1, <1>2, <2>2, <2>3, EndStepKeeps
<1>3. CASE /\ posted[req[t]] = 0
           /\ pc' = [pc EXCEPT ![t] = "funds"]
           /\ UNCHANGED <<holder, req, answers>>
  <2>1. LedgerType'
    BY <1>1, <1>3 DEF LedgerInv, LedgerType, Statements, db
  <2>2. pc'[t] = "funds" /\ \A u \in Txs \ {t} : pc'[u] = pc[u]
    BY <1>3 DEF LedgerInv, LedgerType
  <2>3. QED
    BY <1>1, <1>3, <2>1, <2>2
       DEF LedgerInv, NeverOverdrawn, DebitedIsPosted, db, Locked, LookedUp, Checked, Statements
<1>4. QED BY <1>2, <1>3 DEF LookupKey

LEMMA CheckKeeps ==
  ASSUME LedgerInv, NEW t \in Txs, CheckFunds(t)
  PROVE  LedgerInv'
<1>. DEFINE p == req[t]
<1>1. pc[t] = "funds" /\ p \in Payments /\ UNCHANGED <<db, calls>>
  BY DEF CheckFunds, LedgerInv
<1>2. CASE /\ From[p] \in Active /\ Covers(p)
           /\ pc' = [pc EXCEPT ![t] = "source"]
           /\ UNCHANGED <<holder, req, answers>>
  <2>1. LedgerType'
    BY <1>1, <1>2 DEF LedgerInv, LedgerType, Statements, db
  <2>2. pc'[t] = "source" /\ \A u \in Txs \ {t} : pc'[u] = pc[u]
    BY <1>2 DEF LedgerInv, LedgerType
  <2>3. balance[WalletAccount(From[p])] >= Total(p)
    <3>1. balance[WalletAccount(From[p])] \in Int /\ Total(p) \in Int
      BY <1>1, AccountTypes, TotalType DEF LedgerInv, LedgerType
    <3>2. QED BY <1>2, <3>1 DEF Covers
  <2>4. QED
    BY <1>1, <1>2, <2>1, <2>2, <2>3
       DEF LedgerInv, NeverOverdrawn, DebitedIsPosted, db, Locked, LookedUp, Checked, Statements
<1>3. CASE Reply(p, "refused") /\ End(t)
  <2>1. answers' \subseteq Payments \X {"debited", "refused"}
    BY <1>1, <1>3 DEF Reply, LedgerInv, LedgerType
  <2>2. \A q \in Payments : <<q, "debited">> \in answers' => posted[q] = 1
    BY <1>3 DEF Reply, LedgerInv, DebitedIsPosted
  <2>3. QED BY <1>1, <1>3, <2>1, <2>2, EndStepKeeps
<1>4. QED BY <1>2, <1>3 DEF CheckFunds

(* What posting does to the rows.                                          *)
LEMMA PostEffect ==
  ASSUME LedgerInv, NEW t \in Txs, Post(t)
  PROVE  LET p == req[t]
         IN /\ p \in Payments /\ posted[p] = 0
            /\ posted' = [posted EXCEPT ![p] = 1]
            /\ balance' \in [Accounts -> Int]
            /\ accounts' \subseteq Accounts
            /\ \A w \in Wallets : balance'[WalletAccount(w)] =
                 balance[WalletAccount(w)] + Arrives(p, w)
                   - (IF w = From[p] THEN Total(p) ELSE 0)
            /\ balance[WalletAccount(From[p])] >= Total(p)
<1>. DEFINE p == req[t]
<1>1. pc[t] = "post" /\ p \in Payments
  BY DEF Post, LedgerInv
<1>2. posted[p] = 0 /\ balance[WalletAccount(From[p])] >= Total(p)
  BY <1>1 DEF LedgerInv, LookedUp, Checked, Locked, Statements
<1>3. posted' = [posted EXCEPT ![p] = 1]
  <2>1. posted' = [posted EXCEPT ![p] = @ + 1]
    BY <1>2 DEF Post
  <2>2. QED BY <2>1, <1>1, <1>2 DEF LedgerInv, LedgerType
<1>4. balance' = [a \in Accounts |-> balance[a] + Entry(p, a)]
  BY <1>2 DEF Post
<1>5. balance' \in [Accounts -> Int]
  BY <1>1, <1>4, EntryType DEF LedgerInv, LedgerType
<1>6. accounts' \subseteq Accounts
  BY <1>1, AccountTypes DEF Post, LedgerInv, LedgerType
<1>7. ASSUME NEW w \in Wallets
      PROVE  balance'[WalletAccount(w)] =
               balance[WalletAccount(w)] + Arrives(p, w)
                 - (IF w = From[p] THEN Total(p) ELSE 0)
  <2>1. WalletAccount(w) \in Accounts
    BY DEF Accounts
  <2>2. balance[WalletAccount(w)] \in Int /\ Arrives(p, w) \in Int /\ Total(p) \in Int
    BY <1>1, <2>1, EntryOfWallet, TotalType DEF LedgerInv, LedgerType
  <2>3. balance'[WalletAccount(w)] = balance[WalletAccount(w)] + Entry(p, WalletAccount(w))
    BY <1>4, <2>1
  <2>4. QED BY <1>1, <2>2, <2>3, EntryOfWallet
<1>8. QED BY <1>1, <1>2, <1>3, <1>5, <1>6, <1>7

LEMMA PostKeeps ==
  ASSUME LedgerInv, NEW t \in Txs, Post(t)
  PROVE  LedgerInv'
<1>. DEFINE p == req[t]
<1>0. pc[t] = "post" /\ End(t) /\ Reply(p, "debited") /\ UNCHANGED calls
  BY DEF Post
<1>1. /\ p \in Payments /\ posted[p] = 0
      /\ posted' = [posted EXCEPT ![p] = 1]
      /\ balance' \in [Accounts -> Int]
      /\ accounts' \subseteq Accounts
      /\ \A w \in Wallets : balance'[WalletAccount(w)] =
           balance[WalletAccount(w)] + Arrives(p, w) - (IF w = From[p] THEN Total(p) ELSE 0)
      /\ balance[WalletAccount(From[p])] >= Total(p)
  BY PostEffect
<1>2. /\ \A w \in Wallets : balance[WalletAccount(w)] \in Int /\ Arrives(p, w) \in Nat
      /\ Total(p) \in Nat
  BY <1>1, EntryOfWallet, TotalType DEF LedgerInv, LedgerType, Accounts
<1>3. \A w \in Wallets : w # From[p] => balance'[WalletAccount(w)] >= balance[WalletAccount(w)]
  BY <1>1, <1>2
<1>4. NeverOverdrawn'
  <2>. SUFFICES ASSUME NEW w \in Wallets PROVE balance'[WalletAccount(w)] >= 0
    BY DEF NeverOverdrawn
  <2>1. CASE w = From[p]
    <3>1. balance'[WalletAccount(w)] = balance[WalletAccount(w)] + Arrives(p, w) - Total(p)
      BY <2>1, <1>1
    <3>2. balance[WalletAccount(w)] >= Total(p)
      BY <2>1, <1>1
    <3>3. QED BY <3>1, <3>2, <1>2
  <2>2. CASE w # From[p]
    <3>1. balance'[WalletAccount(w)] = balance[WalletAccount(w)] + Arrives(p, w)
      BY <2>2, <1>1, <1>2
    <3>2. QED BY <3>1, <1>2 DEF LedgerInv, NeverOverdrawn
  <2>3. QED BY <2>1, <2>2
<1>5. LedgerType'
  <2>1. posted' \in [Payments -> Nat]
    BY <1>1 DEF LedgerInv, LedgerType
  <2>2. answers' \subseteq Payments \X {"debited", "refused"}
    BY <1>0, <1>1 DEF Reply, LedgerInv, LedgerType
  <2>3. QED BY <1>0, <1>1, <2>1, <2>2, EndKeeps DEF LedgerInv, LedgerType
<1>6. DebitedIsPosted'
  <2>. SUFFICES ASSUME NEW q \in Payments
                PROVE  /\ posted'[q] <= 1
                       /\ <<q, "debited">> \in answers' => posted'[q] = 1
    BY DEF DebitedIsPosted
  <2>1. posted \in [Payments -> Nat]
    BY DEF LedgerInv, LedgerType
  <2>2. CASE q = p
    BY <2>1, <2>2, <1>1
  <2>3. CASE q # p
    <3>1. posted'[q] = posted[q]
      BY <2>1, <2>3, <1>1
    <3>2. <<q, "debited">> \in answers' => <<q, "debited">> \in answers
      BY <1>0, <2>3 DEF Reply
    <3>3. QED BY <3>1, <3>2 DEF LedgerInv, DebitedIsPosted
  <2>4. QED BY <2>2, <2>3
<1>7. ASSUME NEW u \in Txs, pc'[u] # "idle"
      PROVE  u # t /\ pc'[u] = pc[u] /\ req'[u] = req[u] /\ req[u] \in Payments
  BY <1>0, <1>7, EndKeeps DEF LedgerInv
<1>8. ASSUME NEW u \in Txs, pc'[u] \in Locked
      PROVE  /\ holder'[Row(From[req'[u]])] = u
             /\ req[u] # p /\ From[req[u]] # From[p]
  <2>1. u # t /\ pc'[u] = pc[u] /\ req'[u] = req[u] /\ req[u] \in Payments
    BY <1>7, <1>8 DEF Locked, Statements
  <2>2. pc[u] \in Locked /\ pc[t] \in Locked
    BY <1>0, <1>8, <2>1 DEF Locked, Statements
  <2>3. req[u] # p /\ From[req[u]] # From[p]
    BY <2>1, <2>2, OneHolder
  <2>4. holder[Row(From[req[u]])] = u
    BY <2>2 DEF LedgerInv
  <2>5. QED BY <1>0, <2>1, <2>3, <2>4, EndKeeps, RowsLockable
<1>9. ASSUME NEW u \in Txs, pc'[u] \in LookedUp
      PROVE  posted'[req'[u]] = 0
  <2>1. pc'[u] \in Locked /\ pc'[u] # "idle"
    BY <1>9 DEF LookedUp, Locked, Statements
  <2>2. posted[req[u]] = 0
    BY <1>7, <1>9, <2>1 DEF LedgerInv
  <2>3. QED BY <1>1, <1>7, <1>8, <2>1, <2>2 DEF LedgerInv, LedgerType
<1>10. ASSUME NEW u \in Txs, pc'[u] \in Checked
       PROVE  /\ From[req'[u]] \in Active
              /\ balance'[WalletAccount(From[req'[u]])] >= Total(req'[u])
  <2>1. pc'[u] \in Locked /\ pc'[u] # "idle"
    BY <1>10 DEF Checked, LookedUp, Locked, Statements
  <2>2. /\ req'[u] = req[u] /\ req[u] \in Payments /\ From[req[u]] # From[p]
        /\ From[req[u]] \in Active
        /\ balance[WalletAccount(From[req[u]])] >= Total(req[u])
    BY <1>7, <1>8, <1>10, <2>1 DEF LedgerInv
  <2>3. From[req[u]] \in Wallets
    BY <2>2, LedgerConstants
  <2>4. balance'[WalletAccount(From[req[u]])] >= balance[WalletAccount(From[req[u]])]
    BY <1>3, <2>2, <2>3
  <2>5. /\ balance'[WalletAccount(From[req[u]])] \in Int
        /\ balance[WalletAccount(From[req[u]])] \in Int
        /\ Total(req[u]) \in Int
    BY <1>1, <1>2, <2>2, <2>3, AccountTypes, TotalType
  <2>6. QED BY <2>2, <2>4, <2>5
<1>11. QED
  BY <1>4, <1>5, <1>6, <1>7, <1>8, <1>9, <1>10 DEF LedgerInv

LEMMA LedgerInvNext == LedgerInv /\ [Next]_vars => LedgerInv'
<1>. SUFFICES ASSUME LedgerInv, [Next]_vars PROVE LedgerInv'
  OBVIOUS
<1>1. CASE \E t \in Txs, p \in Payments : Begin(t, p)
  BY <1>1, BeginKeeps
<1>2. ASSUME NEW t \in Txs, Step(t) PROVE LedgerInv'
  BY <1>2, LockStepKeeps, LookupKeeps, CheckKeeps, PostKeeps DEF Step
<1>3. ASSUME NEW t \in Txs, CancelWaiting(t) \/ Crash(t) PROVE LedgerInv'
  <2>1. End(t) /\ UNCHANGED <<db, calls>> /\ answers' = answers
    BY <1>3 DEF CancelWaiting, Crash
  <2>2. answers' \subseteq Payments \X {"debited", "refused"}
    BY <2>1 DEF LedgerInv, LedgerType
  <2>3. \A p \in Payments : <<p, "debited">> \in answers' => posted[p] = 1
    BY <2>1 DEF LedgerInv, DebitedIsPosted
  <2>4. QED BY <2>1, <2>2, <2>3, EndStepKeeps
<1>4. CASE UNCHANGED vars
  BY <1>4 DEF vars, LedgerInv, LedgerType, NeverOverdrawn, DebitedIsPosted
<1>5. QED BY <1>1, <1>2, <1>3, <1>4 DEF Next

LEMMA LedgerInvariant == LedgerSpec => []LedgerInv
  BY LedgerInvInit, LedgerInvNext, PTL DEF LedgerSpec

----------------------------------------------------------------------------
(* The theorems *)

(* Type correctness of the ledger and its transactions.                    *)
THEOREM LedgerTypes == LedgerSpec => []LedgerType
<1>1. LedgerInv => LedgerType
  BY DEF LedgerInv
<1>2. QED BY <1>1, LedgerInvariant, PTL

(* No wallet is ever overdrawn, whatever debits run at once.               *)
THEOREM LedgerSolvent == LedgerSpec => []NeverOverdrawn
<1>1. LedgerInv => NeverOverdrawn
  BY DEF LedgerInv
<1>2. QED BY <1>1, LedgerInvariant, PTL

(* A key is posted at most once and "debited" is only said of a posted one. *)
THEOREM LedgerAnswers == LedgerSpec => []DebitedIsPosted
<1>1. LedgerInv => DebitedIsPosted
  BY DEF LedgerInv
<1>2. QED BY <1>1, LedgerInvariant, PTL

(* A payment whose money has moved is never refused afterwards.            *)
THEOREM LedgerNeverRefusesMoved == LedgerSpec => NoRefusalOnceMoved
<1>. DEFINE Kept == \A p \in Payments :
       posted[p] > 0 /\ <<p, "refused">> \in answers' => <<p, "refused">> \in answers
<1>1. LedgerInv /\ [Next]_vars => Kept
  <2>. SUFFICES ASSUME LedgerInv, [Next]_vars, NEW p \in Payments, posted[p] > 0,
                       <<p, "refused">> \in answers', <<p, "refused">> \notin answers
                PROVE  FALSE
    OBVIOUS
  <2>1. PICK t \in Txs : CheckFunds(t) \/ LookupKey(t) \/ Post(t)
    BY DEF Next, Step, Begin, LockWallet, SourceAccount, DestinationAccount, ReferenceWallet,
           FeesAccount, TakeLock, CancelWaiting, Crash, vars
  <2>2. CASE CheckFunds(t)
    <3>1. req[t] = p
      BY <2>2 DEF CheckFunds, Reply
    <3>2. pc[t] \in LookedUp
      BY <2>2 DEF CheckFunds, LookedUp, Locked, Statements
    <3>3. posted[p] = 0
      BY <3>1, <3>2 DEF LedgerInv
    <3>4. QED BY <3>3
  <2>3. CASE LookupKey(t) \/ Post(t)
    BY <2>3 DEF LookupKey, Post, Reply
  <2>4. QED BY <2>1, <2>2, <2>3
<1>2. Kept => [Kept]_vars
  OBVIOUS
<1>3. QED BY <1>1, LedgerInvariant, PTL DEF LedgerSpec, NoRefusalOnceMoved

(* The debit's statements implement the indivisible movement of money.     *)
THEOREM LedgerRefines == LedgerSpec => ImplementsContract
<1>1. LedgerInit => Contract!Init
  <2>. SUFFICES ASSUME LedgerInit PROVE Contract!Init
    OBVIOUS
  <2>1. \A w \in Wallets : balance[WalletAccount(w)] = Opening[w]
    BY OpeningBalances
  <2>2. {p \in Payments : posted[p] > 0} = {}
    BY DEF LedgerInit
  <2>3. QED BY <2>1, <2>2, LedgerConstants DEF Contract!Init
<1>2. LedgerInv /\ [Next]_vars => [Contract!Next]_<<
        [w \in Wallets |-> balance[WalletAccount(w)]], {p \in Payments : posted[p] > 0}>>
  <2>. SUFFICES ASSUME LedgerInv, [Next]_vars
                PROVE  [Contract!Next]_<<
                         [w \in Wallets |-> balance[WalletAccount(w)]],
                         {p \in Payments : posted[p] > 0}>>
    OBVIOUS
  <2>1. CASE UNCHANGED <<balance, posted>>
    BY <2>1
  <2>2. ASSUME NEW t \in Txs, Post(t) PROVE Contract!Next
    <3>0. PICK p \in Payments : p = req[t]
      BY <2>2, PostEffect
    <3>1. /\ posted[p] = 0
          /\ posted' = [posted EXCEPT ![p] = 1]
          /\ \A w \in Wallets : balance'[WalletAccount(w)] =
               balance[WalletAccount(w)] + Arrives(p, w) - (IF w = From[p] THEN Total(p) ELSE 0)
          /\ balance[WalletAccount(From[p])] >= Total(p)
      BY <2>2, <3>0, PostEffect
    <3>2. {q \in Payments : posted'[q] > 0} = {q \in Payments : posted[q] > 0} \union {p}
      BY <3>1 DEF LedgerInv, LedgerType
    <3>3. p \notin {q \in Payments : posted[q] > 0}
      BY <3>1
    <3>4. From[p] \in Wallets
      BY <3>1, LedgerConstants
    <3>5. Contract!Move(p)
      BY <3>1, <3>2, <3>3, <3>4 DEF Contract!Move
    <3>6. QED BY <3>5 DEF Contract!Next
  <2>3. \/ UNCHANGED <<balance, posted>>
        \/ \E t \in Txs : Post(t)
    BY DEF Next, Step, Begin, LockWallet, LookupKey, CheckFunds, SourceAccount,
           DestinationAccount, ReferenceWallet, FeesAccount, TakeLock, CancelWaiting, Crash,
           vars, db
  <2>4. QED BY <2>1, <2>2, <2>3
<1>3. QED BY <1>1, <1>2, LedgerInvariant, PTL DEF LedgerSpec, ImplementsContract, Contract!Spec
============================================================================
