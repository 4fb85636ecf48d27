\* Four debits of two funded wallets, five requests, two connections.
CONSTANTS
  w1 = w1
  w2 = w2
  w3 = w3
  pOut = pOut
  pBack = pBack
  pNew = pNew
  pExt = pExt
  t1 = t1
  t2 = t2
  Outside = Outside
  Nobody = Nobody
  Wallets = {w1, w2, w3}
  Active = {w1, w2, w3}
  Payments = {pOut, pBack, pNew, pExt}
  SumDrifts = {pExt}
  Txs = {t1, t2}
  MaxCalls = 5
  From <- MCFrom
  To <- MCTo
  Principal <- MCPrincipal
  Fee <- MCFee
  Opening <- MCOpening
  AssetOf <- MCAssetOf
SPECIFICATION FairLedger
INVARIANTS
  LedgerType
  NeverOverdrawn
  DebitedIsPosted
PROPERTIES
  NoRefusalOnceMoved
  ImplementsContract
  TransactionsEnd
CHECK_DEADLOCK FALSE
