-------------------------- MODULE MCWalletLedger --------------------------
EXTENDS WalletLedger, TLC

CONSTANTS w1, w2, w3, pOut, pBack, pNew, pExt, t1, t2

(* Two funded wallets that pay each other, a third with no account yet, and a
   counterparty outside the group.  w1 can pay only one of its debits until
   pBack arrives.                                                          *)
MCFrom == (pOut :> w1) @@ (pBack :> w2) @@ (pNew :> w1) @@ (pExt :> w2)
MCTo == (pOut :> w2) @@ (pBack :> w1) @@ (pNew :> w3) @@ (pExt :> Outside)
MCPrincipal == (pOut :> 3) @@ (pBack :> 2) @@ (pNew :> 2) @@ (pExt :> 1)
MCFee == (pOut :> 1) @@ (pBack :> 0) @@ (pNew :> 1) @@ (pExt :> 1)
MCOpening == (w1 :> 4) @@ (w2 :> 3) @@ (w3 :> 0)
MCAssetOf == (w1 :> "EURC") @@ (w2 :> "EURC") @@ (w3 :> "EURC")
============================================================================
