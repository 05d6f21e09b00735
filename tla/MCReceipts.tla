--------------------------- MODULE MCReceipts ---------------------------
EXTENDS Receipts, TLC

\* Site a, the default one, is set up with a domain no origin can be made of;
\* staff correct it, then write it in capitals.
TwoHosts == ("a/" :> None) @@ ("a" :> "a") @@ ("A" :> "a") @@ ("b" :> "b")
FirstDomains == ("siteA" :> "a/") @@ ("siteB" :> "b")
Corrections == {[site |-> "siteA", from |-> "a/", to |-> "a"], [site |-> "siteA", from |-> "a", to |-> "A"]}

Places == ("SAR" :> 2) @@ ("IQD" :> 3)
ThreePrices == {[mil |-> 10000, places |-> 0], [mil |-> 9990, places |-> 2], [mil |-> 9999, places |-> 3]}

\* Rows saved before the rules were: one priced in another currency, one in
\* none, and one without a price. All can be charged in SAR.
SeededRows ==
  {[price |-> [mil |-> 10000, places |-> 3], currency |-> "IQD"],
   [price |-> [mil |-> 10000, places |-> 3], currency |-> None],
   [price |-> None, currency |-> "SAR"]}

\* A catalogue of nothing but what staff save.
UnpricedRow == {[price |-> None, currency |-> None]}
=========================================================================
