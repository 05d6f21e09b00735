--------------------------- MODULE ReceiptsProofs ---------------------------
(***************************************************************************)
(* Theorems about Receipts, for any sites, domains, currencies and prices. *)
(* The invariant is SaleInv: what each status of the cart says of the rows *)
(* written so far, and that a site's domain, whatever staff correct it to, *)
(* stays that site's.                                                      *)
(***************************************************************************)
EXTENDS Receipts, TLAPS

HandedOff == {"processing", "paid", "unreconciled", "refunded"}

\* What the gateway was asked is what the cart holds, on the site it was
\* handed off on.
AskedForCart ==
  /\ asked # None <=> sale.status \in HandedOff
  /\ asked # None => asked.amount = sale.price /\ asked.currency \in Trades
  /\ asked # None /\ sale.origin # None => sale.origin \in Usable /\ OwnerOf(sale.origin) = asked.site

\* A paid cart has its payment's row, and a request settling it serves the
\* site it was paid on.
PaidForCart ==
  /\ sale.status = "paid" =>
       row # None /\ row.settled /\ row.amount = sale.price /\ row.currency \in Trades
  /\ serving # None => serving = asked.site /\ asked # None /\ invoice = None

InvoicedForCart ==
  invoice # None =>
    /\ sale.status = "paid" /\ invoice.total = sale.price /\ invoice.currency \in Trades
    /\ invoice.organization # None => invoice.organization.site = asked.site

SaleInv ==
  /\ SaleTypeOK
  /\ currency \in [Sites -> Trades \cup {None}]
  /\ \A s \in Sites : OwnerOf(domain[s]) = s
  /\ sale.status \in {"none", "pending"} => sale.origin = None
  /\ sale.status # "none" => sale.price # None
  /\ AskedForCart
  /\ PaidForCart
  /\ InvoicedForCart

LEMMA CartCurrencyTrades ==
  ASSUME SaleInv, NEW s \in Sites, CartCurrency(s) # None
  PROVE  CartCurrency(s) \in Trades /\ CartCurrency(s) \in Currencies
  BY BillingAssumption DEF SaleInv, CartCurrency

LEMMA NothingIsNone ==
  /\ \A x \in Decimals \cup Organizations \cup Requests \cup Payments \cup Refunds \cup Invoices : x # None
  /\ \A x \in Sites \cup Domains \cup Currencies \cup Nat : x # None
  BY BillingAssumption

\* A whole number of one unit is a whole number of every smaller one.
LEMMA UnitsDivide ==
  ASSUME NEW n \in Nat, NEW p \in 0..3, NEW q \in 0..3, p <= q, n % UnitOf(p) = 0
  PROVE  n % UnitOf(q) = 0
  <1>1. p \in {0, 1, 2, 3} /\ q \in {0, 1, 2, 3}
    OBVIOUS
  <1>2. /\ n % 1000 = 0 => n % 100 = 0
        /\ n % 100 = 0 => n % 10 = 0
        /\ n % 1 = 0
    OBVIOUS
  <1> QED
    BY <1>1, <1>2 DEF UnitOf

\* FitsCurrency is what it takes to be charged in a currency.
LEMMA FitsUnit ==
  ASSUME NEW price \in Decimals, NEW c \in Currencies, FitsCurrency(price, c)
  PROVE  price.mil % MinorUnit(c) = 0
  <1>1. price.mil \in Nat /\ price.places \in 0..3 /\ price.mil % UnitOf(price.places) = 0
    BY DEF Decimals
  <1>2. Exponent[c] \in 0..3
    BY BillingAssumption
  <1>3. CASE price.mil % 1000 = 0
    BY <1>1, <1>2, <1>3, UnitsDivide DEF UnitOf, MinorUnit
  <1>4. CASE price.mil % 1000 # 0
    BY <1>1, <1>2, <1>4, UnitsDivide DEF FitsCurrency, DecimalsUsed, MinorUnit
  <1> QED
    BY <1>3, <1>4

LEMMA StoredType ==
  ASSUME NEW price \in Decimals
  PROVE  Stored(price) \in Decimals /\ Stored(price).mil = price.mil
  <1>1. price.mil \in Nat /\ price.mil % 1 = 0 /\ price \in [mil : Nat, places : 0..3]
    BY DEF Decimals
  <1>2. Stored(price) \in [mil : Nat, places : 0..3] /\ Stored(price).mil = price.mil
        /\ Stored(price).places = 3
    BY <1>1 DEF Stored
  <1> QED
    BY <1>1, <1>2 DEF Decimals, UnitOf

LEMMA InitSale == SaleInit => SaleInv
  <1> SUFFICES ASSUME SaleInit
      PROVE  SaleInv
    OBVIOUS
  <1>1. /\ domain \in [Sites -> Domains] /\ edition \in [Sites -> 0..Editions]
        /\ currency \in [Sites -> Trades \cup {None}]
        /\ currency \in [Sites -> NullOr(Currencies)]
        /\ item \in [price : NullOr(Decimals), currency : NullOr(Currencies)]
        /\ \A s \in Sites : OwnerOf(domain[s]) = s
    BY BillingAssumption DEF SaleInit, NullOr
  <1>2. CASE /\ sale = [status |-> "none", price |-> None, origin |-> None]
             /\ asked = None /\ row = None /\ invoice = None
    BY <1>1, <1>2 DEF SaleInit, SaleInv, SaleTypeOK, NullOr, AskedForCart, PaidForCart, InvoicedForCart,
       HandedOff, Statuses
  <1>3. ASSUME NEW s \in Sites, NEW p \in Typed, NEW c \in Trades,
               sale = [status |-> "processing", price |-> p.mil, origin |-> None],
               asked = [amount |-> p.mil, currency |-> c, site |-> s],
               row = None, invoice = None
        PROVE  SaleInv
    <2>1. p.mil \in Nat /\ c \in Currencies
      BY BillingAssumption DEF Decimals
    <2>2. asked \in Requests /\ asked # None /\ p.mil # None
      BY <1>3, <2>1, NothingIsNone DEF Requests
    <2> QED
      BY <1>1, <1>3, <2>1, <2>2 DEF SaleInit, SaleInv, SaleTypeOK, NullOr, AskedForCart, PaidForCart,
         InvoicedForCart, HandedOff, Statuses
  <1>4. ASSUME NEW s \in Sites, NEW p \in Typed, NEW c \in Trades,
               sale = [status |-> "paid", price |-> p.mil, origin |-> None],
               asked = [amount |-> p.mil, currency |-> c, site |-> s],
               row = [amount |-> p.mil, currency |-> c, settled |-> TRUE],
               invoice = [total |-> p.mil, currency |-> c, organization |-> None, named |-> FALSE]
        PROVE  SaleInv
    <2>1. p.mil \in Nat /\ c \in Currencies
      BY BillingAssumption DEF Decimals
    <2>2. asked \in Requests /\ asked # None /\ p.mil # None
      BY <1>4, <2>1, NothingIsNone DEF Requests
    <2>3. row \in Payments /\ row # None /\ invoice \in Invoices
      BY <1>4, <2>1, NothingIsNone DEF Payments, Invoices
    <2> QED
      BY <1>1, <1>4, <2>1, <2>2, <2>3 DEF SaleInit, SaleInv, SaleTypeOK, NullOr, AskedForCart, PaidForCart,
         InvoicedForCart, HandedOff, Statuses
  <1> QED
    BY <1>2, <1>3, <1>4 DEF SaleInit

\* Staff reconfigure a site, or price the item.
LEMMA ConfigurationStep ==
  ASSUME SaleInv, NEW s \in Sites, Configure(s) \/ Rename(s) \/ Reorganize(s) \/ SaveItem(s)
  PROVE  SaleInv'
  <1>0. SaleTypeOK
    BY DEF SaleInv
  <1>1. UNCHANGED <<sale, asked, serving, row, refund, invoice>>
    BY DEF Configure, Rename, Reorganize, SaveItem, books
  <1>2. /\ currency' \in [Sites -> Trades \cup {None}]
        /\ currency' \in [Sites -> NullOr(Currencies)]
    BY <1>0, BillingAssumption
    DEF SaleInv, Configure, Rename, Reorganize, SaveItem, configVars, NullOr, SaleTypeOK
  <1>3. domain' \in [Sites -> Domains] /\ \A t \in Sites : OwnerOf(domain'[t]) = t
    <2>1. CASE Rename(s)
      <3>1. PICK r \in Renames : r.site = s /\ domain' = [domain EXCEPT ![s] = r.to]
        BY <2>1 DEF Rename
      <3> QED
        BY <1>0, <3>1, BillingAssumption DEF SaleInv, SaleTypeOK
    <2>2. CASE ~Rename(s)
      BY <1>0, <2>2 DEF SaleInv, SaleTypeOK, Configure, Reorganize, SaveItem, configVars
    <2> QED
      BY <2>1, <2>2
  <1>4. edition' \in [Sites -> 0..Editions]
    <2>1. CASE Reorganize(s)
      <3>1. edition[s] + 1 \in 0..Editions
        BY <1>0, <2>1, BillingAssumption DEF Reorganize, SaleTypeOK
      <3> QED
        BY <1>0, <2>1, <3>1 DEF Reorganize, SaleTypeOK
    <2>2. CASE ~Reorganize(s)
      BY <1>0, <2>2 DEF SaleTypeOK, Configure, Rename, SaveItem, configVars
    <2> QED
      BY <2>1, <2>2
  <1>5. item' \in [price : NullOr(Decimals), currency : NullOr(Currencies)]
    <2>1. CASE SaveItem(s)
      <3>1. PICK p \in Typed, c \in Currencies : item' = [price |-> Stored(p), currency |-> c]
        BY <2>1 DEF SaveItem
      <3>2. Stored(p) \in Decimals
        BY BillingAssumption, StoredType
      <3> QED
        BY <3>1, <3>2 DEF NullOr
    <2>2. CASE ~SaveItem(s)
      BY <1>0, <2>2 DEF SaleTypeOK, Configure, Rename, Reorganize
    <2> QED
      BY <2>1, <2>2
  <1>6. SaleTypeOK'
    BY <1>0, <1>1, <1>2, <1>3, <1>4, <1>5 DEF SaleTypeOK
  <1> QED
    BY <1>1, <1>2, <1>3, <1>6 DEF SaleInv, AskedForCart, PaidForCart, InvoicedForCart

\* What the configuration and the item say is as it was.
Unconfigured == UNCHANGED <<configVars, item>>

\* SaleInv, of what a step that configures nothing changes.
LEMMA KeepSale ==
  ASSUME SaleInv, Unconfigured,
         sale' \in [status : Statuses, price : NullOr(Nat), origin : NullOr(Domains)],
         asked' \in NullOr(Requests), serving' \in NullOr(Sites), row' \in NullOr(Payments),
         refund' \in NullOr(Refunds), invoice' \in NullOr(Invoices),
         sale'.status \in {"none", "pending"} => sale'.origin = None,
         sale'.status # "none" => sale'.price # None,
         AskedForCart', PaidForCart', InvoicedForCart'
  PROVE  SaleInv'
  BY DEF SaleInv, SaleTypeOK, Unconfigured, configVars

\* The cart is made, and handed off or closed.
LEMMA HandOffStep ==
  ASSUME SaleInv, CreateCart \/ \E s \in Sites : HandOff(s) \/ FailHandOff(s)
  PROVE  SaleInv'
  <1>0. /\ SaleTypeOK /\ Unconfigured /\ UNCHANGED <<serving, row, refund, invoice>>
        /\ sale.status \in {"none", "pending"}
    BY DEF SaleInv, CreateCart, HandOff, FailHandOff, Unconfigured, configVars, books
  <1>1. asked = None /\ serving = None /\ invoice = None
    BY <1>0 DEF SaleInv, AskedForCart, PaidForCart, InvoicedForCart, HandedOff
  <1>2. CASE CreateCart
    <2>1. item.price \in Decimals
      BY <1>0, <1>2 DEF CreateCart, SaleTypeOK, NullOr
    <2>2. item.price.mil \in Nat /\ item.price.mil # None
      BY <2>1, NothingIsNone DEF Decimals
    <2>3. /\ sale' = [sale EXCEPT !.status = "pending", !.price = item.price.mil]
          /\ asked' = None /\ sale.status = "none"
      BY <1>1, <1>2 DEF CreateCart
    <2>4. sale' \in [status : Statuses, price : NullOr(Nat), origin : NullOr(Domains)]
      BY <1>0, <2>2, <2>3 DEF SaleTypeOK, Statuses, NullOr
    <2> QED
      BY <1>0, <1>1, <2>2, <2>3, <2>4, KeepSale
      DEF SaleInv, SaleTypeOK, AskedForCart, PaidForCart, InvoicedForCart, HandedOff, NullOr
  <1>3. ASSUME NEW s \in Sites, HandOff(s)
        PROVE  SaleInv'
    <2>1. /\ sale' = [sale EXCEPT !.status = "processing", !.origin = domain[s]]
          /\ asked' = [amount |-> sale.price, currency |-> CartCurrency(s), site |-> s]
          /\ sale.status = "pending" /\ CartCurrency(s) # None /\ domain[s] \in Usable
      BY <1>3 DEF HandOff, Total
    <2>2. sale.price \in Nat /\ domain[s] \in Domains /\ OwnerOf(domain[s]) = s
      BY <1>0, <2>1 DEF SaleInv, SaleTypeOK, NullOr
    <2>3. asked' \in Requests /\ asked' # None /\ CartCurrency(s) \in Trades
      BY <2>1, <2>2, CartCurrencyTrades, NothingIsNone DEF Requests
    <2>4. sale' \in [status : Statuses, price : NullOr(Nat), origin : NullOr(Domains)]
      BY <1>0, <2>1, <2>2 DEF SaleTypeOK, Statuses, NullOr
    <2>5. sale'.price = sale.price /\ sale'.origin = domain[s] /\ sale'.status = "processing"
      BY <1>0, <2>1 DEF SaleTypeOK
    <2>6. sale'.price # None
      BY <2>2, <2>5, NothingIsNone
    <2>7. AskedForCart' /\ PaidForCart' /\ InvoicedForCart'
      BY <1>0, <1>1, <2>1, <2>2, <2>3, <2>5 DEF AskedForCart, PaidForCart, InvoicedForCart, HandedOff
    <2> QED
      BY <1>0, <2>3, <2>4, <2>5, <2>6, <2>7, KeepSale DEF SaleTypeOK, NullOr
  <1>4. ASSUME NEW s \in Sites, FailHandOff(s)
        PROVE  SaleInv'
    <2>1. /\ sale' = [sale EXCEPT !.status = "closed", !.origin = domain[s]]
          /\ asked' = None /\ sale.status = "pending" /\ domain[s] \in Domains
      BY <1>0, <1>1, <1>4 DEF FailHandOff, SaleTypeOK
    <2>2. sale' \in [status : Statuses, price : NullOr(Nat), origin : NullOr(Domains)]
      BY <1>0, <2>1 DEF SaleTypeOK, Statuses, NullOr
    <2>3. sale'.price = sale.price /\ sale.price # None /\ sale'.status = "closed"
      BY <1>0, <2>1 DEF SaleInv, SaleTypeOK
    <2> QED
      BY <1>0, <1>1, <2>1, <2>2, <2>3, KeepSale
      DEF SaleInv, SaleTypeOK, AskedForCart, PaidForCart, InvoicedForCart, HandedOff, NullOr
  <1> QED
    BY <1>2, <1>3, <1>4

\* The gateway's answer: the payment is settled, or held.
LEMMA AnswerStep ==
  ASSUME SaleInv, Settle \/ Hold
  PROVE  SaleInv'
  <1>0. /\ SaleTypeOK /\ Unconfigured /\ UNCHANGED <<asked, refund, invoice>>
        /\ sale.status = "processing" /\ invoice = None
        /\ asked # None /\ asked \in Requests /\ asked.amount = sale.price
        /\ sale.price \in Nat
    BY DEF SaleInv, SaleTypeOK, AskedForCart, InvoicedForCart, Settle, Hold, Unconfigured, configVars,
       HandedOff, NullOr
  <1>1. PICK taken \in Takings, status \in {"paid", "unreconciled"} :
          /\ sale' = [sale EXCEPT !.status = status]
          /\ row' = [amount |-> sale.price, currency |-> taken.currency, settled |-> (status = "paid")]
          /\ status = "paid" => Reconciles(taken) /\ Settle
          /\ status # "paid" => UNCHANGED serving
    BY DEF Settle, Hold, Total
  <1>2. taken.currency \in Currencies /\ asked.site \in Sites
    BY <1>0 DEF Takings, Requests
  <1>3. row' \in Payments /\ row' # None
    BY <1>0, <1>1, <1>2, NothingIsNone DEF Payments
  <1>4. /\ sale' \in [status : Statuses, price : NullOr(Nat), origin : NullOr(Domains)]
        /\ sale'.status = status /\ sale'.price = sale.price /\ sale'.origin = sale.origin
        /\ sale'.price # None
    BY <1>0, <1>1, NothingIsNone DEF SaleTypeOK, Statuses
  <1>5. AskedForCart'
    BY <1>0, <1>4 DEF SaleInv, AskedForCart, HandedOff
  <1>6. status = "paid" => taken.currency \in Trades /\ serving' = asked.site
    BY <1>0, <1>1, <1>2, CartCurrencyTrades, NothingIsNone DEF Reconciles, Settle, Serves
  <1>7. PaidForCart'
    BY <1>0, <1>1, <1>3, <1>4, <1>6 DEF SaleInv, PaidForCart
  <1>8. InvoicedForCart' /\ serving' \in NullOr(Sites)
    BY <1>0, <1>1, <1>2, <1>6 DEF InvoicedForCart, NullOr, SaleTypeOK
  <1> QED
    BY <1>0, <1>3, <1>4, <1>5, <1>7, <1>8, KeepSale DEF SaleTypeOK, NullOr

\* The settling request records the origin of its site, which is the site the
\* cart was paid on, where the cart has none.
LEMMA OriginRecorded ==
  ASSUME SaleInv, serving # None,
         sale' = [sale EXCEPT !.origin = OriginSettled(serving)],
         UNCHANGED <<configVars, asked>>
  PROVE  /\ sale' \in [status : Statuses, price : NullOr(Nat), origin : NullOr(Domains)]
         /\ sale'.status = sale.status /\ sale'.price = sale.price
         /\ sale.status \in HandedOff
         /\ sale.origin # None => sale'.origin = sale.origin
         /\ AskedForCart'
  <1>1. /\ SaleTypeOK /\ serving \in Sites /\ serving = asked.site /\ asked # None
        /\ domain[serving] \in Domains /\ OwnerOf(domain[serving]) = serving
    BY DEF SaleInv, SaleTypeOK, PaidForCart, NullOr
  <1>2. OriginSettled(serving) \in NullOr(Domains)
    BY <1>1 DEF OriginSettled, SaleTypeOK, NullOr
  <1>3. /\ sale' \in [status : Statuses, price : NullOr(Nat), origin : NullOr(Domains)]
        /\ sale'.status = sale.status /\ sale'.price = sale.price
        /\ sale'.origin = OriginSettled(serving)
    BY <1>1, <1>2 DEF SaleTypeOK
  <1>4. /\ sale.origin # None => sale'.origin = sale.origin
        /\ sale.origin = None /\ sale'.origin # None => sale'.origin = domain[serving] /\ sale'.origin \in Usable
    BY <1>3 DEF OriginSettled
  <1> QED
    BY <1>1, <1>3, <1>4 DEF SaleInv, AskedForCart

\* The invoice of a paid cart, issued on the site it was paid on.
LEMMA InvoiceIssued ==
  ASSUME SaleInv, NEW s \in Sites, invoice' = InvoiceFor(s), CartCurrency(s) # None,
         sale'.status = "paid", sale'.price = sale.price, sale.status # "none",
         asked' = asked, s = asked.site
  PROVE  invoice' \in NullOr(Invoices) /\ InvoicedForCart'
  <1>1. /\ sale.price \in Nat /\ edition[s] \in 0..Editions
        /\ CartCurrency(s) \in Trades /\ CartCurrency(s) \in Currencies
    BY CartCurrencyTrades DEF SaleInv, SaleTypeOK, NullOr
  <1>2. Organization(s) \in Organizations /\ Organization(s).site = s
    BY <1>1 DEF Organization, Organizations
  <1>3. invoice' = [total |-> sale.price, currency |-> CartCurrency(s),
                    organization |-> Organization(s), named |-> TRUE]
    BY DEF InvoiceFor, Total
  <1>4. ASSUME NEW total \in Nat, NEW c \in Currencies, NEW o \in Organizations
        PROVE  [total |-> total, currency |-> c, organization |-> o, named |-> TRUE] \in Invoices
    BY DEF Invoices
  <1>5. invoice' \in Invoices
    BY <1>1, <1>2, <1>3, <1>4
  <1> QED
    BY <1>1, <1>2, <1>3, <1>5 DEF InvoicedForCart, NullOr

\* The settling request ends: with the invoice, without, or not at all.
LEMMA SettlingStep ==
  ASSUME SaleInv, Issue \/ FailToIssue \/ Die
  PROVE  SaleInv'
  <1>0. /\ SaleTypeOK /\ Unconfigured /\ UNCHANGED <<configVars, asked, row, refund>>
        /\ serving \in Sites /\ serving # None /\ serving' = None
        /\ serving = asked.site /\ asked # None
        /\ sale.status # "none" /\ sale.price # None
    BY DEF SaleInv, SaleTypeOK, AskedForCart, PaidForCart, Issue, FailToIssue, Die, Unconfigured, books,
       HandedOff, NullOr
  <1>1. CASE Die
    BY <1>0, <1>1, KeepSale
    DEF Die, books, SaleInv, SaleTypeOK, AskedForCart, PaidForCart, InvoicedForCart, NullOr
  <1>2. CASE Issue \/ FailToIssue
    <2>1. sale' = [sale EXCEPT !.origin = OriginSettled(serving)]
      BY <1>2 DEF Issue, FailToIssue
    <2>2. /\ sale' \in [status : Statuses, price : NullOr(Nat), origin : NullOr(Domains)]
          /\ sale'.status = sale.status /\ sale'.price = sale.price /\ sale.status \in HandedOff
          /\ AskedForCart'
      BY <1>0, <2>1, OriginRecorded
    <2>3. PaidForCart'
      BY <1>0, <2>2 DEF SaleInv, PaidForCart
    <2>4. invoice' \in NullOr(Invoices) /\ InvoicedForCart'
      <3>1. CASE Issue
        BY <1>0, <2>2, <3>1, InvoiceIssued DEF Issue, CanIssue
      <3>2. CASE FailToIssue
        BY <1>0, <2>2, <3>2 DEF FailToIssue, books, SaleInv, SaleTypeOK, InvoicedForCart
      <3> QED
        BY <1>2, <3>1, <3>2
    <2> QED
      BY <1>0, <2>2, <2>3, <2>4, KeepSale DEF SaleTypeOK, NullOr, HandedOff
  <1> QED
    BY <1>1, <1>2

LEMMA PayingSiteType ==
  ASSUME SaleInv, PayingSite # None, asked # None
  PROVE  PayingSite \in Sites /\ PayingSite = asked.site
  <1>1. PICK s \in Sites : domain[s] = sale.origin /\ s = PayingSite
    BY DEF PayingSite, SiteNamed
  <1> QED
    BY <1>1 DEF SaleInv, AskedForCart, PayingSite

\* Staff have the cart invoiced, accept its payment, or record its refund.
LEMMA StaffStep ==
  ASSUME SaleInv,
         Retry \/ Accept \/ RefundPaid \/ \E s \in Sites : RefundUnreconciled(s)
  PROVE  SaleInv'
  <1>0. /\ SaleTypeOK /\ Unconfigured /\ UNCHANGED <<asked, serving>>
        /\ sale.status \in {"paid", "unreconciled"} /\ invoice = None /\ serving = None
        /\ sale.price # None /\ sale.price \in Nat /\ asked # None
    BY DEF SaleInv, SaleTypeOK, AskedForCart, Retry, Accept, RefundPaid, RefundUnreconciled,
       Resolvable, Unconfigured, configVars, HandedOff, NullOr
  <1>1. CASE Retry
    <2>1. PayingSite \in Sites /\ PayingSite = asked.site /\ CartCurrency(PayingSite) # None
      BY <1>0, <1>1, PayingSiteType DEF Retry, CanIssue
    <2>2. invoice' \in NullOr(Invoices) /\ InvoicedForCart'
      BY <1>0, <1>1, <2>1, InvoiceIssued DEF Retry, Resolvable
    <2> QED
      BY <1>0, <1>1, <2>2, KeepSale
      DEF Retry, SaleInv, SaleTypeOK, AskedForCart, PaidForCart, NullOr
  <1>2. CASE Accept
    <2>1. /\ PayingSite \in Sites /\ PayingSite = asked.site
          /\ CartCurrency(PayingSite) \in Trades /\ CartCurrency(PayingSite) \in Currencies
      BY <1>0, <1>2, PayingSiteType, CartCurrencyTrades DEF Accept
    <2>2. /\ row' = [amount |-> sale.price, currency |-> CartCurrency(PayingSite), settled |-> TRUE]
          /\ row' \in Payments /\ row' # None
      BY <1>0, <1>2, <2>1, NothingIsNone DEF Accept, Total, Payments
    <2>3. /\ sale' \in [status : Statuses, price : NullOr(Nat), origin : NullOr(Domains)]
          /\ sale'.status = "paid" /\ sale'.price = sale.price /\ sale'.origin = sale.origin
      BY <1>0, <1>2 DEF Accept, SaleTypeOK, Statuses
    <2>4. AskedForCart' /\ PaidForCart'
      BY <1>0, <2>1, <2>2, <2>3 DEF SaleInv, AskedForCart, PaidForCart, HandedOff
    <2>5. invoice' \in NullOr(Invoices) /\ InvoicedForCart'
      <3>1. CASE invoice' = InvoiceFor(PayingSite)
        BY <1>0, <1>2, <2>1, <2>3, <3>1, InvoiceIssued DEF Accept
      <3>2. CASE invoice' = invoice
        BY <1>0, <3>2 DEF InvoicedForCart, NullOr
      <3> QED
        BY <1>2, <3>1, <3>2 DEF Accept
    <2> QED
      BY <1>0, <1>2, <2>2, <2>3, <2>4, <2>5, KeepSale DEF Accept, SaleTypeOK, NullOr
  <1>3. CASE RefundPaid \/ \E s \in Sites : RefundUnreconciled(s)
    <2>1. /\ sale' = [sale EXCEPT !.status = "refunded"] /\ invoice' = None /\ row' = row
          /\ refund' \in Refunds
      <3>1. CASE RefundPaid
        <4>1. row \in Payments
          BY <1>0, <3>1 DEF RefundPaid, Resolvable, SaleInv, PaidForCart, SaleTypeOK, NullOr
        <4> QED
          BY <1>0, <3>1, <4>1 DEF RefundPaid, Payments, Refunds
      <3>2. ASSUME NEW s \in Sites, RefundUnreconciled(s)
            PROVE  /\ sale' = [sale EXCEPT !.status = "refunded"] /\ invoice' = None /\ row' = row
                   /\ refund' \in Refunds
        <4>1. PICK amount \in Typed : /\ CanRefund(s, amount)
                                      /\ refund' = [amount |-> amount.mil, currency |-> CartCurrency(s)]
          BY <3>2 DEF RefundUnreconciled
        <4>2. amount.mil \in Nat /\ CartCurrency(s) \in Currencies
          BY <4>1, CartCurrencyTrades, BillingAssumption DEF CanRefund, Decimals
        <4> QED
          BY <1>0, <3>2, <4>1, <4>2 DEF RefundUnreconciled, Refunds
      <3> QED
        BY <1>3, <3>1, <3>2
    <2>2. /\ sale' \in [status : Statuses, price : NullOr(Nat), origin : NullOr(Domains)]
          /\ sale'.status = "refunded" /\ sale'.price = sale.price /\ sale'.origin = sale.origin
      BY <1>0, <2>1 DEF SaleTypeOK, Statuses
    <2>3. AskedForCart' /\ PaidForCart' /\ InvoicedForCart'
      BY <1>0, <2>1, <2>2 DEF SaleInv, AskedForCart, PaidForCart, InvoicedForCart, HandedOff
    <2> QED
      BY <1>0, <2>1, <2>2, <2>3, KeepSale DEF SaleTypeOK, NullOr
  <1> QED
    BY <1>1, <1>2, <1>3

LEMMA SaleStep ==
  ASSUME SaleInv, SaleNext
  PROVE  SaleInv'
  BY ConfigurationStep, HandOffStep, AnswerStep, SettlingStep, StaffStep DEF SaleNext

\* An invoice keeps the origin it was issued on, and a cart the payment that
\* was asked for.
LEMMA KeptForInvoice ==
  ASSUME SaleInv, SaleNext
  PROVE  /\ sale.origin # None \/ invoice # None => sale'.origin = sale.origin
         /\ asked # None => asked' = asked
         /\ invoice # None => invoice' = invoice
  <1>0. SaleTypeOK
    BY DEF SaleInv
  <1>1. ASSUME NEW s \in Sites,
               Configure(s) \/ Rename(s) \/ Reorganize(s) \/ SaveItem(s)
        PROVE  UNCHANGED <<sale, asked, invoice>>
    BY <1>1 DEF Configure, Rename, Reorganize, SaveItem, books
  <1>2. CASE CreateCart \/ \E s \in Sites : HandOff(s) \/ FailHandOff(s)
    <2>1. sale.origin = None /\ asked = None /\ invoice = None
      BY <1>2 DEF CreateCart, HandOff, FailHandOff, SaleInv, AskedForCart, InvoicedForCart, HandedOff
    <2> QED
      BY <2>1
  <1>3. CASE Settle \/ Hold
    BY <1>0, <1>3 DEF Settle, Hold, SaleTypeOK
  <1>4. CASE Issue \/ FailToIssue
    <2>1. /\ serving # None /\ invoice = None /\ asked' = asked
          /\ sale' = [sale EXCEPT !.origin = OriginSettled(serving)]
      BY <1>4 DEF Issue, FailToIssue, SaleInv, PaidForCart
    <2>2. sale.origin # None => sale'.origin = sale.origin
      BY <1>0, <2>1 DEF OriginSettled, SaleTypeOK
    <2> QED
      BY <2>1, <2>2
  <1>5. CASE Die
    BY <1>5 DEF Die, books
  <1>6. CASE Retry \/ Accept \/ RefundPaid \/ \E s \in Sites : RefundUnreconciled(s)
    BY <1>0, <1>6 DEF Retry, Accept, RefundPaid, RefundUnreconciled, Resolvable, SaleTypeOK
  <1> QED
    BY <1>1, <1>2, <1>3, <1>4, <1>5, <1>6 DEF SaleNext

\* The site a cart was paid on is still reached under its origin.
OriginServed ==
  asked # None /\ sale.origin # None =>
    domain[asked.site] \in Usable /\ HostOf[domain[asked.site]] = HostOf[sale.origin]

LEMMA OriginStaysServed ==
  ASSUME SaleInv, OriginServed, SaleNext
  PROVE  OriginServed'
  <1>0. SaleTypeOK
    BY DEF SaleInv
  <1>1. ASSUME NEW s \in Sites, Rename(s)
        PROVE  OriginServed'
    <2>1. PICK r \in Renames : r.from = domain[s] /\ domain' = [domain EXCEPT ![s] = r.to]
      BY <1>1 DEF Rename
    <2>2. UNCHANGED <<sale, asked>>
      BY <1>1 DEF Rename
    <2>3. asked # None => asked.site \in Sites
      BY <1>0 DEF SaleTypeOK, NullOr, Requests
    <2> QED
      BY <1>0, <2>1, <2>2, <2>3, ReceiptsAssumption DEF OriginServed, SaleTypeOK
  <1>2. ASSUME NEW s \in Sites, HandOff(s)
        PROVE  OriginServed'
    BY <1>0, <1>2 DEF HandOff, OriginServed, SaleTypeOK, configVars
  <1>3. ASSUME NEW s \in Sites, FailHandOff(s)
        PROVE  OriginServed'
    BY <1>3 DEF FailHandOff, OriginServed, SaleInv, AskedForCart, HandedOff
  <1>4. CASE Issue \/ FailToIssue
    BY <1>0, <1>4 DEF Issue, FailToIssue, OriginSettled, OriginServed, SaleInv, SaleTypeOK, PaidForCart,
       configVars
  <1>5. ASSUME UNCHANGED <<domain, asked>>, sale'.origin = sale.origin
        PROVE  OriginServed'
    BY <1>5 DEF OriginServed
  <1>6. CASE Die \/ Retry \/ \E s \in Sites : Configure(s) \/ Reorganize(s) \/ SaveItem(s)
    BY <1>5, <1>6 DEF Die, Retry, Configure, Reorganize, SaveItem, configVars
  <1>7. CASE CreateCart \/ Settle \/ Hold \/ Accept \/ RefundPaid
             \/ \E s \in Sites : RefundUnreconciled(s)
    BY <1>0, <1>5, <1>7 DEF CreateCart, Settle, Hold, Accept, RefundPaid, RefundUnreconciled, configVars,
       SaleTypeOK
  <1> QED
    BY <1>1, <1>2, <1>3, <1>4, <1>6, <1>7 DEF SaleNext

(***************************************************************************)
(* The pages.                                                              *)
(***************************************************************************)
\* A redirected request is at the site of the invoice.
Redirected == page.hops > 0 => sale.origin # None /\ page.host = HostOf[sale.origin] /\ page.hops = 1

PageInv ==
  /\ SaleInv
  /\ OriginServed
  /\ TypeOK
  /\ Redirected
  /\ page.answer = "shown" => invoice # None
  /\ ShowsIssuer
  /\ RetiredNameHidden
  /\ StrangersAnsweredAlike

LEMMA AskedType ==
  ASSUME NEW asker \in Askers, NEW h \in Hosts \cup {None}, NEW answer \in Answers
  PROVE  /\ NoPage \in Pages
         /\ [NoPage EXCEPT !.asker = asker, !.host = h, !.answer = answer] \in Pages
  <1>1. 0 \in 0..MaxHops /\ "stranger" \in Askers /\ "private" \in Answers
    BY ReceiptsAssumption DEF Askers, Answers
  <1>2. ASSUME NEW a \in Askers, NEW g \in Hosts \cup {None}, NEW n \in 0..MaxHops, NEW x \in Answers,
               NEW o \in Organizations \cup {None}
        PROVE  [asker |-> a, host |-> g, hops |-> n, answer |-> x, organization |-> o,
                named |-> FALSE, live |-> FALSE, retired |-> FALSE] \in Pages
    BY DEF Pages, NullOr
  <1>3. NoPage \in Pages
    BY <1>1, <1>2 DEF NoPage
  <1> QED
    BY <1>3 DEF Pages, NullOr

LEMMA InitPage == Init => PageInv
  <1> SUFFICES ASSUME Init
      PROVE  PageInv
    OBVIOUS
  <1>1. SaleInv
    BY InitSale DEF Init
  <1>2. OriginServed
    BY DEF Init, SaleInit, OriginServed
  <1>3. TypeOK
    BY <1>1, AskedType DEF Init, SaleInv, TypeOK, Askers, Answers
  <1> QED
    BY <1>1, <1>2, <1>3
    DEF Init, PageInv, NoPage, Redirected, ShowsIssuer, RetiredNameHidden, StrangersAnsweredAlike

\* Selling goes on under a page already answered.
LEMMA SellStep ==
  ASSUME PageInv, Sell
  PROVE  PageInv'
  <1>1. SaleInv' /\ OriginServed'
    BY SaleStep, OriginStaysServed DEF PageInv, Sell
  <1>2. /\ sale.origin # None \/ invoice # None => sale'.origin = sale.origin
        /\ asked # None => asked' = asked
        /\ invoice # None => invoice' = invoice
    BY KeptForInvoice DEF PageInv, Sell
  <1>3. invoice # None => asked # None
    BY DEF PageInv, SaleInv, InvoicedForCart, AskedForCart, HandedOff
  <1> QED
    BY <1>1, <1>2, <1>3
    DEF Sell, PageInv, SaleInv, TypeOK, Redirected, ShowsIssuer, RetiredNameHidden, StrangersAnsweredAlike

\* The host of an origin is served by the site paid on, and by no other.
LEMMA SiteOfOrigin ==
  ASSUME PageInv, asked # None, sale.origin # None
  PROVE  SiteAt(HostOf[sale.origin]) = asked.site
  <1>1. asked.site \in Sites /\ domain \in [Sites -> Domains]
    BY DEF PageInv, SaleInv, SaleTypeOK, NullOr, Requests
  <1>2. HostOf[domain[asked.site]] = HostOf[sale.origin] /\ HostOf[sale.origin] # None
    BY ReceiptsAssumption DEF PageInv, OriginServed
  <1>3. ASSUME NEW s \in Sites, HostOf[domain[s]] = HostOf[sale.origin]
        PROVE  s = asked.site
    BY <1>1, <1>2, <1>3, ReceiptsAssumption DEF PageInv, SaleInv
  <1> QED
    BY <1>1, <1>2, <1>3 DEF SiteAt

LEMMA ShowStep ==
  ASSUME PageInv, Show
  PROVE  PageInv'
  <1>1. /\ SaleInv' /\ OriginServed' /\ invoice' # None
        /\ page \in Pages /\ live \in BOOLEAN /\ retired \in BOOLEAN
        /\ UNCHANGED <<saleVars, live, retired>>
    BY DEF PageInv, TypeOK, Show, saleVars, SaleInv, SaleTypeOK, OriginServed, AskedForCart, PaidForCart,
       InvoicedForCart, CartCurrency
  <1>2. invoice \in Invoices /\ asked # None /\ edition \in [Sites -> 0..Editions] /\ Default \in Sites
    BY BillingAssumption
    DEF Show, PageInv, SaleInv, SaleTypeOK, NullOr, InvoicedForCart, AskedForCart, HandedOff
  <1>3. SiteAt(page.host) \in Sites
    BY <1>2 DEF SiteAt
  <1>4. ShownOrganization \in NullOr(Organizations)
    BY <1>2, <1>3 DEF ShownOrganization, Organization, Organizations, Invoices, NullOr
  <1>5. Named \in BOOLEAN
    BY <1>1, <1>2 DEF Named, Invoices
  <1>6. page' = [page EXCEPT !.answer = "shown", !.organization = ShownOrganization,
                             !.named = Named, !.live = live, !.retired = retired]
    BY DEF Show
  <1>7. TypeOK'
    BY <1>1, <1>4, <1>5, <1>6 DEF TypeOK, SaleInv, Pages, Answers
  <1>8. ShowsIssuer'
    <2>1. CASE live
      BY <1>1, <1>2, <1>6, <2>1, SiteOfOrigin
      DEF Show, IsElsewhere, ShownOrganization, Organization, ShowsIssuer, Pages, saleVars
    <2>2. CASE ~live
      BY <1>1, <1>2, <1>6, <2>2
      DEF ShownOrganization, ShowsIssuer, PageInv, SaleInv, InvoicedForCart, Pages, saleVars
    <2> QED
      BY <2>1, <2>2
  <1>9. RetiredNameHidden'
    BY <1>1, <1>6 DEF RetiredNameHidden, Named, Pages
  <1>10. Redirected' /\ StrangersAnsweredAlike'
    BY <1>1, <1>6 DEF PageInv, Redirected, StrangersAnsweredAlike, Show, MaySee, Pages, saleVars
  <1> QED
    BY <1>1, <1>7, <1>8, <1>9, <1>10 DEF PageInv

LEMMA PageStep ==
  ASSUME PageInv, Ask \/ Refuse \/ Redirect \/ FailToShow \/ Switch \/ Retire
  PROVE  PageInv'
  <1>1. /\ UNCHANGED saleVars /\ SaleInv' /\ OriginServed'
        /\ page \in Pages /\ live \in BOOLEAN /\ retired \in BOOLEAN
    BY DEF PageInv, TypeOK, Ask, Refuse, Redirect, FailToShow, Switch, Retire, saleVars,
       SaleInv, SaleTypeOK, OriginServed, AskedForCart, PaidForCart, InvoicedForCart
  <1>2. CASE Ask
    <2>1. PICK asker \in Askers, h \in Hosts :
            page' = [NoPage EXCEPT !.asker = asker, !.host = h, !.answer = "none"]
      BY <1>2 DEF Ask
    <2>2. page' \in Pages
      BY <2>1, AskedType DEF Answers
    <2>3. page'.hops = 0 /\ page'.answer = "none"
      BY <2>1 DEF NoPage
    <2>4. UNCHANGED <<live, retired>>
      BY <1>2 DEF Ask
    <2> QED
      BY <1>1, <2>2, <2>3, <2>4
      DEF PageInv, TypeOK, SaleInv, Redirected, ShowsIssuer, RetiredNameHidden,
          StrangersAnsweredAlike
  <1>3. CASE Refuse
    BY <1>1, <1>3
    DEF Refuse, PageInv, TypeOK, SaleInv, Redirected, ShowsIssuer, RetiredNameHidden, Pages, Answers,
        StrangersAnsweredAlike, saleVars
  <1>4. CASE Redirect
    <2>1. page.hops = 0 /\ page' = [page EXCEPT !.host = HostOf[sale.origin], !.hops = @ + 1]
      BY <1>1, <1>4 DEF Redirect, PageInv, Redirected, IsElsewhere, Pages
    <2>2. HostOf[sale.origin] \in NullOr(Hosts) /\ 1 \in 0..MaxHops
      BY <1>1, <1>4, BillingAssumption, ReceiptsAssumption
      DEF Redirect, PageInv, SaleInv, SaleTypeOK, IsElsewhere, NullOr, Pages
    <2>3. page.hops + 1 = 1
      BY <2>1
    <2>4. page' = [page EXCEPT !.host = HostOf[sale.origin], !.hops = 1]
      BY <2>1, <2>3
    <2>5. page' \in Pages /\ page'.hops = 1 /\ page'.host = HostOf[sale.origin]
      BY <1>1, <2>2, <2>4 DEF Pages
    <2> QED
      BY <1>1, <1>4, <2>4, <2>5
      DEF Redirect, PageInv, TypeOK, SaleInv, Redirected, ShowsIssuer, RetiredNameHidden, Pages,
          StrangersAnsweredAlike, saleVars, Waiting, IsElsewhere, MaySee
  <1>5. CASE FailToShow
    BY <1>1, <1>5
    DEF FailToShow, PageInv, TypeOK, SaleInv, Redirected, ShowsIssuer, RetiredNameHidden, Pages, Answers,
        StrangersAnsweredAlike, saleVars, MaySee
  <1>6. CASE Switch \/ Retire
    BY <1>1, <1>6
    DEF Switch, Retire, PageInv, TypeOK, SaleInv, Redirected, ShowsIssuer, RetiredNameHidden,
        StrangersAnsweredAlike, saleVars
  <1> QED
    BY <1>2, <1>3, <1>4, <1>5, <1>6

LEMMA PagesKept == Spec => []PageInv
  <1>1. PageInv /\ [Next]_vars => PageInv'
    <2>1. ASSUME PageInv, UNCHANGED vars
          PROVE  PageInv'
      BY <2>1
      DEF vars, saleVars, PageInv, TypeOK, SaleInv, SaleTypeOK, OriginServed, AskedForCart, PaidForCart,
          InvoicedForCart, Redirected, ShowsIssuer, RetiredNameHidden, StrangersAnsweredAlike
    <2> QED
      BY <2>1, SellStep, ShowStep, PageStep DEF Next
  <1> QED
    BY InitPage, <1>1, PTL DEF Spec

(***************************************************************************)
(* Amounts, where a deployment trades in one currency and every row its    *)
(* catalogue was seeded with can be charged in it.                         *)
(***************************************************************************)
Whole(amount) == amount # None => \A c \in Trades : amount % MinorUnit(c) = 0

SeedsWhole == \A r \in Seeds : r.price # None => Whole(r.price.mil)

\* The price of the item, that of the cart, and what is given back.
WholeInv ==
  /\ item.price # None => Whole(item.price.mil)
  /\ Whole(sale.price)
  /\ refund # None => refund.currency \in Trades /\ Whole(refund.amount)

LEMMA TypedWhole ==
  ASSUME \A c, d \in Trades : c = d, NEW price \in Typed, NEW c \in Trades, FitsCurrency(price, c)
  PROVE  Whole(price.mil)
  BY FitsUnit, BillingAssumption DEF Whole

LEMMA InitWhole ==
  ASSUME \A c, d \in Trades : c = d, SeedsWhole, SaleInit
  PROVE  WholeInv
  <1>1. refund = None /\ (item.price # None => Whole(item.price.mil))
    BY DEF SaleInit, SeedsWhole
  <1>2. CASE sale.price = None
    BY <1>1, <1>2 DEF WholeInv, Whole
  <1>3. CASE sale.price # None
    <2>1. PICK p \in Typed, c \in Trades : FitsCurrency(p, c) /\ sale.price = p.mil
      BY <1>3 DEF SaleInit
    <2> QED
      BY <1>1, <2>1, TypedWhole DEF WholeInv
  <1> QED
    BY <1>2, <1>3

LEMMA WholeStep ==
  ASSUME \A c, d \in Trades : c = d, SaleInv, WholeInv, SaleNext
  PROVE  WholeInv'
  <1>0. SaleTypeOK
    BY DEF SaleInv
  <1>1. ASSUME item' = item, refund' = refund, sale'.price = sale.price
        PROVE  WholeInv'
    BY <1>1 DEF WholeInv, Whole
  <1>2. ASSUME NEW s \in Sites, SaveItem(s)
        PROVE  WholeInv'
    <2>1. PICK p \in Typed, c \in Currencies :
            Sellable(s, p, c) /\ item' = [price |-> Stored(p), currency |-> c]
      BY <1>2 DEF SaveItem
    <2>2. c \in Trades /\ FitsCurrency(p, c) /\ p \in Decimals
      BY <2>1, NothingIsNone, BillingAssumption DEF Sellable, SaleInv
    <2>3. Whole(Stored(p).mil)
      BY <2>2, TypedWhole, StoredType
    <2> QED
      BY <1>2, <2>1, <2>3 DEF SaveItem, books, WholeInv, Whole
  <1>3. CASE CreateCart
    <2>1. sale'.price = item.price.mil /\ item.price # None /\ UNCHANGED <<item, refund>>
      BY <1>0, <1>3 DEF CreateCart, SaleTypeOK, books
    <2> QED
      BY <2>1 DEF WholeInv, Whole
  <1>4. ASSUME NEW s \in Sites, RefundUnreconciled(s)
        PROVE  WholeInv'
    <2>1. PICK amount \in Typed : /\ CanRefund(s, amount)
                                  /\ refund' = [amount |-> amount.mil, currency |-> CartCurrency(s)]
      BY <1>4 DEF RefundUnreconciled
    <2>2. CartCurrency(s) \in Trades /\ Whole(amount.mil)
      BY <2>1, CartCurrencyTrades, TypedWhole DEF CanRefund
    <2>3. item' = item /\ sale'.price = sale.price
      BY <1>0, <1>4 DEF RefundUnreconciled, SaleTypeOK
    <2> QED
      BY <2>1, <2>2, <2>3 DEF WholeInv, Whole
  <1>5. CASE RefundPaid
    <2>1. /\ refund' = [amount |-> row.amount, currency |-> row.currency]
          /\ row.amount = sale.price /\ row.currency \in Trades
          /\ item' = item /\ sale'.price = sale.price
      BY <1>0, <1>5 DEF RefundPaid, Resolvable, SaleInv, PaidForCart, SaleTypeOK
    <2> QED
      BY <2>1 DEF WholeInv, Whole
  <1>6. CASE \E s \in Sites : Configure(s) \/ Rename(s) \/ Reorganize(s) \/ HandOff(s) \/ FailHandOff(s)
    BY <1>0, <1>1, <1>6 DEF Configure, Rename, Reorganize, HandOff, FailHandOff, SaleTypeOK, books
  <1>7. CASE Settle \/ Hold \/ Issue \/ FailToIssue \/ Die \/ Retry \/ Accept
    BY <1>0, <1>1, <1>7 DEF Settle, Hold, Issue, FailToIssue, Die, Retry, Accept, SaleTypeOK, books
  <1> QED
    BY <1>2, <1>3, <1>4, <1>5, <1>6, <1>7 DEF SaleNext

LEMMA WholeKept ==
  ASSUME \A c, d \in Trades : c = d, SeedsWhole
  PROVE  Spec => []WholeInv
  <1>1. Init => WholeInv
    BY InitWhole DEF Init
  <1>2. PageInv /\ WholeInv /\ [Next]_vars => WholeInv'
    <2>1. ASSUME PageInv, WholeInv, Sell
          PROVE  WholeInv'
      BY <2>1, WholeStep DEF PageInv, Sell
    <2>2. ASSUME WholeInv, UNCHANGED saleVars
          PROVE  WholeInv'
      BY <2>2 DEF WholeInv, Whole, saleVars
    <2> QED
      BY <2>1, <2>2 DEF Next, vars, Ask, Refuse, Redirect, Show, FailToShow, Switch, Retire
  <1> QED
    BY PagesKept, <1>1, <1>2, PTL DEF Spec

-----------------------------------------------------------------------------
\* The cart, its payment, its invoice and the page shown keep their types.
THEOREM ReceiptsTypeCorrect == Spec => []TypeOK
  <1>1. PageInv => TypeOK
    BY DEF PageInv
  <1> QED
    BY PagesKept, <1>1, PTL

\* create_invoice and the reconciliation, where a deployment trades in one
\* currency: whatever staff reconfigure meanwhile, an invoice bills the settled
\* payment behind it, which is what the learner was asked for.
THEOREM InvoicesBillWhatWasAsked ==
  ASSUME \A c, d \in Trades : c = d
  PROVE  Spec => []BilledAsAsked
  <1>1. PageInv => BilledAsAsked
    BY DEF PageInv, SaleInv, AskedForCart, PaidForCart, InvoicedForCart, HandedOff, BilledAsAsked
  <1> QED
    BY PagesKept, <1>1, PTL

\* validate_price_against_currency and record_refund, where a deployment trades
\* in one currency and no seeded row is finer than it: what a gateway is asked
\* to take, and what is given back, can be paid in that currency.
THEOREM AmountsPayable ==
  ASSUME \A c, d \in Trades : c = d, SeedsWhole
  PROVE  Spec => []ChargedToTheUnit
  <1>1. PageInv /\ WholeInv => ChargedToTheUnit
    <2> SUFFICES ASSUME PageInv, WholeInv
        PROVE  ChargedToTheUnit
      OBVIOUS
    <2>1. asked # None => asked.amount = sale.price /\ asked.currency \in Trades /\ sale.price # None
      BY DEF PageInv, SaleInv, AskedForCart, HandedOff
    <2>2. refund # None => refund.currency \in Trades /\ refund.amount # None
      BY NothingIsNone DEF WholeInv, PageInv, SaleInv, SaleTypeOK, NullOr, Refunds
    <2> QED
      BY <2>1, <2>2 DEF WholeInv, Whole, ChargedToTheUnit
  <1> QED
    BY PagesKept, WholeKept, <1>1, PTL

\* create_invoice refuses a site other than the one paid on: whoever's request
\* issues the invoice, it stores the organization of the site paid on, and the
\* origin recorded on the cart is that site's.
THEOREM InvoicesNamePayingSite == Spec => []InvoiceNamesPayingSite
  <1>1. PageInv => InvoiceNamesPayingSite
    BY DEF PageInv, SaleInv, AskedForCart, InvoicedForCart, InvoiceNamesPayingSite
  <1> QED
    BY PagesKept, <1>1, PTL

\* record_payment_origin writes where there is none: the origin of a cart is
\* never replaced.
THEOREM OriginsKept == Spec => [][sale.origin # None => sale'.origin = sale.origin]_saleVars
  <1>1. PageInv /\ [Next]_vars => [sale.origin # None => sale'.origin = sale.origin]_saleVars
    <2>1. ASSUME PageInv, Sell
          PROVE  sale.origin # None => sale'.origin = sale.origin
      BY <2>1, KeptForInvoice DEF PageInv, Sell
    <2> QED
      BY <2>1 DEF Next, vars, Ask, Refuse, Redirect, Show, FailToShow, Switch, Retire
  <1> QED
    BY PagesKept, <1>1, PTL DEF Spec

\* _redirect_to_issuing_site and the live-info switch: on whichever site an
\* invoice is asked for, however that site's domain is spelled by then, and
\* whether what is shown was stored or is read now, it names the organization
\* of the site paid on.
THEOREM PagesShowIssuer == Spec => []ShowsIssuer
  <1>1. PageInv => ShowsIssuer
    BY DEF PageInv
  <1> QED
    BY PagesKept, <1>1, PTL

\* _host_key: a request sent to the site of its invoice is answered there.
THEOREM RedirectedOnce == Spec => []OneRedirect
  <1>1. PageInv => OneRedirect
    BY DEF PageInv, TypeOK, Pages, Redirected, OneRedirect
  <1> QED
    BY PagesKept, <1>1, PTL

\* retire_learner_info: a page built from what the invoice stores, after the
\* learner retired, does not carry their name.
THEOREM RetiredNamesHidden == Spec => []RetiredNameHidden
  <1>1. PageInv => RetiredNameHidden
    BY DEF PageInv
  <1> QED
    BY PagesKept, <1>1, PTL

\* InvoiceView.get answers before it redirects: a caller who may not see an
\* invoice learns neither that it exists nor where it was issued.
THEOREM StrangersToldNothing == Spec => []StrangersAnsweredAlike
  <1>1. PageInv => StrangersAnsweredAlike
    BY DEF PageInv
  <1> QED
    BY PagesKept, <1>1, PTL
=============================================================================
