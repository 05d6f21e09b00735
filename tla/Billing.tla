---------------------------- MODULE Billing ----------------------------
(* One sale, from the price staff save to the invoice the learner is given, *)
(* while staff reconfigure the sites it is made on: what is charged, in     *)
(* which currency, and whose invoice it is. How requests about the cart     *)
(* race each other is Settlement's and Checkout's subject; here a cart is   *)
(* sold once, and what may change at any moment is the configuration the    *)
(* code reads again at each step.                                           *)
EXTENDS Integers

CONSTANTS
  Sites,        \* the sites of the deployment
  Default,      \* the site that answers a host no site has for its domain
  Domains,      \* the values a site's domain may hold
  Hosts,        \* the hosts browsers ask for
  HostOf,       \* the host a domain names, however the domain is spelled
  Usable,       \* the domains a payment origin can be made of
  FirstDomain,  \* the domain each site starts with
  Renames,      \* the corrections of a domain staff may make, old to new
  Currencies,   \* the supported currencies
  Exponent,     \* the decimal places of each currency
  Trades,       \* the currencies valid_currency is ever set to
  Typed,        \* the decimals staff type: a price, or an amount refunded
  Seeds,        \* the catalogue rows a seeded or migrated database may hold
  Editions,     \* how often a site's organization is edited
  None          \* SQL's NULL, and an unset setting

\* A domain belongs to one site and is never handed on to another.
OwnerOf(d) == CHOOSE s \in Sites : \/ d = FirstDomain[s]
                                   \/ \E r \in Renames : r.site = s /\ d = r.to

\* One in the last of so many decimal places, in thousandths.
UnitOf(places) == <<1000, 100, 10, 1>>[places + 1]

\* A decimal: its value in thousandths, which is what the money columns hold,
\* and the places it is written with, which the column always reads back as 3.
Decimals == {d \in [mil : Nat, places : 0..3] : d.mil % UnitOf(d.places) = 0}

Organizations == [site : Sites, edition : 0..Editions]

\* What a gateway is asked to take, and the rows of a payment, of a refund and
\* of an invoice.
Requests == [amount : Nat, currency : Currencies, site : Sites]
Payments == [amount : Nat, currency : Currencies, settled : BOOLEAN]
Refunds == [amount : Nat, currency : Currencies]
Invoices ==
  [total : Nat, currency : Currencies, named : BOOLEAN, organization : Organizations \cup {None}]

ASSUME BillingAssumption ==
  /\ Default \in Sites /\ Trades \subseteq Currencies
  /\ HostOf \in [Domains -> Hosts \cup {None}] /\ Usable \subseteq Domains
  /\ FirstDomain \in [Sites -> Domains]
  /\ Renames \subseteq [site : Sites, from : Domains, to : Domains]
  /\ \A r \in Renames : OwnerOf(r.to) = r.site
  /\ \A s \in Sites : OwnerOf(FirstDomain[s]) = s
  /\ Exponent \in [Currencies -> 0..3] /\ Typed \subseteq Decimals
  /\ Seeds \subseteq [price : Decimals \cup {None}, currency : Currencies \cup {None}]
  /\ Editions \in Nat
  /\ None \notin Sites \cup Domains \cup Currencies \cup Nat
  /\ None \notin Decimals \cup Organizations \cup Requests \cup Payments \cup Refunds \cup Invoices

VARIABLES
  domain,    \* Site.domain of each site
  currency,  \* valid_currency in each site's configuration
  edition,   \* which edition of organization_info each site is configured with
  item,      \* the catalogue item: price and currency
  sale,      \* the learner's cart: its status, the price of its line, its payment origin
  asked,     \* what the gateway was asked to take, under a reference naming the site
  serving,   \* the site of the request still settling the payment, or None
  row,       \* the cart's payment transaction
  refund,    \* the cart's refund transaction
  invoice    \* the cart's invoice

saleVars == <<domain, currency, edition, item, sale, asked, serving, row, refund, invoice>>
configVars == <<domain, currency, edition>>
books == <<row, refund, invoice>>

Statuses == {"none", "pending", "processing", "closed", "paid", "unreconciled", "refunded"}

(* ------------------------------ the rules ------------------------------ *)

\* How a decimal is written when it is read back from its column.
Stored(price) == [price EXCEPT !.places = 3]

\* A whole amount has no decimals, however it is written; any other has as
\* many as are written.
DecimalsUsed(price) == IF price.mil % 1000 = 0 THEN 0 ELSE price.places

FitsCurrency(price, c) == DecimalsUsed(price) <= Exponent[c]

\* What may be saved as sellable on site s.
Sellable(s, price, c) ==
  /\ price # None
  /\ c \in Currencies
  /\ currency[s] \in Currencies
  /\ c = currency[s]
  /\ FitsCurrency(price, c)

\* The cart's currency, which is the one of the site being served, or None
\* when that is unset or the item was saved in another.
CartCurrency(s) ==
  IF currency[s] \in Currencies /\ item.currency \in {None, currency[s]} THEN currency[s] ELSE None

\* Slip: the total is computed from the catalogue.
TotalNow == IF item.price = None THEN sale.price ELSE item.price.mil

\* The price the cart's line was made with, and not the item's price now.
Total == sale.price

\* The site a domain leads to, or None.
SiteNamed(d) == IF \E s \in Sites : domain[s] = d THEN CHOOSE s \in Sites : domain[s] = d ELSE None

Organization(s) == [site |-> s, edition |-> edition[s]]

(* --------------------------- the configuration -------------------------- *)

SaleInit ==
  /\ domain = FirstDomain
  /\ currency \in [Sites -> Trades \cup {None}]
  /\ edition = [s \in Sites |-> 0]
  /\ item \in Seeds
  /\ serving = None /\ refund = None
  /\ \/ /\ sale = [status |-> "none", price |-> None, origin |-> None]
        /\ asked = None /\ row = None /\ invoice = None
     \* a cart handed off before carts recorded their origin
     \/ \E s \in Sites, p \in Typed, c \in Trades :
          /\ FitsCurrency(p, c)
          /\ sale = [status |-> "processing", price |-> p.mil, origin |-> None]
          /\ asked = [amount |-> p.mil, currency |-> c, site |-> s]
          /\ row = None /\ invoice = None
     \* a cart invoiced before that, when invoices did not store their info either
     \/ \E s \in Sites, p \in Typed, c \in Trades :
          /\ FitsCurrency(p, c)
          /\ sale = [status |-> "paid", price |-> p.mil, origin |-> None]
          /\ asked = [amount |-> p.mil, currency |-> c, site |-> s]
          /\ row = [amount |-> p.mil, currency |-> c, settled |-> TRUE]
          /\ invoice = [total |-> p.mil, currency |-> c, organization |-> None, named |-> FALSE]

\* Staff set the deployment currency of a site, or lose it.
Configure(s) ==
  \E c \in Trades \cup {None} :
    /\ currency' = [currency EXCEPT ![s] = c]
    /\ UNCHANGED <<domain, edition, item, sale, asked, serving, books>>

\* Staff correct the domain of a site: a typing error, or its capitals.
Rename(s) ==
  \E r \in Renames :
    /\ r.site = s /\ r.from = domain[s]
    /\ domain' = [domain EXCEPT ![s] = r.to]
    /\ UNCHANGED <<currency, edition, item, sale, asked, serving, books>>

\* Staff edit what a site's invoices say about the organization.
Reorganize(s) ==
  /\ edition[s] < Editions
  /\ edition' = [edition EXCEPT ![s] = @ + 1]
  /\ UNCHANGED <<domain, currency, item, sale, asked, serving, books>>

\* Staff save the item, with a price they type, on site s.
SaveItem(s) ==
  \E p \in Typed, c \in Currencies :
    /\ Sellable(s, p, c)
    /\ item' = [price |-> Stored(p), currency |-> c]
    /\ UNCHANGED <<configVars, sale, asked, serving, books>>

(* -------------------------------- the sale ------------------------------ *)

\* The line is a copy of the price; its column refuses an item without one.
CreateCart ==
  /\ sale.status = "none" /\ item.price # None
  /\ sale' = [sale EXCEPT !.status = "pending", !.price = item.price.mil]
  /\ UNCHANGED <<configVars, item, asked, serving, books>>

\* The learner is sent to pay on site s; a site no origin can be made of
\* refuses, before the cart is touched.
HandOff(s) ==
  /\ sale.status = "pending" /\ domain[s] \in Usable /\ CartCurrency(s) # None
  /\ sale' = [sale EXCEPT !.status = "processing", !.origin = domain[s]]
  /\ asked' = [amount |-> Total, currency |-> CartCurrency(s), site |-> s]
  /\ UNCHANGED <<configVars, item, serving, books>>

\* The parameters cannot be built, after the cart was moved: it is closed.
FailHandOff(s) ==
  /\ sale.status = "pending" /\ domain[s] \in Usable /\ CartCurrency(s) = None
  /\ sale' = [sale EXCEPT !.status = "closed", !.origin = domain[s]]
  /\ UNCHANGED <<configVars, item, asked, serving, books>>

\* The processor's check, made while the site of the reference is served.
Reconciles(taken) == taken.amount = Total /\ taken.currency = CartCurrency(asked.site)

\* What a gateway may report it took: what it was asked for, or not.
Takings ==
  {[amount |-> a, currency |-> c] : a \in {asked.amount, asked.amount + 1000}, c \in Currencies}

\* Slip: the request goes on serving the site it came to.
ServesAny(s) == TRUE

\* The site the rest of the request serves: the one its reference names.
\* (site_id is optional; the one caller, settle_payment, always passes it.)
Serves(s) == s = asked.site

\* The gateway reports a success and it reconciles: the request, which may
\* have come to any site, goes on to the invoice.
Settle ==
  /\ sale.status = "processing"
  /\ \E taken \in Takings :
    /\ Reconciles(taken)
    /\ sale' = [sale EXCEPT !.status = "paid"]
    /\ row' = [amount |-> Total, currency |-> taken.currency, settled |-> TRUE]
    /\ \E s \in Sites : Serves(s) /\ serving' = s
    /\ UNCHANGED <<configVars, item, asked, refund, invoice>>

\* It does not: the payment is recorded, refused, and held for staff.
Hold ==
  /\ sale.status = "processing"
  /\ \E taken \in Takings :
    /\ ~Reconciles(taken)
    /\ sale' = [sale EXCEPT !.status = "unreconciled"]
    /\ row' = [amount |-> Total, currency |-> taken.currency, settled |-> FALSE]
    /\ UNCHANGED <<configVars, item, asked, serving, refund, invoice>>

(* ------------------------------ the invoice ----------------------------- *)

\* Slip: the currency is stored as it is configured, set or not.
CanIssueInNone(s, origin) == origin # None /\ origin = domain[s]

\* create_invoice: issued on the site the cart was paid on, or not at all.
CanIssue(s, origin) == origin # None /\ origin = domain[s] /\ CartCurrency(s) # None

InvoiceFor(s) ==
  [total |-> Total, currency |-> CartCurrency(s), organization |-> Organization(s), named |-> TRUE]

\* A cart handed off before origins were recorded takes that of the site
\* settling it; an origin already recorded, or an unusable one, is left.
OriginSettled(s) == IF sale.origin = None /\ domain[s] \in Usable THEN domain[s] ELSE sale.origin

\* The settling request records the origin, then issues the invoice.
Issue ==
  /\ serving # None /\ sale.status = "paid"
  /\ CanIssue(serving, OriginSettled(serving))
  /\ sale' = [sale EXCEPT !.origin = OriginSettled(serving)]
  /\ invoice' = InvoiceFor(serving)
  /\ serving' = None
  /\ UNCHANGED <<configVars, item, asked, row, refund>>

\* Issuing or fulfilling fails, or staff refunded the cart meanwhile: the
\* origin is kept, outside the transaction, and the cart has no invoice.
FailToIssue ==
  /\ serving # None
  /\ sale' = [sale EXCEPT !.origin = OriginSettled(serving)]
  /\ serving' = None
  /\ UNCHANGED <<configVars, item, asked, books>>

\* The process settling the payment dies.
Die ==
  /\ serving # None
  /\ serving' = None
  /\ UNCHANGED <<configVars, item, sale, asked, books>>

(* --------------------------------- staff -------------------------------- *)

\* The site the cart was paid on, by its domain now, and served meanwhile.
PayingSite == IF sale.origin = None THEN None ELSE SiteNamed(sale.origin)

\* A paid cart without an invoice, as _lock_cart finds it.
Resolvable(status) == sale.status = status /\ invoice = None /\ serving = None

\* Staff have a paid cart invoiced; a retry that fails again changes nothing.
Retry ==
  /\ Resolvable("paid") /\ PayingSite # None /\ CanIssue(PayingSite, sale.origin)
  /\ invoice' = InvoiceFor(PayingSite)
  /\ UNCHANGED <<configVars, item, sale, asked, serving, row, refund>>

\* Staff accept the cart's total as taken: the row becomes a settled one, and
\* the invoice follows, or does not.
Accept ==
  /\ Resolvable("unreconciled") /\ PayingSite # None /\ CartCurrency(PayingSite) # None
  /\ sale' = [sale EXCEPT !.status = "paid"]
  /\ row' = [amount |-> Total, currency |-> CartCurrency(PayingSite), settled |-> TRUE]
  /\ \/ CanIssue(PayingSite, sale.origin) /\ invoice' = InvoiceFor(PayingSite)
     \/ UNCHANGED invoice
  /\ UNCHANGED <<configVars, item, asked, serving, refund>>

\* Staff record the refund of a paid cart: its payment, as its row has it.
RefundPaid ==
  /\ Resolvable("paid")
  /\ sale' = [sale EXCEPT !.status = "refunded"]
  /\ refund' = [amount |-> row.amount, currency |-> row.currency]
  /\ UNCHANGED <<configVars, item, asked, serving, row, invoice>>

\* Slip: the precision of the amount typed is not checked.
CanRefundAny(s, amount) == CartCurrency(s) # None /\ amount.mil > 0

\* The amount typed for the refund of an unreconciled cart, on site s.
CanRefund(s, amount) ==
  CartCurrency(s) # None /\ amount.mil > 0 /\ FitsCurrency(amount, CartCurrency(s))

\* Staff record the refund of an unreconciled cart, in the currency of the
\* site they are on, which is not swapped for the cart's here.
RefundUnreconciled(s) ==
  \E amount \in Typed :
    /\ Resolvable("unreconciled") /\ CanRefund(s, amount)
    /\ sale' = [sale EXCEPT !.status = "refunded"]
    /\ refund' = [amount |-> amount.mil, currency |-> CartCurrency(s)]
    /\ UNCHANGED <<configVars, item, asked, serving, row, invoice>>

SaleNext ==
  \/ \E s \in Sites : \/ Configure(s) \/ Rename(s) \/ Reorganize(s) \/ SaveItem(s)
                      \/ HandOff(s) \/ FailHandOff(s) \/ RefundUnreconciled(s)
  \/ CreateCart \/ Settle \/ Hold \/ Issue \/ FailToIssue \/ Die
  \/ Retry \/ Accept \/ RefundPaid

(* ------------------------------ properties ------------------------------ *)

NullOr(S) == S \cup {None}

SaleTypeOK ==
  /\ domain \in [Sites -> Domains]
  /\ currency \in [Sites -> NullOr(Currencies)]
  /\ edition \in [Sites -> 0..Editions]
  /\ item \in [price : NullOr(Decimals), currency : NullOr(Currencies)]
  /\ sale \in [status : Statuses, price : NullOr(Nat), origin : NullOr(Domains)]
  /\ asked \in NullOr(Requests)
  /\ serving \in NullOr(Sites)
  /\ row \in NullOr(Payments)
  /\ refund \in NullOr(Refunds)
  /\ invoice \in NullOr(Invoices)

\* An invoice bills the payment behind it, settled, in its amount and its
\* currency, and that is what the learner was asked to pay, however the item
\* was priced since.
BilledAsAsked ==
  invoice # None => /\ row # None /\ row.settled
                    /\ invoice.total = row.amount /\ invoice.currency = row.currency
                    /\ invoice.total = asked.amount /\ invoice.currency = asked.currency

\* No one is asked for, nor refunded, a fraction of a currency's minor unit.
MinorUnit(c) == UnitOf(Exponent[c])
ChargedToTheUnit ==
  /\ asked # None => asked.amount % MinorUnit(asked.currency) = 0
  /\ refund # None => refund.amount % MinorUnit(refund.currency) = 0

\* The organization an invoice stores is that of the site its learner paid
\* on, whoever's request issued it, and the address printed on its receipt
\* is one of that site.
InvoiceNamesPayingSite ==
  /\ invoice # None /\ invoice.organization # None => invoice.organization.site = asked.site
  /\ asked # None /\ sale.origin # None => sale.origin \in Usable /\ OwnerOf(sale.origin) = asked.site

\* A saved item can be saved again as it reads, while its site trades in its
\* currency.
SavedIsSellable ==
  \A s \in Sites : currency[s] # None /\ item.currency = currency[s] /\ item.price # None
                     => Sellable(s, item.price, item.currency)
=========================================================================
