# A specification of zeitlabs-payments

`zeitlabs_payments` sells Open edX courses: a learner's cart is handed to a
payment gateway, the payment is settled when the learner's waiting page asks
about it, an invoice is issued and the learner enrolled, and staff resolve what
could not be settled. This directory holds TLA+ modules translated from that
code, small instances of them checked by TLC, and theorems about them, for
instances of any size, checked by TLAPS.

## 1. The system

| Component | State | Operations |
|---|---|---|
| Cart status machine (`models.py`) | `Cart.status`, `gateway_order_id` | `change_status`: a compare-and-set of the status the caller's instance holds; `record_gateway_order`: one conditional update |
| Checkout (`views.py`, `cart_handler.py`, `helpers.py`) | carts and their items | validate the item, cancel older carts, create a cart, put the item in it |
| Payment in flight (`inflight_payment.py`) | none | look for the order of an open payment; resume it, wait, refuse, or expire the cart and try again |
| Hand-off (`InitiatePaymentView`) | none | move the cart to processing, call the gateway, close the cart when the call raises |
| Poll (`PaymentStatusViewMixin`) | its instance of the cart | name the order, ask the gateway, end, settle or hold the cart |
| Settlement (`providers/base.py`) | `Transaction`, `Invoice` | `handle_payment`: verify, write the row, move the cart to paid; `issue_invoice_and_fulfill` |
| Staff resolution (`resolution.py`) | none | retry a fulfilment, accept a payment, record a refund |
| Invoice numbering (`InvoiceNumberSequence`) | a counter for each prefix | open it, lock it, count on |
| Fulfilment (`cart_handler.py`) | enrolments in Open edX; the audit trail | check a bundle's course modes, enrol or upgrade, record what a failure had landed |
| Return view and waiting page (`mixins.py`, `wait_feedback.html`) | the page a tab is on, its attempts | poll until an answer or `MAX_ATTEMPTS`; go to the invoice, the decline, the login or an explanation |
| Prices and totals (`validators.py`, `helpers.py`) | `CatalogueItem`, the price on the cart's line | refuse a price its currency cannot be charged in; total and currency of a cart |
| Per-site settings (`settings_service.py`, `toggles.py`) | `Site.domain`, `valid_currency`, `organization_info`, the live-info switch | read anew at each step; changed by staff at any moment |
| Receipts and invoice pages (`views.py`, `invoice_info.py`) | the info an `Invoice` stores | answer, refuse, or redirect to the issuing site; show what is stored or what is so now |
| Redaction, serializers, admin, registry, constants | none, or none that changes | pure functions, formatting, and forms over the operations above |

How they interact. The checkout makes the carts the hand-off hands off. From
then on a cart has several writers that do not know of each other: every open
waiting page polls, the hand-off may still be calling the gateway, the learner
may be back in another tab buying the same course, and staff may be resolving
it. They share the database only. `change_status` is what orders them: a move is
refused when another request made one first, and most callers then go on with
what the refusal let them read.

What makes it hard:

- The views are served outside a transaction (`non_atomic_requests`, and no
  `ATOMIC_REQUESTS`), so each statement commits alone and any other request may
  fall between two of them.
- A poll keeps an instance of the cart in memory; a rollback restores the row
  and not the instance.
- A gateway answers late, twice, differently to two polls, or under another
  cart's order.
- What Open edX announces about an enrolment is not undone by a rollback.
- A process may die anywhere: between the payment and its invoice, or between a
  cart and its item.
- A page acts on an answer the cart has moved on from, and several tabs do so at
  once.
- One deployment serves several sites. A payment may be settled, retried and
  shown by a request to another site than the one it was made on, and currency,
  domain and organization are read from the site being served.

For each component, what makes it correct is stated at the end of its module;
`PROJECT.json` lists the hazards of the code line by line with the property that
watches each.

## 2. The modules

| Module | Models | Interleaving of |
|---|---|---|
| `CartStatus` | `Cart.Status`, `STATUS_TRANSITIONS` and the sets of statuses the code names | - |
| `Purchase` | abstract: a cart is sold once, under one payment that never changes, and refunded once | - |
| `Settlement` | polls, hand-off, returning learner, staff; one action for each statement or transaction | polls with each other and with everyone else |
| `SettlementProofs` | theorems about the books of `Settlement` | |
| `PurchaseProofs` | theorems that `Settlement` implements `Purchase` and decides each success | |
| `Checkout` | requests that make carts and requests that hand them off; a payment is one step | tabs, double clicks, payments |
| `CheckoutProofs` | theorems about `Checkout` | |
| `InvoiceSeries` | abstract: each prefix is numbered without gaps from what was issued before | - |
| `InvoiceNumbers` | the counter's first use, its row lock, the cart's row lock, rollback and deadlock | issuing transactions |
| `InvoiceNumbersProofs` | theorems about `InvoiceNumbers` | |
| `Fulfilment` | enrolling in a course or a bundle, the rollback and the trail | attempts on one learner's carts, Open edX, the catalogue |
| `FulfilmentProofs` | theorems about `Fulfilment` | |
| `Delivery` | abstract: a cart is given whole, with its invoice, in one step, and no enrolment is lowered, but in a race of two sales | - |
| `DeliveryProofs` | the theorem that `Fulfilment` implements `Delivery` | |
| `WaitingPage` | the page a learner waits on, the poll as the page sees it, the pages it leads to | tabs, lost answers, sessions, the gateway, staff |
| `WaitingPageProofs` | theorems about `WaitingPage` | |
| `Billing` | one sale from the price to the invoice, over several sites | the steps of the sale, reconfiguration by staff |
| `Receipts` | the pages an invoice is shown on, composed with `Billing` | the sale, requests for the invoice, the live-info switch, retirement |
| `ReceiptsProofs` | theorems about `Receipts` and, through it, `Billing` | |
| `MC*` | values of the constants for TLC | |

`CartStatus` is extended by `Settlement`, `Checkout` and `WaitingPage`, so all
move carts by the one table. `Receipts` extends `Billing`: its next-state
relation takes a step of the sale (`Sell`) or one of the pages. `Settlement`
instantiates `Purchase`, `InvoiceNumbers` `InvoiceSeries`, and `Fulfilment`
`Delivery`, to state the refinements. `Settlement` takes the invoice and
its fulfilment as one step that succeeds or fails; `InvoiceNumbers` and
`Fulfilment` are the inside of that step.

Correspondence with the code. In `Settlement`, `poll[p].at` is the statement of
`PaymentStatusViewMixin.get` the poll is at, and `poll[p].seen` the status its
instance of the cart holds: `Moves` compares it to the stored one as
`change_status` does, and `SeenAfter` is what the instance holds afterwards.
`handing`, `lapsing` and `accepting` hold the carts of a hand-off, an expiry or
an acceptance between its check and its write. In `Checkout`, a cart has the
name of the request that makes it, `checkout[r].at` is the statement of that
request, and `called` counts calls of the gateway. In `InvoiceNumbers`, `holder`
and `locker` are the row locks and `citing` the share lock a foreign key takes.
In `Fulfilment`, `attempt[a].wrote` is what the transaction has written and not
committed, and `told` what Open edX announced. In `WaitingPage`, `page[t]` is
where tab `t` is (on the page, on its way to another, or on one it stays on),
`request[t]` the poll it has under way, which outlives the tab's interest in it,
and `Route` is the `if` chain of `checkStatus`; a poll is `Settlement`'s with its
steps merged where the page cannot tell them apart. In `Billing`, `asked` is what
`get_transaction_parameters_base` sent to the gateway under a reference naming
the site, `serving` the site whose settings the settling request reads once
`process_payment_and_update_records` has swapped them, and `CartCurrency(s)` what
`get_currency` answers while site `s` is served; an amount is in thousandths,
with the places it was written with. In `Receipts`, `page` is the one request a
browser makes, the host it is at and what it was shown. History variables (`called`,
`replaced`, `untouched`, `told`, `changed`, `missing`, `silent`, `contested`) guard no action;
`untouched[r]` are the carts that were pending or in the way of request `r` when it
began, as long as no step has changed them. The field `again` of an invoice in
`Settlement` is history too: the cart had an invoice already.

A definition whose comment begins with "Slip" is a plausible mistake, put in
place of the definition after it to see that a property notices; no
specification uses one.

### Assumptions

- The database is read committed with row locks; a unique constraint makes the
  second writer of a key wait for the first.
- One gateway, whose processor has a waiting page, so a cart with an order is
  always resumed there.
- In `Settlement` the reconciliation of amounts and currencies is a free choice
  of verdict; `Billing` compares the amounts themselves.
- Writing an audit entry does not fail, except where `FailCommit` covers it.
- A bundle has courses, and keeps them while it is being fulfilled.
- Open edX checks access and writes an enrolment in one step.
- A bundle names a course once, as `unique_together` in `models.py:835` demands.
- A gateway does not take back how a payment ended: one that was declined is not
  reported taken later, nor the reverse (`WaitingPage`).
- A domain, and the host it names, is never handed on to another site, and staff
  who correct a domain that worked only respell it (`Billing`, `Receipts`).
- A deployment trades in one currency. Staff may unset it and set it again at
  any step, and catalogue rows of other currencies may be left from before; what
  happens when it is changed between a payment and its invoice is told below.
- In `Fulfilment`, attempts run side by side as polls and staff of two sites
  do, whose invoice prefixes differ; under one prefix the counter's lock lets
  fewer interleavings happen.

## 3. What is checked

Every property is a definition of the module with a comment of its own.

| Run | Instance | Shows |
|---|---|---|
| `SettlementPolls` | 1 cart, 2 orders, 2 ids, 2 polls of which one is mortal, writes fail, fair | books (`OneSettledPayment`, `OneRefund`, `InvoiceBillsPayment`, `InvoicesByDifferentHands`), `OrderWrittenOnce`, `SuccessNeverLeftOpen`, `ImplementsPurchase`, `SuccessIsDecided` |
| `SettlementCarts` | 2 carts of an item, a payment named under both orders, 3 ids, 1 poll, writes and commits fail | books and refinement across carts |
| `CheckoutTabs` | 3 requests, one mortal, 2 modes of a course, 2 clicks | `HandedOffOnce`, `NothingInTheWay` |
| `CheckoutAnswers` | 3 requests, 1 click, fair | `CheckoutAnswered`, `RoundsRunOut` |
| `InvoiceNumbersSeries` | 4 issues, 2 prefixes crossed with 2 carts, fair | `NoCollision`, `NeverStuck`, `ImplementsSeries`, `IssueEnds` |
| `FulfilmentAttempts` | a bundle of 2 courses, one of them also on its own in another mode, 2 attempts, one mortal, commits fail | `SoldIsEnrolled`, `ToldIsOnRecord`, `HeldNeedsNoAction`, `BrokenBundleUntouched`, `ImplementsDelivery` |
| `WaitingPageTabs` | 2 tabs, 2 attempts, fair | `ToldAsItIs`, `RetryIsOpen`, `PageEnds`, `WaitRunsDown` |
| `ReceiptsPages` | 2 sites, one with 3 spellings of its domain, 3 seeded catalogue rows, 3 prices, 1 edit of each organization | `BilledAsAsked`, `ChargedToTheUnit`, `InvoiceNamesPayingSite`, `ShowsIssuer`, `OneRedirect`, `RetiredNameHidden`, `StrangersAnsweredAlike` |

Why the bounds are enough. Every race in the poll is between two requests on one
cart, or between two carts that share a payment, an item or an order: hence two
polls on one cart with two orders, and two carts with a shared payment. Two ids
are a payment and a refund, or two payments; the three of `SettlementCarts`
leave one for a refund after two payments. In the checkout, two requests
race and a third finds what they left, in the other mode. Four issues are the
least that can wait in one circle over two carts and two counters. A bundle of
two courses has a first and a last, and the same course in another cart gives
two attempts something to fight over, and, in another mode, something to take
from each other. Two tabs are one that is told something
and one that makes it false; two attempts are one that is not the last. Two
sites are the one paid on and another; a site has a domain no origin can be made
of, the corrected one, and the same in capitals; the prices are a whole amount,
one at the precision of SAR and one beyond it; a browser follows two redirects,
one more than is needed.

Two bounds are made in the models rather than in the configurations: each
request of `Checkout` makes at most one cart, and each transaction of
`InvoiceNumbers` issues at most one invoice (it may begin again after a
rollback). `CHECK_DEADLOCK FALSE` in the runs of `Checkout` and
`InvoiceNumbers` is for that: their requests end. (Waiting on locks is checked
by `NeverStuck` and `IssueEnds`.) Symmetry is used only over clicks, which are alike, and in no
run with a liveness property.

### Fairness

`Settlement!FairSpec` is weak fairness of the steps of each poll: a request the
server took is served to its end. Nothing makes a learner poll, and a poll in
`Mortal` may die, so `SuccessIsDecided` is about polls that live.
`Checkout!FairSpec` is the same for the requests that make carts.
`InvoiceNumbers!FairSpec` is strong fairness of each transaction: a lock that
comes free again and again is got in the end, as the database's queue of
waiters grants; breaking a deadlock is a step of the database.
`WaitingPage!FairSpec` is weak fairness of each tab's own steps, since a browser
runs its timers and follows its redirects, and of each poll: a request is served
or dies. Logging in, losing an answer and everyone else's steps have none.

### Where the code and its own words differ

Each has a run that TLC ends with a counterexample; `PROJECT.json` quotes the
line.

| Run | The words | What happens |
|---|---|---|
| `SettlementTwoInvoices` | of two members of staff retrying a cart, the second is refused instead of issuing a second invoice | a poll and a member of staff may each issue one: the words are about two of staff and hold there, and the settling poll does not take the lock they take |
| `CheckoutTwoPayments` | never a second payment for a course | two carts made side by side are both handed off |
| `CheckoutLatePayment` | a course bought again | settlement compares items, checkout courses |
| `ReceiptsStoredPrice` | a price with the decimals its currency permits is accepted | 9.99 is read back from its column as 9.990, and refused when the item is saved again |

The missing lock of `SettlementTwoInvoices` also lets a refund fall between the
settling poll's read and its invoice, which leaves a refunded cart with one.

Two carts that have a course in two modes, a bundle and the course on its own
(`cart_handler.py:250`), may be fulfilled side by side. `enrol_or_upgrade` decides on an
upgrade by the mode it read: the cart that read a free one upgrades it even if the
other has sold a paid one meanwhile, and replaces it, where the docstring (`:80`)
has Open edX refuse a learner enrolled in any other mode. The run
`FulfilmentAttempts` reaches this, and its properties say how far it goes: only in a
course sold while a rival attempt was under way (`contested`), and then the learner
has the mode of one of the carts they were billed for. The learner was billed for
both modes and holds one.

Seven milder ones are behaviours of the models too, and no run or property is
about them:

- a payment row is rolled back with a refused move to paid (`LosePayment`),
  though `base.py` says a record never is; the poll still holds the cart;
- a commit that fails after the instance was moved to paid (`FailCommit` of
  `Settlement`): `hold_unreconciled` looks at the instance and leaves the cart
  awaiting payment, not held; the next poll may settle it;
- a cart expires with an order when a poll records it between the lookup and the
  expiry (`NameOrder` between `FindLapsed` and `Expire`);
- two late payments of one item both settle when both polls pass `Verify` before
  either takes `SettlePayment`;
- two requests side by side leave two pending carts (`ListPending`,
  `CreateCart`);
- a paid mode that staff give the learner between `ReadEnrolment` and `Enrol` is
  replaced by the upgrade (`EnrolOutside`);
- a commit that fails after a bundle was enrolled leaves no entry of the courses
  announced (`FailCommit`), which is why `ToldIsOnRecord` leaves such carts
  (`silent`) out.

## 4. What is proved

All theorems are for any finite or infinite sets of carts, orders, ids, polls,
requests, issuers, attempts, tabs, sites or domains, under the assumptions named
in the modules (`SettlementAssumption`, `CheckoutAssumption`,
`NumbersAssumption`, `LegacyAssumption`, `FulfilmentAssumption`, `PageAssumption`,
`BillingAssumption`, `ReceiptsAssumption`). Each module states its type
invariant as a theorem too.

- `SettlementProofs`: `SettledOnce`, `RefundedOnce`, `InvoicesBillPayments`,
  `OrdersKept`, `InvoicedOncePerHand`. The invariant is `BooksInv`. The books
  are not inductive alone: that a poll's invoice bills the settled payment
  depends on what the poll settled two steps before (`PollsBacked`), and that a
  second acceptance or a refund does not find a cart half accepted depends on
  the lock (`LocksHold`). Most steps write neither a row nor an invoice and move
  only unsold carts; `QuietStep` deals with all of them at once, and each step
  that does write has a lemma of its own. That polls and staff issue a cart one
  invoice each at most (`InvoicesInv`) rests on who may invoice: of the polls only
  the one that settled the cart, which settles once (`OneBiller`), and of staff
  whoever holds the lock, which looks for an invoice.
- `PurchaseProofs`: the refinement `SettlementIsPurchase`, and `SuccessesDecided`.
  `BooksInv` is enough for the first: a move among open statuses is a stutter, a
  settlement and an acceptance are the abstract `Sell` since the cart had no
  settled payment and the id no other use, and the rest follows from the table of
  moves. The second needs `PollsKeepUp` as well: after a poll has heard from the
  gateway, its cart is as the poll saw it or decided (`Decides`: no step reopens a
  cart, and only pending and processing ones move without a decision). It is the
  safety half of `SuccessIsDecided`: `StepsLeft` falls with each step of the poll,
  and the last leaves the cart decided. It has the hypothesis that commits do not
  fail, without which it is false (section 3).
- `CheckoutProofs`: `CartsHandedOffOnce`, `NothingPassed` and `RoundsBounded`. The invariant of the
  first is `HandOffInv`: a cart is created once, one a gateway was called for has left
  pending for good, and a replaced one is cancelled for good. Nearly every step
  moves carts only `Onward`, and that is enough. Those of the second are
  `ClearInv`: a request past its two queries finds no unchanged cart in its way,
  since every step that changes a cart takes it out of `untouched`; and `ListedInv`:
  between listing the pending carts and making its own, a request still has each
  unchanged one on its list. The last is the safety half of
  `CheckoutAnswered`: a round ends only in an expiry, which takes a cart out of
  `InPlay`, and no step of anyone puts one back.
- `InvoiceNumbersProofs`: `NumbersNeverCollide`, `IssuesNeverStuck` and the
  refinement `NumbersAreGapless`. The invariant of the first is `NumbersInv`:
  whoever has reserved a number holds the counter's row, every counter is at or
  above the highest number issued, and a scan made before the counter was opened
  is still good when it is. For the refinement, `SeriesInv` makes *at or above*
  exact: a counter is the top of its series (`TopOf`), or one above it while the
  transaction holding its row has a number it has not committed. A commit is
  then the abstract `Issue`, and every other step a stutter. For `IssuesNeverStuck`,
  the safety half of `IssueEnds`, `LocksInv` says that a lock is held only by an
  issue under way and at a step that holds it, and that every series has a highest
  number; an issue that waits then waits for one under way, and when all wait, those
  under way, finitely many at any moment, have a circle among them. It needs
  `LegacyAssumption`: the numbers issued before there were counters are rows of a
  table, so each prefix has a highest.
- `FulfilmentProofs`: `AnnouncedIsRecorded`, `BrokenBundlesUntouched`, `SoldHeld`
  and `HeldLeftAlone`. `ProgressInv` follows an
  attempt through the courses of its cart (`AtWork`): those it has passed are
  written or found held, and once it enrols in any, none of them has been off
  sale since it began; what Open edX announced is in the trail, or with an
  attempt that will put it there (`ToldIsKept`). Carts may buy a course in
  different modes, and then one cart's upgrade may replace the mode another sold
  (section 3). `contested` says where: in a course sold while an attempt
  that wanted another mode was under way. `SoldInv` gives a sold or held course the
  exact mode bought wherever it is neither contested nor changed outside, and the
  mode of some invoiced cart where it is contested. An attempt writes an enrolment
  long after it read it, so it takes `Raises` as well: outside those courses, what
  an attempt has written or is about to upgrade is in a mode that can be upgraded
  or in the one bought, whatever other attempts committed meanwhile.
- `DeliveryProofs`: the refinement `FulfilmentIsDelivery`, from `SoldInv`. A
  commit is the abstract `Deliver`, a change from outside is `Change`, and
  every other step, failures and deaths included, a stutter. That delivery is
  atomic has no exception; that it lowers no enrolment has the one of `contested`.
- `WaitingPageProofs`: `PagesTellAsItIs`, `RetriesAreOpen`, `WaitsRunDown`. The invariant is
  `PageInv`: what a poll read of the cart may be old, but the cart
  has gone on from it, and a poll past the gateway's answer was told of a success
  (`PollsInformed`); a cart is sold or held only when the money was taken
  (`SoldWasTaken`); a tab sent to the decline has a cart that is out of the way
  (`DeclinedIsOver`). `WaitsRunDown` is the safety half of `PageEnds`: a tab has a
  poll exactly while it waits for its answer (`OnePoll`), and whatever a step does to
  a tab is one of a few things (`LoadStep`), each of which leaves it nearer to a page
  it stays on.
- `ReceiptsProofs`: `InvoicesBillWhatWasAsked`, `InvoicesNamePayingSite`,
  `OriginsKept`, `AmountsPayable`, `PagesShowIssuer`, `RedirectedOnce`, `RetiredNamesHidden`,
  `StrangersToldNothing`. `SaleInv` says of each status of
  the cart what was asked, which rows there are and that they are of the cart's
  price, and that a site's domain stays that site's; `OriginServed` that the host
  of a recorded origin still leads to the site it was recorded for, across the
  corrections of a domain. `PageInv` adds what a redirect
  and a page shown rely on. That an invoice is in the currency asked for needs
  one currency of trade, as its hypothesis says: the currency is read again when
  the invoice is made. `AmountsPayable` needs that too, and that the rows the
  catalogue was seeded with are whole in it (`SeedsWhole`), since a hand-off does
  not look at the precision of a price again; the invariant follows the amount from
  the item to the cart, and from the refund typed to the one recorded (`WholeInv`).

The hypotheses (no failing commit, one currency of trade with whole seeds) hold in
the instances TLC checks, or, for `SuccessesDecided`, in the one of its run.

Model-checked only: the liveness properties `SuccessIsDecided`, `CheckoutAnswered`,
`IssueEnds` and `PageEnds`. They are about fairness, hence `ENABLED`, which the
prover cannot reach. What is proved of each is its safety half, a measure that
falls and a state that is never stuck: `SuccessesDecided`, `RoundsBounded`,
`IssuesNeverStuck` and `WaitsRunDown`. What is left to TLC is that a fair step is
enabled whenever the measure is not at its end.

## 5. What is not modelled

Redaction of card numbers: a rewriting of strings nothing else depends on.
Registry and constants: filled at start-up and read only. Admin, serializers,
templates, tags: display, or forms over operations that are modelled. Coupons,
credit memos, tax rules and webhook events: tables nothing writes. Of the
validators, the range of the money columns and the alphabet of prefixes: they
refuse and change nothing. Of a gateway's own processor, everything but the
answers it may give: there is none in this repository.

Known limits, seen while modelling and outside the assumptions above:

- a cart's line keeps its price and not its currency, so in a deployment that
  changes its currency after the cart was made the old amount is asked for in
  the new one; between a payment and its invoice, the invoice bills the new one;
- `create_invoice` compares domains as they are spelled and the invoice pages do
  not: a domain respelled while a cart is paid and not invoiced leaves the
  cart without one until the domain is spelled as before, though no invoice is
  wrong;
- the refund of an unreconciled cart is recorded in the currency of the site the
  member of staff is on (`RefundUnreconciled`), whichever was paid on;
- corrections that change the host of a domain that worked, and the live info
  of a site reached only by the default-site fallback.

## 6. Plan

The plan of the first modules is done. What could follow:

1. A composition of `Settlement` and `Fulfilment`, so that the invoice and the
   enrolments of one cart are followed from the payment on; its state is the
   product of two that fill a run each, so it needs a coarser `Settlement` first.
2. The rest of the way from the measures proved to the liveness properties, once the
   prover can reason about `ENABLED`.
3. A second gateway with no waiting page, whose carts are never resumed.

Tools: `tlc -workers 2 -config X.cfg MCModule` for a run, `tlapm XProofs.tla` for
a module of proofs.
