--------------------------- MODULE Receipts ----------------------------
(* The pages an invoice is shown on, composed with the sale it comes from:  *)
(* its owner's page, under the invoice's number, and the public one, under  *)
(* its token. Any site of the deployment may be asked for either, and what  *)
(* they show is read partly from the invoice and partly from the site.      *)
EXTENDS Billing

CONSTANT MaxHops  \* how many redirects a browser follows before it gives up

\* A host belongs to one site, and staff who correct a domain that worked
\* change how it is spelled.
ASSUME ReceiptsAssumption ==
  /\ MaxHops \in Nat
  /\ \A d \in Usable : HostOf[d] # None
  /\ \A d, e \in Domains : HostOf[d] = HostOf[e] /\ HostOf[d] # None => OwnerOf(d) = OwnerOf(e)
  /\ \A r \in Renames : r.to \in Usable /\ (r.from \in Usable => HostOf[r.from] = HostOf[r.to])

VARIABLES
  live,     \* whether the show_live_info switch is on
  retired,  \* whether the learner asked for their account to be retired
  page      \* the request a browser makes, and the answer it has

vars == <<saleVars, live, retired, page>>

\* Under an invoice's number: its owner or a superuser, or anyone else. Under
\* its token: whoever holds it.
Askers == {"owner", "stranger", "holder"}
Answers == {"none", "shown", "private", "missing", "failed"}

NoPage ==
  [asker |-> "stranger", host |-> None, hops |-> 0, answer |-> "private",
   organization |-> None, named |-> FALSE, live |-> FALSE, retired |-> FALSE]

Init == SaleInit /\ live = FALSE /\ retired = FALSE /\ page = NoPage

\* The site a request at host h is served by.
SiteAt(h) ==
  IF \E s \in Sites : HostOf[domain[s]] = h THEN CHOOSE s \in Sites : HostOf[domain[s]] = h ELSE Default

MaySee == page.asker # "stranger"

Waiting == page.answer = "none"

\* Slip: the domain is compared as it is spelled.
IsSpeltElsewhere == sale.origin # None /\ sale.origin # page.host

\* Slip: an invoice is shown wherever it is asked for.
IsNeverElsewhere == FALSE

\* Hosts are compared however their domains are spelled; an invoice without
\* an origin is shown wherever it is asked for.
IsElsewhere == sale.origin # None /\ HostOf[sale.origin] # page.host

\* A browser asks for the invoice, at any host of the deployment.
Ask ==
  \E asker \in Askers, h \in Hosts :
    /\ ~Waiting
    /\ page' = [NoPage EXCEPT !.asker = asker, !.host = h, !.answer = "none"]
    /\ UNCHANGED <<saleVars, live, retired>>

\* No invoice, or none this caller may see: answered alike under a number.
Refuse ==
  /\ Waiting /\ (invoice = None \/ ~MaySee)
  /\ page' = [page EXCEPT !.answer = IF page.asker = "holder" THEN "missing" ELSE "private"]
  /\ UNCHANGED <<saleVars, live, retired>>

\* Slip: the redirect is decided before the caller is known.
RedirectAnyone ==
  /\ Waiting /\ invoice # None /\ IsElsewhere /\ page.hops < MaxHops
  /\ page' = [page EXCEPT !.host = HostOf[sale.origin], !.hops = @ + 1]
  /\ UNCHANGED <<saleVars, live, retired>>

\* The request is sent to the site the invoice was issued on.
Redirect ==
  /\ Waiting /\ invoice # None /\ MaySee /\ IsElsewhere /\ page.hops < MaxHops
  /\ page' = [page EXCEPT !.host = HostOf[sale.origin], !.hops = @ + 1]
  /\ UNCHANGED <<saleVars, live, retired>>

\* Slip: retirement is left to what Open edX erases.
NamedAsStored == live \/ invoice.named

\* What the invoice says about the learner: as it was stored, without the
\* name once they are retired, or as it is now while the switch is on.
Named == live \/ (invoice.named /\ ~retired)

ShownOrganization == IF live THEN Organization(SiteAt(page.host)) ELSE invoice.organization

Show ==
  /\ Waiting /\ invoice # None /\ MaySee /\ ~IsElsewhere
  /\ page' = [page EXCEPT !.answer = "shown", !.organization = ShownOrganization,
                          !.named = Named, !.live = live, !.retired = retired]
  /\ UNCHANGED <<saleVars, live, retired>>

\* An info function asked while the page is built answers with what no page
\* can be made of, so there is none.
FailToShow ==
  /\ Waiting /\ invoice # None /\ MaySee /\ ~IsElsewhere
  /\ live \/ (retired /\ invoice.named)
  /\ page' = [page EXCEPT !.answer = "failed"]
  /\ UNCHANGED <<saleVars, live, retired>>

Switch == live' = ~live /\ UNCHANGED <<saleVars, retired, page>>

Retire == ~retired /\ retired' = TRUE /\ UNCHANGED <<saleVars, live, page>>

Sell == SaleNext /\ UNCHANGED <<live, retired, page>>

Next == Sell \/ Ask \/ Refuse \/ Redirect \/ Show \/ FailToShow \/ Switch \/ Retire

Spec == Init /\ [][Next]_vars

(* ------------------------------ properties ------------------------------ *)

Pages ==
  [asker : Askers, host : NullOr(Hosts), hops : 0..MaxHops, answer : Answers,
   organization : NullOr(Organizations), named : BOOLEAN, live : BOOLEAN, retired : BOOLEAN]

TypeOK ==
  /\ SaleTypeOK
  /\ live \in BOOLEAN /\ retired \in BOOLEAN
  /\ page \in Pages

\* Whichever site is asked, and whether what it shows was stored or is read
\* now, an invoice paid on a known site names that site's organization and
\* no other.
ShowsIssuer ==
  page.answer = "shown" /\ sale.origin # None /\ page.organization # None
    => page.organization.site = asked.site

\* A request is redirected once at most: the site it is sent to answers it,
\* however that site's domain is spelled.
OneRedirect == page.hops <= 1

\* A page built after the learner retired, from what the invoice stores,
\* does not carry their name.
RetiredNameHidden == page.answer = "shown" /\ page.retired /\ ~page.live => ~page.named

\* A caller who may not see the invoice is answered as if there were none,
\* at the address asked for.
StrangersAnsweredAlike ==
  page.asker = "stranger" => page.hops = 0 /\ page.answer \in {"none", "private"}
=========================================================================
