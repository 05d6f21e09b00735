---------------------------- MODULE InvoiceSeries ----------------------------
(***************************************************************************)
(* What whoever reads a run of invoices as a record relies on: under each  *)
(* prefix, the next invoice bears the number after the highest, so no      *)
(* number is used twice and none is skipped.  A series that has issued     *)
(* none opens after First.  InvoiceNumbers is shown to implement it.       *)
(***************************************************************************)
EXTENDS Naturals

CONSTANTS Prefixes, First

VARIABLE issued  \* the invoices, as pairs of a prefix and a number

NumbersUnder(p) == {invoice[2] : invoice \in {v \in issued : v[1] = p}}

\* h is what the next number of the series comes after.
Highest(p, h) ==
  \/ h \in NumbersUnder(p) /\ \A n \in NumbersUnder(p) : n <= h
  \/ h = First /\ NumbersUnder(p) = {}

Init == issued \subseteq Prefixes \X Nat

Issue(p) ==
  \E h \in NumbersUnder(p) \cup {First} :
    Highest(p, h) /\ issued' = issued \cup {<<p, h + 1>>}

Next == \E p \in Prefixes : Issue(p)

Spec == Init /\ [][Next]_issued
=============================================================================
