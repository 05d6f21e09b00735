-------------------------- MODULE MCInvoiceNumbers --------------------------
(* A small instance of InvoiceNumbers for TLC. *)
EXTENDS InvoiceNumbers, TLC
CONSTANTS i, j, k, l, a, b, dev, eu

\* Two carts, each with a poll (i, k) and a staff retry (j, l) at once.
IssuersCarts == (i :> a @@ j :> a @@ k :> b @@ l :> b)

\* The prefix changed between requests: all four can wait in one circle.
TwoSeries == (i :> dev @@ j :> eu @@ k :> eu @@ l :> dev)

\* A series that had issued two numbers, with a gap, and one that had not.
Before == {<<dev, 1>>, <<dev, 4>>}
=============================================================================
