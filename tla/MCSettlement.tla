---------------------------- MODULE MCSettlement ----------------------------
(* Small instances of Settlement for TLC. *)
EXTENDS Settlement, TLC
CONSTANTS a, b, o1, o2, i1, i2, i3

\* One cart, which its gateway opened two orders for, each with a payment.
OneCartOf == (o1 :> a @@ o2 :> a)

\* Two carts of one item, with an order each; a gateway that names the same
\* payment under both orders is let to.
TwoCartsOf == (o1 :> a @@ o2 :> b)
SharedCharge == (o1 :> {i1, i2} @@ o2 :> {i2})

OwnCharge == (o1 :> {i1} @@ o2 :> {i2})
SameItem == [c \in Carts |-> "course"]
=============================================================================
