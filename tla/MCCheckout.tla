----------------------------- MODULE MCCheckout -----------------------------
(* Small instances of Checkout for TLC. *)
EXTENDS Checkout, TLC
CONSTANTS a, b, d, verified, professional

\* Two requests for one mode of a course, and one for another mode of it.
ModeOf == a :> verified @@ b :> verified @@ d :> professional
TwoModes == [c \in Carts |-> ModeOf[c]]

OneCourse == (verified :> "course" @@ professional :> "course")

Alike == Permutations(Clicks)
=============================================================================
