---------------------------- MODULE MCFulfilment ----------------------------
(* Small instances of Fulfilment for TLC. *)
EXTENDS Fulfilment, TLC
CONSTANTS single, bundle, x, y, audit, verified, professional

\* A bundle of two courses, and one of them bought on its own.
SharedCourse == (single :> <<y>> @@ bundle :> <<x, y>>)

\* The bundle has both in one mode, and the course on its own is in another.
TwoModes == [c \in Carts |-> [k \in Courses |-> IF c = bundle THEN verified ELSE professional]]
=============================================================================
