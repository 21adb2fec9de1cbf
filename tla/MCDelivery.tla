----------------------------- MODULE MCDelivery -----------------------------
(***************************************************************************)
(* Small instances of Delivery: two orders, two couriers.                  *)
(***************************************************************************)
EXTENDS Delivery, TLC

CONSTANTS ali, eva, p1, p2

\* Everybody serves every order.
ServesAll == Courier \X (1 .. MaxOrder)

Symmetry == Permutations({ali, eva}) \cup Permutations({p1, p2})
=============================================================================
