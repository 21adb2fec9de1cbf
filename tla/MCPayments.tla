----------------------------- MODULE MCPayments -----------------------------
(***************************************************************************)
(* Small instances of Payments: three transactions, two participants, two  *)
(* workers.                                                                *)
(***************************************************************************)
EXTENDS Payments, TLC

CONSTANTS ann, bob, w1, w2, unknown

\* The workers are interchangeable, and so are the participants.
Symmetry == Permutations({w1, w2}) \cup Permutations({ann, bob})
=============================================================================
