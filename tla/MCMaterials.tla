----------------------------- MODULE MCMaterials -----------------------------
(***************************************************************************)
(* A small instance of Materials: two orders that share two ingredients,   *)
(* two receptions and a declaration.                                       *)
(***************************************************************************)
EXTENDS Materials, TLC

CONSTANTS o1, o2, onion, cheese, cook, chef, monday, friday, loss

Symmetry == Permutations({o1, o2}) \cup Permutations({cook, chef})
              \cup Permutations({onion, cheese}) \cup Permutations({monday, friday})
=============================================================================
