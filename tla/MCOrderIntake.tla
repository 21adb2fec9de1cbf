--------------------------- MODULE MCOrderIntake ---------------------------
(* Instances of OrderIntake: two customers, one unit left, one use of the code. *)
EXTENDS OrderIntake, TLC

CONSTANTS ann, bob, k1, k2, r1, r2, burger, soda

TwoCustomers == (k1 :> ann) @@ (k2 :> bob)
OneCustomer == k1 :> ann

=============================================================================
