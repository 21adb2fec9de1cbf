------------------------------ MODULE MCNetwork ------------------------------
(* A small instance of Network: two of everything that may cross. *)
EXTENDS Network

Places == [r \in Branch |-> "c"]
Countries == [c \in District |-> "k"]

\* A manager of two restaurants, one of a restaurant and of the country, and
\* an account without rights.
GrantedRows ==
  [a1 |-> [roles |-> {"rx"}, restaurants |-> {"r1", "r2"}, areas |-> {}, active |-> TRUE],
   a2 |-> [roles |-> {"rw"}, restaurants |-> {"r1"}, areas |-> {"k"}, active |-> TRUE],
   a3 |-> [roles |-> {}, restaurants |-> {}, areas |-> {}, active |-> FALSE]]
FirstPermissions == [rw |-> {"write"}, rx |-> {"write", "q"}]

\* One establishment, with a zone of its own beside the city's, and two
\* requests; two establishments, one of them a copy of the other.
OneOpened ==
  [restaurants |-> {"r1"}, zones |-> {"m", "z"}, municipal |-> "m",
   currency |-> [z \in {"m", "z"} |-> "XOF"], settings |-> {}, desks |-> {1, 2}]
TwoCopied ==
  [restaurants |-> {"r1", "r2"}, zones |-> {"m"}, municipal |-> "m",
   currency |-> [z \in {"m"} |-> "XOF"], settings |-> {"opening_hours", "staff"}, desks |-> {1}]

\* The rights the clerk may be given: a restaurant, or a city, with each role.
ClerkRights ==
  [role : {"Super Admin", "Opérateur", "Reader"}, restaurants : {{"r1"}}, cities : {{}},
   active : {TRUE}]
  \cup [role : {"Super Admin"}, restaurants : {{}}, cities : {{"b"}}, active : BOOLEAN]
Cities == [r1 |-> "a", r2 |-> "b"]

\* Two kitchens, and two zones of different sizes and reaches; three kitchens
\* under one zone, of which two are looked at.
TwoZones ==
  [zones |-> {"z1", "z2"}, kitchens |-> {"k1", "k2"}, cities |-> {"a", "b"},
   surface |-> [z1 |-> 1, z2 |-> 2], reach |-> [z1 |-> 1, z2 |-> 2],
   distances |-> {5, 15}, candidates |-> 2]
ThreeKitchens ==
  [zones |-> {"z1"}, kitchens |-> {"k1", "k2", "k3"}, cities |-> {"a"},
   surface |-> [z1 |-> 1], reach |-> [z1 |-> 2],
   distances |-> {5, 15}, candidates |-> 2]

\* Amounts two or three participants may state, some of them refused.
Given == {<<1, 6>>, <<7, 0>>, <<5, 10>>, <<5, 5, 5>>, <<4, 4>>}
=============================================================================
