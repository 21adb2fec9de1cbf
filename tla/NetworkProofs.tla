---------------------------- MODULE NetworkProofs ----------------------------
(***************************************************************************)
(* Theorems about Network, for every value of its constants that its       *)
(* assumptions admit.  A section per component gives its inductive         *)
(* invariant, or the lemmas its answers rest on; the last one composes     *)
(* them: a step of Network is a step of one component and leaves the       *)
(* variables of the others alone.                                          *)
(***************************************************************************)
EXTENDS Network, FiniteSetTheorems, SumTheorems, TLAPS

-----------------------------------------------------------------------------
(* Rights of the staff *)

\* The rights fit in what the head office gave to the account v.
Fits(codes, restaurants, areas, v) ==
  /\ codes \subseteq Staff!GivenPermissions(v)
  /\ restaurants \subseteq Staff!GivenPlaces(v)
  /\ \A a \in areas : Staff!GivenCovers(v, a)

FitsIn(u, v) == Fits(Staff!permission_codes(u), staff[u].restaurants, staff[u].areas, v)

\* Each account fits in one of the first ones, unless a request was late.
StaffInv ==
  /\ staff \in [Member -> Staff!StaffRow]
  /\ permissions \in [Role -> SUBSET Permission]
  /\ checked \subseteq Staff!Request
  /\ late \in BOOLEAN
  /\ ~ late => \A u \in Member : \E v \in Member : FitsIn(u, v)

LEMMA StaffInit == Staff!Init => StaffInv
  <1> SUFFICES ASSUME Staff!Init PROVE StaffInv
    OBVIOUS
  <1>1. ASSUME NEW u \in Member PROVE FitsIn(u, u)
    BY <1>1, StaffAssumption DEF Staff!Init, FitsIn, Fits, Staff!permission_codes, Staff!GivenPermissions,
      Staff!GivenPlaces, Staff!GivenCovers, Staff!StaffRow
  <1>2. late \in BOOLEAN /\ checked \subseteq Staff!Request
    BY DEF Staff!Init
  <1>3. QED
    BY <1>1, <1>2, StaffAssumption DEF Staff!Init, StaffInv

-----------------------------------------------------------------------------
\* Who is attached to areas that fit has the restaurants of those areas.
LEMMA PlacesOfFittingAreas ==
  ASSUME NEW u \in Member, NEW v \in Member, FitsIn(u, v)
  PROVE  Staff!staff_restaurant_ids(u) \subseteq Staff!GivenPlaces(v)
  BY DEF FitsIn, Fits, Staff!staff_restaurant_ids, Staff!_restaurants_des_perimetres, Staff!GivenPlaces

\* What an account covers fits where the account fits.
LEMMA CoveredFits ==
  ASSUME NEW u \in Member, NEW v \in Member, FitsIn(u, v), NEW a, Staff!Covered(a, u)
  PROVE  Staff!GivenCovers(v, a)
  BY StaffAssumption DEF FitsIn, Fits, Staff!Covered, Staff!GivenCovers

\* Who may be managed by an account fits where the account fits.
LEMMA ManagedFits ==
  ASSUME NEW actor \in Member, NEW u \in Member, NEW v \in Member,
         FitsIn(actor, v), Staff!assert_can_manage(actor, u)
  PROVE  FitsIn(u, v)
  <1>1. Staff!permission_codes(u) \subseteq Staff!GivenPermissions(v)
    BY DEF Staff!assert_can_manage, FitsIn, Fits
  <1>2. staff[u].restaurants \subseteq Staff!GivenPlaces(v)
    BY PlacesOfFittingAreas DEF Staff!assert_can_manage, Staff!staff_restaurant_ids
  <1>3. \A a \in staff[u].areas : Staff!GivenCovers(v, a)
    BY CoveredFits DEF Staff!assert_can_manage
  <1>4. QED
    BY <1>1, <1>2, <1>3 DEF FitsIn, Fits

\* What is given fits where the giver fits.
LEMMA GivenFits ==
  ASSUME NEW actor \in Member, NEW v \in Member, FitsIn(actor, v)
  PROVE  /\ \A roles \in SUBSET Role : Staff!_assert_not_escalating(actor, roles) =>
              UNION {permissions[r] : r \in roles} \subseteq Staff!GivenPermissions(v)
         /\ \A restaurants \in SUBSET Branch : Staff!_assert_within_scope(actor, restaurants) =>
              restaurants \subseteq Staff!GivenPlaces(v)
         /\ \A areas \in SUBSET Staff!Area : Staff!_assert_areas_within_scope(actor, areas) =>
              \A a \in areas : Staff!GivenCovers(v, a)
  <1>1. \A roles \in SUBSET Role : Staff!_assert_not_escalating(actor, roles) =>
          UNION {permissions[r] : r \in roles} \subseteq Staff!GivenPermissions(v)
    BY DEF FitsIn, Fits, Staff!_assert_not_escalating
  <1>2. \A restaurants \in SUBSET Branch : Staff!_assert_within_scope(actor, restaurants) =>
          restaurants \subseteq Staff!GivenPlaces(v)
    BY PlacesOfFittingAreas DEF Staff!_assert_within_scope
  <1>3. \A areas \in SUBSET Staff!Area : Staff!_assert_areas_within_scope(actor, areas) => \A a \in areas : Staff!GivenCovers(v, a)
    BY CoveredFits DEF Staff!_assert_areas_within_scope
  <1>4. QED
    BY <1>1, <1>2, <1>3

-----------------------------------------------------------------------------
\* One field of an account is written: the others fit as before, the account
\* fits where the author of the request fits.
LEMMA FieldWritten ==
  ASSUME StaffInv, NEW q \in Staff!Request, q.kind # "codes", Staff!passes(q), Staff!writes(q), ~ late
  PROVE  \A u \in Member : \E v \in Member : FitsIn(u, v)'
  <1>1. q.by \in Member /\ q.of \in Member
    BY DEF Staff!Request
  <1>2. staff' = [staff EXCEPT ![q.of][q.kind] = q.value] /\ permissions' = permissions
    BY DEF Staff!writes
  <1>3. Staff!perform_update(q)
    BY DEF Staff!passes
  <1>4. PICK v \in Member : FitsIn(q.by, v)
    BY <1>1 DEF StaffInv
  <1>5. FitsIn(q.of, v)
    BY <1>1, <1>3, <1>4, ManagedFits DEF Staff!perform_update
  <1>6. ASSUME NEW u \in Member, u # q.of PROVE \E w \in Member : FitsIn(u, w)'
    <2>1. staff'[u] = staff[u]
      BY <1>1, <1>2, <1>6 DEF StaffInv
    <2>2. PICK w \in Member : FitsIn(u, w)
      BY DEF StaffInv
    <2>3. QED
      BY <1>2, <2>1, <2>2 DEF FitsIn, Staff!permission_codes
  <1>7. \E w \in Member : FitsIn(q.of, w)'
    <2> DEFINE new == staff'[q.of]
    <2>0. staff[q.of] \in Staff!StaffRow
      BY <1>1 DEF StaffInv
    <2>1. CASE q.kind = "roles"
      <3>1. q.value \in SUBSET Role
        BY <2>1 DEF Staff!Request
      <3>2. new.roles = q.value /\ new.restaurants = staff[q.of].restaurants /\ new.areas = staff[q.of].areas
        BY <1>1, <1>2, <2>0, <2>1 DEF StaffInv, Staff!StaffRow
      <3>3. UNION {permissions[r] : r \in q.value} \subseteq Staff!GivenPermissions(v)
        BY <1>1, <1>3, <1>4, <2>1, <3>1, GivenFits DEF Staff!perform_update, Staff!_assert_grantable
      <3>4. FitsIn(q.of, v)'
        BY <1>2, <1>5, <3>2, <3>3 DEF FitsIn, Fits, Staff!permission_codes
      <3>5. QED
        BY <3>4
    <2>2. CASE q.kind = "restaurants"
      <3>1. q.value \in SUBSET Branch
        BY <2>2 DEF Staff!Request
      <3>2. new.roles = staff[q.of].roles /\ new.restaurants = q.value /\ new.areas = staff[q.of].areas
        BY <1>1, <1>2, <2>0, <2>2 DEF StaffInv, Staff!StaffRow
      <3>3. q.value \subseteq Staff!GivenPlaces(v)
        BY <1>1, <1>3, <1>4, <2>2, <3>1, GivenFits DEF Staff!perform_update, Staff!_assert_grantable
      <3>4. FitsIn(q.of, v)'
        BY <1>2, <1>5, <3>2, <3>3 DEF FitsIn, Fits, Staff!permission_codes
      <3>5. QED
        BY <3>4
    <2>3. CASE q.kind = "areas"
      <3>1. q.value \in SUBSET Staff!Area
        BY <2>3 DEF Staff!Request
      <3>2. new.roles = staff[q.of].roles /\ new.restaurants = staff[q.of].restaurants /\ new.areas = q.value
        BY <1>1, <1>2, <2>0, <2>3 DEF StaffInv, Staff!StaffRow
      <3>3. \A a \in q.value : Staff!GivenCovers(v, a)
        BY <1>1, <1>3, <1>4, <2>3, <3>1, GivenFits DEF Staff!perform_update, Staff!_assert_grantable
      <3>4. FitsIn(q.of, v)'
        BY <1>2, <1>5, <3>2, <3>3 DEF FitsIn, Fits, Staff!permission_codes
      <3>5. QED
        BY <3>4
    <2>4. CASE q.kind = "active"
      <3>1. /\ new.roles = staff[q.of].roles /\ new.restaurants = staff[q.of].restaurants
            /\ new.areas = staff[q.of].areas
        BY <1>1, <1>2, <2>0, <2>4 DEF StaffInv, Staff!StaffRow
      <3>2. FitsIn(q.of, v)'
        BY <1>2, <1>5, <3>1 DEF FitsIn, Fits, Staff!permission_codes
      <3>3. QED
        BY <3>2
    <2>5. QED
      BY <2>1, <2>2, <2>3, <2>4 DEF Staff!Request
  <1>8. QED
    BY <1>6, <1>7

\* The codes of a role are written: whoever carries it fits where the author
\* of the request fits, and the others as before.
LEMMA CodesWritten ==
  ASSUME StaffInv, NEW q \in Staff!Request, q.kind = "codes", Staff!passes(q), Staff!writes(q), ~ late
  PROVE  \A u \in Member : \E v \in Member : FitsIn(u, v)'
  <1>1. q.by \in Member /\ q.of \in Role /\ q.value \in SUBSET Permission
    BY DEF Staff!Request
  <1>2. permissions' = [permissions EXCEPT ![q.of] = q.value] /\ staff' = staff
    BY DEF Staff!writes
  <1>3. Staff!perform_update_role(q)
    BY DEF Staff!passes
  <1>4. PICK v \in Member : FitsIn(q.by, v)
    BY <1>1 DEF StaffInv
  <1>5. \A r \in Role : permissions'[r] = IF r = q.of THEN q.value ELSE permissions[r]
    BY <1>1, <1>2 DEF StaffInv
  <1>6. q.value \subseteq Staff!GivenPermissions(v)
    BY <1>3, <1>4 DEF Staff!perform_update_role, Staff!_assert_dans_ses_droits, FitsIn, Fits
  <1>7. ASSUME NEW u \in Member PROVE \E w \in Member : FitsIn(u, w)'
    <2>0. staff[u].roles \subseteq Role
      BY DEF StaffInv, Staff!StaffRow
    <2>1. CASE q.of \in staff[u].roles
      <3>1. FitsIn(u, v)
        BY <1>1, <1>3, <1>4, <2>1, ManagedFits DEF Staff!perform_update_role, Staff!on_role_changing
      <3>2. \A r \in staff[u].roles : permissions'[r] \subseteq Staff!GivenPermissions(v)
        BY <1>5, <1>6, <2>0, <3>1 DEF FitsIn, Fits, Staff!permission_codes
      <3>3. FitsIn(u, v)'
        BY <1>2, <3>1, <3>2 DEF FitsIn, Fits, Staff!permission_codes
      <3>4. QED
        BY <3>3
    <2>2. CASE q.of \notin staff[u].roles
      <3>1. PICK w \in Member : FitsIn(u, w)
        BY DEF StaffInv
      <3>2. \A r \in staff[u].roles : permissions'[r] = permissions[r]
        BY <1>5, <2>0, <2>2
      <3>3. FitsIn(u, w)'
        BY <1>2, <3>1, <3>2 DEF FitsIn, Fits, Staff!permission_codes
      <3>4. QED
        BY <3>3
    <2>3. QED
      BY <2>1, <2>2
  <1>8. QED
    BY <1>7

\* What a request writes is of the type of its field.
LEMMA WrittenTypes ==
  ASSUME StaffInv, NEW q \in Staff!Request, Staff!writes(q)
  PROVE  staff' \in [Member -> Staff!StaffRow] /\ permissions' \in [Role -> SUBSET Permission]
  <1>1. CASE q.kind = "codes"
    <2>1. q.of \in Role /\ q.value \in SUBSET Permission
      BY <1>1 DEF Staff!Request
    <2>2. QED
      BY <1>1, <2>1 DEF Staff!writes, StaffInv
  <1>2. CASE q.kind # "codes"
    <2>1. q.of \in Member /\ staff[q.of] \in Staff!StaffRow
      BY <1>2 DEF Staff!Request, StaffInv
    <2>2. [staff[q.of] EXCEPT ![q.kind] = q.value] \in Staff!StaffRow
      <3>1. CASE q.kind = "roles"
        BY <2>1, <3>1 DEF Staff!Request, Staff!StaffRow
      <3>2. CASE q.kind = "restaurants"
        BY <2>1, <3>2 DEF Staff!Request, Staff!StaffRow
      <3>3. CASE q.kind = "areas"
        BY <2>1, <3>3 DEF Staff!Request, Staff!StaffRow
      <3>4. CASE q.kind = "active"
        BY <2>1, <3>4 DEF Staff!Request, Staff!StaffRow
      <3>5. QED
        BY <1>2, <3>1, <3>2, <3>3, <3>4 DEF Staff!Request
    <2>3. QED
      BY <1>2, <2>1, <2>2 DEF Staff!writes, StaffInv
  <1>3. QED
    BY <1>1, <1>2

LEMMA StaffStep == StaffInv /\ [Staff!Next]_(Staff!vars) => StaffInv'
  <1> SUFFICES ASSUME StaffInv, [Staff!Next]_(Staff!vars) PROVE StaffInv'
    OBVIOUS
  <1>1. CASE UNCHANGED Staff!vars
    BY <1>1 DEF Staff!vars, StaffInv, FitsIn, Staff!permission_codes
  <1>2. ASSUME NEW q \in Staff!Request, Staff!check(q) PROVE StaffInv'
    BY <1>2 DEF Staff!check, StaffInv, FitsIn, Staff!permission_codes
  <1>3. ASSUME NEW q \in Staff!Request, Staff!serve(q) PROVE StaffInv'
    <2>1. staff' \in [Member -> Staff!StaffRow] /\ permissions' \in [Role -> SUBSET Permission]
      BY <1>3, WrittenTypes DEF Staff!serve
    <2>2. ~ late => \A u \in Member : \E v \in Member : FitsIn(u, v)'
      BY <1>3, FieldWritten, CodesWritten DEF Staff!serve
    <2>3. checked' = checked /\ late' = late
      BY <1>3 DEF Staff!serve
    <2>4. QED
      BY <2>1, <2>2, <2>3 DEF StaffInv
  <1>4. ASSUME NEW q \in checked, Staff!write(q) PROVE StaffInv'
    <2>0. q \in Staff!Request
      BY DEF StaffInv
    <2>1. staff' \in [Member -> Staff!StaffRow] /\ permissions' \in [Role -> SUBSET Permission]
      BY <1>4, <2>0, WrittenTypes DEF Staff!write
    <2>2. late' = (late \/ ~ Staff!passes(q)) /\ late' \in BOOLEAN /\ checked' = {}
      BY <1>4 DEF Staff!write
    <2>3. ~ late' => ~ late /\ Staff!passes(q)
      BY <2>2
    <2>4. ~ late' => \A u \in Member : \E v \in Member : FitsIn(u, v)'
      BY <1>4, <2>0, <2>3, FieldWritten, CodesWritten DEF Staff!write
    <2>5. QED
      BY <2>1, <2>2, <2>4 DEF StaffInv
  <1>5. ASSUME NEW actor \in Member, NEW u \in Member, NEW roles \in SUBSET Role,
               NEW restaurants \in SUBSET Branch,
               Staff!create(actor, u, [roles |-> roles, restaurants |-> restaurants, areas |-> {}, active |-> TRUE])
        PROVE  StaffInv'
    <2> DEFINE new == [roles |-> roles, restaurants |-> restaurants, areas |-> {}, active |-> TRUE]
    <2>1. /\ staff' = [staff EXCEPT ![u] = new]
          /\ permissions' = permissions /\ checked' = checked /\ late' = late
      BY <1>5 DEF Staff!create
    <2>2. new.roles = roles /\ new.restaurants = restaurants /\ new.areas = {}
      OBVIOUS
    <2>3. new \in Staff!StaffRow
      BY DEF Staff!StaffRow
    <2>4. Staff!_assert_not_escalating(actor, roles) /\ Staff!_assert_within_scope(actor, restaurants)
      BY <1>5 DEF Staff!create
    <2> HIDE DEF new
    <2>5. staff' \in [Member -> Staff!StaffRow] /\ staff'[u] = new /\ \A w \in Member \ {u} : staff'[w] = staff[w]
      BY <2>1, <2>3 DEF StaffInv
    <2>6. ASSUME ~ late, NEW w \in Member PROVE \E v \in Member : FitsIn(w, v)'
      <3>1. CASE w = u
        <4>1. PICK v \in Member : FitsIn(actor, v)
          BY <2>6 DEF StaffInv
        <4>2. UNION {permissions[r] : r \in roles} \subseteq Staff!GivenPermissions(v) /\ restaurants \subseteq Staff!GivenPlaces(v)
          BY <2>4, <4>1, GivenFits
        <4>3. FitsIn(w, v)'
          BY <2>1, <2>2, <2>5, <3>1, <4>2 DEF FitsIn, Fits, Staff!permission_codes
        <4>4. QED
          BY <4>3
      <3>2. CASE w # u
        <4>1. PICK v \in Member : FitsIn(w, v)
          BY <2>6 DEF StaffInv
        <4>2. FitsIn(w, v)'
          BY <2>1, <2>5, <3>2, <4>1 DEF FitsIn, Staff!permission_codes
        <4>3. QED
          BY <4>2
      <3>3. QED
        BY <3>1, <3>2
    <2>7. QED
      BY <2>1, <2>5, <2>6 DEF StaffInv
  <1>6. QED
    BY <1>1, <1>2, <1>3, <1>4, <1>5 DEF Staff!Next

LEMMA StaffInvImplies == StaffInv => Staff!NobodyExceedsTheGrants /\ Staff!AlertedStaffCanOpenIt
  <1> SUFFICES ASSUME StaffInv PROVE Staff!NobodyExceedsTheGrants /\ Staff!AlertedStaffCanOpenIt
    OBVIOUS
  <1>1. Staff!NobodyExceedsTheGrants
    <2> SUFFICES ASSUME ~ late, NEW u \in Member
                 PROVE  \E v \in Member : /\ Staff!permission_codes(u) \subseteq Staff!GivenPermissions(v)
                                           /\ Staff!staff_restaurant_ids(u) \subseteq Staff!GivenPlaces(v)
                                           /\ \A a \in staff[u].areas : Staff!GivenCovers(v, a)
      BY DEF Staff!NobodyExceedsTheGrants
    <2>1. PICK v \in Member : FitsIn(u, v)
      BY DEF StaffInv
    <2>2. Staff!staff_restaurant_ids(u) \subseteq Staff!GivenPlaces(v)
      BY <2>1, PlacesOfFittingAreas
    <2>3. QED
      BY <2>1, <2>2 DEF FitsIn, Fits
  <1>2. Staff!AlertedStaffCanOpenIt
    BY DEF StaffInv, Staff!AlertedStaffCanOpenIt, Staff!staff_to_alert, Staff!staff_user_ids_for,
      Staff!has_permission, Staff!permission_codes,
           Staff!staff_restaurant_ids, Staff!_restaurants_des_perimetres
  <1>3. QED
    BY <1>1, <1>2

-----------------------------------------------------------------------------
(* Files of the couriers *)

VerificationStatus == DOMAIN CourierFile!VERIFICATION_TRANSITIONS
Reminder == (1 .. MaxDay) \X CourierFile!RAPPELS_EN_JOURS

FileTypes ==
  /\ file \in [status : VerificationStatus, online : BOOLEAN, document : Nat, expires : 0 .. MaxDay]
  /\ seen \in Nat /\ desk \in Nat
  /\ upload \in VerificationStatus \cup {"none"}
  /\ crossed_courie \in BOOLEAN
  /\ task \in [Worker -> Reminder \cup {<<0, 0>>}]
  /\ rows_courie \in SUBSET Reminder
  /\ notices \in [Reminder -> {0, 1}]

\* A reminder is sent by the worker whose row was inserted.
SentIsWritten == \A r \in Reminder : notices[r] = 1 => r \in rows_courie

FileInv == FileTypes /\ CourierFile!ApprovedFileWasRead /\ SentIsWritten

LEMMA FileInit == CourierFile!Init => FileInv
  <1> SUFFICES ASSUME CourierFile!Init PROVE FileInv
    OBVIOUS
  <1>1. "pending" \in VerificationStatus
    BY DEF VerificationStatus, CourierFile!VERIFICATION_TRANSITIONS
  <1>2. 0 \in 0 .. MaxDay
    BY CourierFileAssumption
  <1>3. file \in [status : VerificationStatus, online : BOOLEAN, document : Nat, expires : 0 .. MaxDay]
    BY <1>1, <1>2 DEF CourierFile!Init
  <1>4. file.status = "pending"
    BY DEF CourierFile!Init
  <1>5. /\ seen = 0 /\ desk = 0 /\ upload = "none" /\ crossed_courie = FALSE /\ rows_courie = {}
        /\ task = [w \in Worker |-> <<0, 0>>] /\ notices = [r \in Reminder |-> 0]
    BY DEF CourierFile!Init, Reminder
  <1>6. /\ crossed_courie \in BOOLEAN /\ task \in [Worker -> Reminder \cup {<<0, 0>>}]
        /\ notices \in [Reminder -> {0, 1}] /\ \A r \in Reminder : notices[r] # 1
    <2>1. crossed_courie \in BOOLEAN
      BY <1>5
    <2>2. task \in [Worker -> Reminder \cup {<<0, 0>>}]
      BY <1>5
    <2>3. notices \in [Reminder -> {0, 1}] /\ \A r \in Reminder : notices[r] # 1
      BY <1>5
    <2>4. QED
      BY <2>1, <2>2, <2>3
  <1>7. FileTypes
    BY <1>3, <1>5, <1>6 DEF FileTypes
  <1>8. QED
    BY <1>4, <1>6, <1>7 DEF FileInv, CourierFile!ApprovedFileWasRead, SentIsWritten

LEMMA FileStep ==
  ASSUME FileInv, [CourierFile!Next]_(CourierFile!vars)
  PROVE  /\ FileInv'
         /\ crossed_courie' \/ file'.status = file.status \/ CourierFile!can(CourierFile!VERIFICATION_TRANSITIONS, file.status, file'.status)
  <1> DEFINE Follows == crossed_courie' \/ file'.status = file.status \/ CourierFile!can(CourierFile!VERIFICATION_TRANSITIONS, file.status, file'.status)
             F == [status : VerificationStatus, online : BOOLEAN, document : Nat, expires : 0 .. MaxDay]
  <1> USE DEF FileInv
  <1>0. file \in F
    BY DEF FileTypes
  <1>1. CASE UNCHANGED CourierFile!vars
    BY <1>1 DEF CourierFile!vars, FileTypes, CourierFile!ApprovedFileWasRead, SentIsWritten
  <1>2. ASSUME NEW flag \in BOOLEAN, CourierFile!set_online(flag) PROVE FileInv' /\ Follows
    <2>1. file' \in F /\ file'.status = file.status /\ file'.document = file.document
      BY <1>0, <1>2 DEF CourierFile!set_online
    <2>2. QED
      BY <1>2, <2>1 DEF CourierFile!set_online, FileTypes, CourierFile!ApprovedFileWasRead, SentIsWritten
  <1>3. ASSUME CourierFile!courier_of PROVE FileInv' /\ Follows
    BY <1>0, <1>3 DEF CourierFile!courier_of, FileTypes, CourierFile!ApprovedFileWasRead, SentIsWritten
  <1>4. ASSUME CourierFile!replace_documents PROVE FileInv' /\ Follows
    <2>0. 0 \in 0 .. MaxDay /\ "pending" \in VerificationStatus
      BY CourierFileAssumption DEF VerificationStatus, CourierFile!VERIFICATION_TRANSITIONS
    <2>1. /\ file' \in F
          /\ upload \in {"approved", "rejected"} => file'.status = "pending"
          /\ upload \notin {"approved", "rejected"} => file'.status = file.status
      <3> DEFINE reopened == [file EXCEPT !.document = @ + 1, !.expires = 0, !.status = "pending", !.online = FALSE]
                 kept == [file EXCEPT !.document = @ + 1, !.expires = 0]
      <3>1. reopened \in F /\ reopened.status = "pending"
        <4>1. ASSUME NEW flag \in BOOLEAN
              PROVE  [file EXCEPT !.document = @ + 1, !.expires = 0, !.status = "pending", !.online = flag] \in F
          <5>1. file.document + 1 \in Nat
            BY <1>0
          <5>2. QED
            BY <1>0, <2>0, <5>1
        <4>2. reopened \in F
          BY <4>1
        <4>3. QED
          BY <1>0, <4>2
      <3>2. kept \in F /\ kept.status = file.status
        <4>1. file.document + 1 \in Nat
          BY <1>0
        <4>2. QED
          BY <1>0, <2>0, <4>1
      <3>3. file' = IF upload \in {"approved", "rejected"} THEN reopened ELSE kept
        BY <1>4 DEF CourierFile!replace_documents, CourierFile!ROUVRE_L_INSTRUCTION
      <3>4. QED
        BY <3>1, <3>2, <3>3
    <2>2. crossed_courie' = (crossed_courie \/ upload # file.status)
      BY <1>4 DEF CourierFile!replace_documents
    <2>3. UNCHANGED <<seen, desk, rows_courie, task, notices>> /\ upload' = "none" /\ crossed_courie' \in BOOLEAN
      BY <1>4 DEF CourierFile!replace_documents
    <2>4. Follows
      <3>1. CASE upload # file.status
        BY <2>2, <3>1
      <3>2. CASE upload = file.status /\ upload \notin {"approved", "rejected"}
        BY <2>1, <3>2
      <3>3. CASE upload = file.status /\ upload \in {"approved", "rejected"}
        <4>1. CourierFile!can(CourierFile!VERIFICATION_TRANSITIONS, file.status, "pending")
          BY <3>3 DEF CourierFile!can, CourierFile!VERIFICATION_TRANSITIONS
        <4>2. QED
          BY <2>1, <3>3, <4>1
      <3>4. QED
        BY <3>1, <3>2, <3>3
    <2>5. CourierFile!ApprovedFileWasRead'
      BY <2>1, <2>2 DEF CourierFile!ApprovedFileWasRead
    <2>6. QED
      BY <2>1, <2>3, <2>4, <2>5 DEF FileTypes, SentIsWritten
  <1>5. ASSUME CourierFile!retrieve PROVE FileInv' /\ Follows
    BY <1>0, <1>5 DEF CourierFile!retrieve, FileTypes, CourierFile!ApprovedFileWasRead, SentIsWritten
  <1>6. ASSUME NEW target \in VerificationStatus, NEW expires \in 0 .. MaxDay, CourierFile!review(target, expires)
        PROVE  FileInv' /\ Follows
    <2> DEFINE dated == CourierFile!_poser_expirations(expires)
    <2>1. dated \in F /\ dated.status = file.status /\ dated.document = file.document
      BY <1>0 DEF CourierFile!_poser_expirations
    <2>2. /\ file' \in F /\ file'.status = target /\ file'.document = file.document
          /\ file.status = target \/ CourierFile!can(CourierFile!VERIFICATION_TRANSITIONS, file.status, target)
      BY <1>6, <2>1 DEF CourierFile!review, CourierFile!is_noop
    <2>3. /\ seen' = IF target = "approved" THEN desk ELSE seen
          /\ crossed_courie' = (crossed_courie \/ desk # file.document) /\ crossed_courie' \in BOOLEAN
          /\ desk' = 0
          /\ UNCHANGED <<upload, rows_courie, task, notices>>
      BY <1>6 DEF CourierFile!review
    <2>4. QED
      BY <2>2, <2>3 DEF FileTypes, CourierFile!ApprovedFileWasRead, SentIsWritten
  <1>7. ASSUME CourierFile!midnight PROVE FileInv' /\ Follows
    BY <1>7 DEF CourierFile!midnight, FileTypes, CourierFile!ApprovedFileWasRead, SentIsWritten
  <1>8. ASSUME NEW w \in Worker, CourierFile!remind_document_expiry(w) PROVE FileInv' /\ Follows
    <2>1. PICK t \in CourierFile!RAPPELS_EN_JOURS : task' = [task EXCEPT ![w] = <<file.expires, t>>]
      <3>1. PICK t \in CourierFile!_seuil_atteint(file.expires) : task' = [task EXCEPT ![w] = <<file.expires, t>>]
        BY <1>8 DEF CourierFile!remind_document_expiry
      <3>2. t \in CourierFile!RAPPELS_EN_JOURS
        <4> DEFINE S == {u \in CourierFile!RAPPELS_EN_JOURS : file.expires - today <= u}
        <4>1. S # {} /\ t = CHOOSE u \in S : \A v \in S : u <= v
          BY DEF CourierFile!_seuil_atteint
        <4>2. \E u \in S : \A v \in S : u <= v
          <5>1. CASE 0 \in S
            <6>1. \A v \in S : 0 <= v
              BY DEF CourierFile!RAPPELS_EN_JOURS
            <6>2. QED
              BY <5>1, <6>1
          <5>2. CASE 0 \notin S
            <6>1. S = {1}
              BY <4>1, <5>2 DEF CourierFile!RAPPELS_EN_JOURS
            <6>2. QED
              BY <6>1
          <5>3. QED
            BY <5>1, <5>2
        <4>3. t \in S
          BY <4>1, <4>2
        <4>4. QED
          BY <4>3
      <3>3. QED
        BY <3>1, <3>2
    <2>2. file.expires \in 1 .. MaxDay
      BY <1>0, <1>8 DEF CourierFile!remind_document_expiry
    <2>3. task' \in [Worker -> Reminder \cup {<<0, 0>>}]
      BY <2>1, <2>2 DEF FileTypes, Reminder
    <2>4. QED
      BY <1>8, <2>3 DEF CourierFile!remind_document_expiry, FileTypes, CourierFile!ApprovedFileWasRead, SentIsWritten
  <1>9. ASSUME NEW w \in Worker, CourierFile!reminded(w) PROVE FileInv' /\ Follows
    <2>1. task[w] \in Reminder /\ task' \in [Worker -> Reminder \cup {<<0, 0>>}]
      BY <1>9 DEF CourierFile!reminded, FileTypes
    <2>2. rows_courie' = rows_courie \cup {task[w]} /\ rows_courie' \in SUBSET Reminder
      BY <1>9, <2>1 DEF CourierFile!reminded, FileTypes
    <2>3. notices' \in [Reminder -> {0, 1}] /\ SentIsWritten'
      <3>1. CASE task[w] \in rows_courie
        BY <1>9, <2>2, <3>1 DEF CourierFile!reminded, CourierFile!_consigner, FileTypes, SentIsWritten
      <3>2. CASE task[w] \notin rows_courie
        <4>1. notices' = [notices EXCEPT ![task[w]] = @ + 1] /\ notices[task[w]] = 0
          BY <1>9, <2>1, <3>2 DEF CourierFile!reminded, CourierFile!_consigner, FileTypes, SentIsWritten
        <4>2. QED
          BY <2>1, <2>2, <4>1 DEF FileTypes, SentIsWritten
      <3>3. QED
        BY <3>1, <3>2
    <2>4. QED
      BY <1>9, <2>1, <2>2, <2>3 DEF CourierFile!reminded, FileTypes, CourierFile!ApprovedFileWasRead
  <1>10. QED
    BY <1>1, <1>2, <1>3, <1>4, <1>5, <1>6, <1>7, <1>8, <1>9 DEF CourierFile!Next, VerificationStatus

LEMMA FileInvImplies == FileInv => CourierFile!RemindedOnce
  BY DEF FileInv, FileTypes, CourierFile!RemindedOnce

-----------------------------------------------------------------------------
(* Accounts of the couriers *)

\* The component counts and sums as the theorems do.
LEMMA AccountCount == \A S : CourierAccount!Cardinality(S) = Cardinality(S)
  BY DEF CourierAccount!Cardinality, Cardinality

LEMMA AccountSum == \A f, S : CourierAccount!SumFunctionOnSet(f, S) = SumFunctionOnSet(f, S)
  BY DEF CourierAccount!SumFunctionOnSet, SumFunctionOnSet, CourierAccount!FoldFunctionOnSet, FoldFunctionOnSet,
         CourierAccount!MapThenFoldSet, MapThenFoldSet

AmountOf(w) == withdrawals[w].amount
Counted == {w \in Withdrawal : withdrawals[w].status \in {"pending", "completed"}}
amounts == [w \in Withdrawal |-> withdrawals[w].amount]

WithdrawalRow == [status : {"none", "pending", "completed", "failed"}, amount : Nat]

AccountTypes ==
  /\ delivered \subseteq Course /\ rated \subseteq Course /\ asking \subseteq Course
  /\ earnings \in Nat /\ scores \in Nat
  /\ withdrawals \in [Withdrawal -> WithdrawalRow]
  /\ rating \in [count : Nat, average : Nat]

AccountInv == AccountTypes /\ CourierAccount!EarningsAreAccountedFor /\ CourierAccount!RatingFollowsTheScores

LEMMA AccountInit == CourierAccount!Init => AccountInv
  <1> SUFFICES ASSUME CourierAccount!Init PROVE AccountInv
    OBVIOUS
  <1>1. AccountTypes
    BY DEF CourierAccount!Init, AccountTypes, WithdrawalRow, CourierAccount!NoWithdrawal
  <1>2. Counted = {}
    BY DEF CourierAccount!Init, Counted, CourierAccount!NoWithdrawal
  <1>3. Cardinality({}) = 0
    BY FS_EmptySet
  <1>4. CourierAccount!EarningsAreAccountedFor
    <2>1. CourierAccount!Sum({}) = 0
      BY SumEmpty, AccountSum DEF CourierAccount!Sum
    <2>2. earnings = 0 /\ CourierAccount!Cardinality(delivered) = 0
      BY <1>3, AccountCount DEF CourierAccount!Init
    <2>3. Fee * 0 = 0
      BY CourierAccountAssumption
    <2>4. QED
      BY <1>2, <2>1, <2>2, <2>3 DEF CourierAccount!EarningsAreAccountedFor, Counted
  <1>5. CourierAccount!RatingFollowsTheScores
    BY <1>3, AccountCount DEF CourierAccount!Init, CourierAccount!RatingFollowsTheScores
  <1>6. QED
    BY <1>1, <1>4, <1>5 DEF AccountInv

-----------------------------------------------------------------------------
\* The sum depends on the amounts of the withdrawals that are counted.
LEMMA SumOfCounted ==
  ASSUME AccountTypes
  PROVE  /\ IsFiniteSet(Counted) /\ Counted \subseteq Withdrawal
         /\ \A w \in Withdrawal : amounts[w] \in Nat
         /\ CourierAccount!Sum(Counted) = SumFunctionOnSet(amounts, Counted)
         /\ CourierAccount!Sum(Counted) \in Nat
         /\ CourierAccount!EarningsAreAccountedFor <=> earnings + CourierAccount!Sum(Counted) = Fee * Cardinality(delivered)
  <1>1. Counted \subseteq Withdrawal
    BY DEF Counted
  <1>2. IsFiniteSet(Counted)
    BY <1>1, CourierAccountAssumption, FS_Subset
  <1>3. \A w \in Withdrawal : amounts[w] \in Nat
    BY DEF AccountTypes, WithdrawalRow, amounts
  <1>4. CourierAccount!Sum(Counted) = SumFunctionOnSet(amounts, Counted)
    BY AccountSum DEF CourierAccount!Sum, amounts
  <1>5. SumFunctionOnSet(amounts, Counted) \in Nat
    BY <1>1, <1>2, <1>3, SumType
  <1>6. earnings >= 0
    BY DEF AccountTypes
  <1>7. QED
    BY <1>1, <1>2, <1>3, <1>4, <1>5, <1>6, AccountCount DEF CourierAccount!EarningsAreAccountedFor, Counted

LEMMA CoursesAreFinite ==
  ASSUME NEW S \in SUBSET Course
  PROVE  IsFiniteSet(S) /\ Cardinality(S) \in Nat
  BY CourierAccountAssumption, FS_Subset, FS_CardinalityType

\* A course credited is a fee more on both sides.
LEMMA Credited ==
  ASSUME AccountInv, NEW c \in Course, CourierAccount!_credit(c)
  PROVE  AccountInv'
  <1>1. AccountTypes'
    BY CourierAccountAssumption DEF CourierAccount!_credit, AccountInv, AccountTypes
  <1>2. Cardinality(delivered') = Cardinality(delivered) + 1 /\ Cardinality(delivered) \in Nat
    BY CoursesAreFinite, FS_AddElement DEF CourierAccount!_credit, AccountInv, AccountTypes
  <1>3. CourierAccount!Sum(Counted)' = CourierAccount!Sum(Counted)
    BY DEF CourierAccount!_credit, CourierAccount!Sum, Counted
  <1>4. earnings' = earnings + Fee /\ earnings \in Nat
    BY DEF CourierAccount!_credit, AccountInv, AccountTypes
  <1>5. CourierAccount!Sum(Counted) \in Nat /\ earnings + CourierAccount!Sum(Counted) = Fee * Cardinality(delivered)
    BY SumOfCounted DEF AccountInv
  <1>6. Fee * (Cardinality(delivered) + 1) = Fee * Cardinality(delivered) + Fee
    <2>1. \A f, n \in Int : f * (n + 1) = f * n + f
      OBVIOUS
    <2>2. QED
      BY <1>2, <2>1, CourierAccountAssumption
  <1>7. Fee * Cardinality(delivered) \in Int
    BY <1>2, CourierAccountAssumption
  <1>8. (earnings + CourierAccount!Sum(Counted))' = (Fee * Cardinality(delivered))'
    BY <1>2, <1>3, <1>4, <1>5, <1>6, <1>7, CourierAccountAssumption
  <1>9. CourierAccount!EarningsAreAccountedFor'
    BY <1>1, <1>3, <1>8, SumOfCounted, AccountCount DEF CourierAccount!EarningsAreAccountedFor, AccountTypes, Counted
  <1>10. CourierAccount!RatingFollowsTheScores'
    BY DEF CourierAccount!_credit, AccountInv, CourierAccount!RatingFollowsTheScores
  <1>11. QED
    BY <1>1, <1>9, <1>10 DEF AccountInv

\* What is asked for leaves the earnings.
LEMMA Requested ==
  ASSUME AccountInv, NEW w \in Withdrawal, NEW amount \in Nat, CourierAccount!request(w, amount)
  PROVE  AccountInv'
  <1> DEFINE old == Counted
             new == Counted'
             f == amounts
             g == amounts'
  <1>1. /\ withdrawals' = [withdrawals EXCEPT ![w] = [status |-> "pending", amount |-> amount]]
        /\ withdrawals \in [Withdrawal -> WithdrawalRow]
        /\ earnings' = earnings - amount /\ amount <= earnings /\ earnings \in Nat
        /\ UNCHANGED <<delivered, rating, scores, rated, asking>>
    BY DEF CourierAccount!request, AccountInv, AccountTypes
  <1>2. AccountTypes'
    <2>1. [status |-> "pending", amount |-> amount] \in WithdrawalRow
      BY DEF WithdrawalRow
    <2>2. QED
      BY <1>1, <2>1 DEF AccountInv, AccountTypes
  <1>3. w \notin old /\ new = old \cup {w}
    BY <1>1 DEF CourierAccount!request, Counted
  <1>4. g[w] = amount /\ \A x \in old : g[x] = f[x]
    BY <1>1, <1>3 DEF amounts, Counted
  <1>5. /\ IsFiniteSet(old) /\ old \subseteq Withdrawal
        /\ \A x \in Withdrawal : g[x] \in Nat
        /\ CourierAccount!Sum(Counted) = SumFunctionOnSet(f, old) /\ CourierAccount!Sum(Counted) \in Nat
    BY <1>1, <1>2, SumOfCounted DEF AccountInv, amounts, AccountTypes, WithdrawalRow
  <1>6. SumFunctionOnSet(g, new) = amount + SumFunctionOnSet(f, old)
    <2> HIDE DEF old, new, f, g
    <2>1. SumFunctionOnSet(g, old) = SumFunctionOnSet(f, old)
      BY <1>4, <1>5, SumSame
    <2>2. \A x \in old \cup {w} : g[x] \in Int
      BY <1>5
    <2>3. SumFunctionOnSet(g, old \cup {w}) = g[w] + SumFunctionOnSet(g, old)
      BY <1>3, <1>5, <2>2, SumAdd
    <2>4. QED
      BY <1>3, <1>4, <2>1, <2>3
  <1>7. CourierAccount!Sum(Counted)' = SumFunctionOnSet(g, new)
    BY AccountSum DEF CourierAccount!Sum, amounts
  <1>8. earnings' + CourierAccount!Sum(Counted)' = Fee * Cardinality(delivered')
    <2>1. earnings + CourierAccount!Sum(Counted) = Fee * Cardinality(delivered)
      BY SumOfCounted DEF AccountInv
    <2>2. CourierAccount!Sum(Counted)' = amount + CourierAccount!Sum(Counted)
      BY <1>5, <1>6, <1>7
    <2>3. earnings' + CourierAccount!Sum(Counted)' = earnings + CourierAccount!Sum(Counted)
      BY <1>1, <1>5, <2>2
    <2>4. QED
      BY <1>1, <2>1, <2>3
  <1>9. CourierAccount!EarningsAreAccountedFor'
    BY <1>1, <1>2, <1>8, AccountCount DEF CourierAccount!EarningsAreAccountedFor, AccountTypes, Counted
  <1>10. CourierAccount!RatingFollowsTheScores'
    BY <1>1 DEF AccountInv, CourierAccount!RatingFollowsTheScores
  <1>11. QED
    BY <1>2, <1>9, <1>10 DEF AccountInv

\* Only what is pending is paid or given back.
LEMMA WithdrawalFollowsItsMachine ==
  ASSUME AccountTypes, NEW w \in Withdrawal, withdrawals[w].status # "none"
  PROVE  /\ CourierAccount!can(CourierAccount!PAYMENT_TRANSITIONS, withdrawals[w].status, "processing") => withdrawals[w].status = "pending"
         /\ CourierAccount!can(CourierAccount!PAYMENT_TRANSITIONS, withdrawals[w].status, "failed") => withdrawals[w].status = "pending"
  <1>1. withdrawals[w].status \in {"pending", "completed", "failed"}
    BY DEF AccountTypes, WithdrawalRow
  <1>2. QED
    BY <1>1 DEF CourierAccount!can, CourierAccount!PAYMENT_TRANSITIONS

LEMMA Settled ==
  ASSUME AccountInv, NEW w \in Withdrawal, CourierAccount!settle(w)
  PROVE  AccountInv'
  <1>1. /\ withdrawals[w].status = "pending"
        /\ withdrawals' = [withdrawals EXCEPT ![w].status = "completed"]
        /\ withdrawals \in [Withdrawal -> WithdrawalRow]
        /\ UNCHANGED <<delivered, earnings, rating, scores, rated, asking>>
    BY WithdrawalFollowsItsMachine DEF CourierAccount!settle, AccountInv, AccountTypes
  <1>2. AccountTypes'
    BY <1>1 DEF AccountInv, AccountTypes, WithdrawalRow
  <1>3. \A x \in Withdrawal : withdrawals'[x].amount = withdrawals[x].amount
    BY <1>1 DEF WithdrawalRow
  <1>4. Counted' = Counted
    BY <1>1 DEF Counted, WithdrawalRow
  <1>5. amounts' = amounts
    BY <1>3 DEF amounts
  <1>6. CourierAccount!Sum(Counted)' = CourierAccount!Sum(Counted)
    BY <1>4, <1>5 DEF CourierAccount!Sum, amounts
  <1>7. CourierAccount!EarningsAreAccountedFor'
    BY <1>1, <1>6 DEF AccountInv, CourierAccount!EarningsAreAccountedFor, Counted
  <1>8. CourierAccount!RatingFollowsTheScores'
    BY <1>1 DEF AccountInv, CourierAccount!RatingFollowsTheScores
  <1>9. QED
    BY <1>2, <1>7, <1>8 DEF AccountInv

\* What is refused goes back to the earnings, and is counted no more.
LEMMA Failed ==
  ASSUME AccountInv, NEW w \in Withdrawal, CourierAccount!fail(w)
  PROVE  AccountInv'
  <1> DEFINE old == Counted
             new == Counted'
             f == amounts
             g == amounts'
  <1>1. /\ withdrawals[w].status = "pending"
        /\ withdrawals' = [withdrawals EXCEPT ![w].status = "failed"]
        /\ withdrawals \in [Withdrawal -> WithdrawalRow]
        /\ earnings' = earnings + withdrawals[w].amount /\ earnings \in Nat /\ withdrawals[w].amount \in Nat
        /\ UNCHANGED <<delivered, rating, scores, rated, asking>>
    BY WithdrawalFollowsItsMachine DEF CourierAccount!fail, AccountInv, AccountTypes, WithdrawalRow
  <1>2. AccountTypes'
    BY <1>1 DEF AccountInv, AccountTypes, WithdrawalRow
  <1>3. w \in old /\ new = old \ {w}
    BY <1>1 DEF Counted, WithdrawalRow
  <1>4. g = f
    BY <1>1 DEF amounts, WithdrawalRow
  <1>5. /\ IsFiniteSet(old) /\ old \subseteq Withdrawal
        /\ \A x \in Withdrawal : f[x] \in Nat
        /\ CourierAccount!Sum(Counted) = SumFunctionOnSet(f, old) /\ CourierAccount!Sum(Counted) \in Nat
    BY SumOfCounted DEF AccountInv
  <1>6. f[w] = withdrawals[w].amount
    BY DEF amounts
  <1>7. SumFunctionOnSet(f, old) = f[w] + SumFunctionOnSet(f, old \ {w})
    <2> HIDE DEF old, f
    <2>1. \A x \in old : f[x] \in Int
      BY <1>5
    <2>2. QED
      BY <1>3, <1>5, <2>1, SumRemove
  <1>8. CourierAccount!Sum(Counted)' = SumFunctionOnSet(g, new)
    BY AccountSum DEF CourierAccount!Sum, amounts
  <1>9. CourierAccount!Sum(Counted)' \in Nat
    <2>2. IsFiniteSet(new) /\ \A x \in new : f[x] \in Nat
      BY <1>3, <1>5, FS_Subset
    <2> HIDE DEF new, f, g
    <2>3. SumFunctionOnSet(f, new) \in Nat
      BY <2>2, SumType
    <2>4. QED
      BY <1>4, <1>8, <2>3
  <1>10. earnings' + CourierAccount!Sum(Counted)' = Fee * Cardinality(delivered')
    <2>1. earnings + CourierAccount!Sum(Counted) = Fee * Cardinality(delivered)
      BY SumOfCounted DEF AccountInv
    <2>2. CourierAccount!Sum(Counted) = withdrawals[w].amount + CourierAccount!Sum(Counted)'
      BY <1>3, <1>4, <1>5, <1>6, <1>7, <1>8
    <2>3. QED
      BY <1>1, <1>9, <2>1, <2>2
  <1>11. CourierAccount!EarningsAreAccountedFor'
    BY <1>2, <1>10, AccountCount DEF CourierAccount!EarningsAreAccountedFor, AccountTypes, Counted
  <1>12. CourierAccount!RatingFollowsTheScores'
    BY <1>1 DEF AccountInv, CourierAccount!RatingFollowsTheScores
  <1>13. QED
    BY <1>2, <1>11, <1>12 DEF AccountInv

-----------------------------------------------------------------------------
\* Rounding half up is off by half a unit at most.
LEMMA RoundedQuotient ==
  ASSUME NEW t \in Nat, NEW n \in Nat, n > 0
  PROVE  LET q == (2 * t + n) \div (2 * n) IN
         q \in Nat /\ 2 * t - n <= 2 * (q * n) /\ 2 * (q * n) <= 2 * t + n
  <1> DEFINE q == (2 * t + n) \div (2 * n)
             a == 2 * t + n
             b == 2 * n
  <1>1. a \in Nat /\ b \in Nat /\ b > 0
    OBVIOUS
  <1>2. (a \div b) \in Nat /\ b * (a \div b) <= a /\ a < b * (a \div b) + b
    <2>1. \A x, y \in Nat : y > 0 => x \div y \in Nat /\ x = y * (x \div y) + (x % y) /\ 0 <= x % y /\ x % y < y
      OBVIOUS
    <2> HIDE DEF a, b
    <2>2. a = b * (a \div b) + (a % b) /\ 0 <= a % b /\ a % b < b /\ a \div b \in Nat
      BY <1>1, <2>1
    <2>3. b * (a \div b) \in Int /\ a % b \in Int
      BY <1>1, <2>2
    <2>4. QED
      BY <1>1, <2>2, <2>3
  <1>3. q \in Nat /\ b * q <= a /\ a < b * q + b
    BY <1>2
  <1> HIDE DEF q
  <1>4. b * q = 2 * (q * n)
    BY <1>3
  <1>5. q * n \in Int
    BY <1>3
  <1> HIDE DEF b
  <1>6. 2 * t + n < 2 * (q * n) + 2 * n
    BY <1>3, <1>4 DEF b
  <1>7. 2 * (q * n) <= 2 * t + n
    BY <1>3, <1>4
  <1>8. 2 * t - n <= 2 * (q * n)
    BY <1>5, <1>6
  <1>9. QED
    BY <1>3, <1>7, <1>8 DEF q

\* One rating more adds half a hundredth per rating to the drift at most.
LEMMA DriftGrows ==
  ASSUME NEW s \in Nat, NEW score \in Nat, NEW a \in Nat, NEW n \in Nat, NEW b \in Nat,
         4 * (100 * s - a * n) <= n * (n + 1),
         -4 * (100 * s - a * n) <= n * (n + 1),
         2 * (a * n + 100 * score) - (n + 1) <= 2 * (b * (n + 1)),
         2 * (b * (n + 1)) <= 2 * (a * n + 100 * score) + (n + 1)
  PROVE  /\ 4 * (100 * (s + score) - b * (n + 1)) <= (n + 1) * (n + 1 + 1)
         /\ -4 * (100 * (s + score) - b * (n + 1)) <= (n + 1) * (n + 1 + 1)
  <1> DEFINE p == a * n
             r == b * (n + 1)
             m == n * (n + 1)
  <1>1. p \in Int /\ r \in Int /\ m \in Int
    OBVIOUS
  <1>2. (n + 1) * (n + 1 + 1) = m + 2 * (n + 1)
    <2>1. \A x \in Int : (x + 1) * (x + 1 + 1) = x * (x + 1) + 2 * (x + 1)
      OBVIOUS
    <2>2. QED
      BY <2>1
  <1> HIDE DEF p, r, m
  <1>3. 4 * (100 * s - p) <= m /\ -4 * (100 * s - p) <= m
    BY DEF p, m
  <1>4. 2 * (p + 100 * score) - (n + 1) <= 2 * r /\ 2 * r <= 2 * (p + 100 * score) + (n + 1)
    BY DEF p, r
  <1>5. 4 * (100 * (s + score) - r) <= m + 2 * (n + 1) /\ -4 * (100 * (s + score) - r) <= m + 2 * (n + 1)
    BY <1>1, <1>3, <1>4
  <1>6. QED
    BY <1>2, <1>5 DEF r

LEMMA Rated ==
  ASSUME AccountInv, NEW c \in Course, NEW score \in Score, CourierAccount!rate(c, score)
  PROVE  AccountInv'
  <1> DEFINE n == rating.count
             a == rating.average
             t == a * n + 100 * score
             b == (2 * t + (n + 1)) \div (2 * (n + 1))
  <1>1. n \in Nat /\ a \in Nat /\ score \in Nat /\ scores \in Nat
    BY CourierAccountAssumption DEF AccountInv, AccountTypes
  <1>2. t \in Nat /\ n + 1 \in Nat /\ n + 1 > 0
    <2>1. \A x, y \in Nat : x * y \in Nat
      OBVIOUS
    <2>2. a * n \in Nat
      BY <1>1, <2>1
    <2>3. QED
      BY <1>1, <2>2
  <1>3. rating' = [count |-> n + 1, average |-> b]
    BY DEF CourierAccount!rate, CourierAccount!_recompute_average
  <1>4. /\ rated' = rated \cup {c} /\ c \notin rated /\ scores' = scores + score /\ asking' = asking \ {c}
        /\ UNCHANGED <<delivered, earnings, withdrawals>>
    BY DEF CourierAccount!rate
  <1>5. b \in Nat /\ 2 * t - (n + 1) <= 2 * (b * (n + 1)) /\ 2 * (b * (n + 1)) <= 2 * t + (n + 1)
    <2> HIDE DEF n, t
    <2>1. QED
      BY <1>2, RoundedQuotient
  <1>6. Cardinality(rated') = Cardinality(rated) + 1
    BY <1>4, CoursesAreFinite, FS_AddElement DEF AccountInv, AccountTypes
  <1>7. /\ n = Cardinality(rated)
        /\ 4 * (100 * scores - a * n) <= n * (n + 1)
        /\ -4 * (100 * scores - a * n) <= n * (n + 1)
    BY AccountCount DEF AccountInv, CourierAccount!RatingFollowsTheScores
  <1>8. rating'.count = n + 1 /\ rating'.average = b
    BY <1>3
  <1> HIDE DEF b
  <1>9. AccountTypes'
    BY <1>1, <1>3, <1>4, <1>5 DEF AccountInv, AccountTypes
  <1>10. /\ 4 * (100 * (scores + score) - b * (n + 1)) <= (n + 1) * (n + 1 + 1)
         /\ -4 * (100 * (scores + score) - b * (n + 1)) <= (n + 1) * (n + 1 + 1)
    <2>1. /\ 2 * (a * n + 100 * score) - (n + 1) <= 2 * (b * (n + 1))
          /\ 2 * (b * (n + 1)) <= 2 * (a * n + 100 * score) + (n + 1)
      BY <1>5
    <2> HIDE DEF n, a, t
    <2>2. QED
      BY <1>1, <1>5, <1>7, <2>1, DriftGrows
  <1> HIDE DEF n, a, t
  <1>11. CourierAccount!RatingFollowsTheScores'
    BY <1>4, <1>6, <1>7, <1>8, <1>10, AccountCount DEF CourierAccount!RatingFollowsTheScores
  <1>12. CourierAccount!EarningsAreAccountedFor'
    BY <1>4 DEF AccountInv, CourierAccount!EarningsAreAccountedFor, CourierAccount!Sum
  <1>13. QED
    BY <1>9, <1>11, <1>12 DEF AccountInv

LEMMA AccountStep == AccountInv /\ [CourierAccount!Next]_(CourierAccount!vars) => AccountInv'
  <1> SUFFICES ASSUME AccountInv, [CourierAccount!Next]_(CourierAccount!vars) PROVE AccountInv'
    OBVIOUS
  <1>1. CASE UNCHANGED CourierAccount!vars
    BY <1>1 DEF CourierAccount!vars, AccountInv, AccountTypes, CourierAccount!EarningsAreAccountedFor,
      CourierAccount!RatingFollowsTheScores, CourierAccount!Sum
  <1>2. ASSUME NEW c \in Course, CourierAccount!_credit(c) PROVE AccountInv'
    BY <1>2, Credited
  <1>3. ASSUME NEW c \in Course, CourierAccount!rate_reads(c) PROVE AccountInv'
    BY <1>3 DEF CourierAccount!rate_reads, AccountInv, AccountTypes, CourierAccount!EarningsAreAccountedFor,
      CourierAccount!RatingFollowsTheScores, CourierAccount!Sum
  <1>4. ASSUME NEW c \in Course, NEW score \in Score, CourierAccount!rate(c, score) PROVE AccountInv'
    BY <1>4, Rated
  <1>5. ASSUME NEW w \in Withdrawal, NEW amount \in 1 .. Fee * Cardinality(Course), CourierAccount!request(w, amount) PROVE AccountInv'
    <2>1. Fee * Cardinality(Course) \in Int
      BY CourierAccountAssumption, CoursesAreFinite
    <2>2. amount \in Nat
      BY <2>1
    <2>3. QED
      BY <1>5, <2>2, Requested
  <1>6. ASSUME NEW w \in Withdrawal, CourierAccount!settle(w) PROVE AccountInv'
    BY <1>6, Settled
  <1>7. ASSUME NEW w \in Withdrawal, CourierAccount!fail(w) PROVE AccountInv'
    BY <1>7, Failed
  <1>8. QED
    BY <1>1, <1>2, <1>3, <1>4, <1>5, <1>6, <1>7, AccountCount DEF CourierAccount!Next

-----------------------------------------------------------------------------
(* Life of the establishments *)

EstablishmentStatus(n) == DOMAIN Restaurants(n)!RESTAURANT_TRANSITIONS
Row(n, statuses) == [status : statuses, active : BOOLEAN, zone : n.zones \cup {"none"}]

\* What a request that was judged may write: a zone, or a status its machine
\* declares and, in service, that it found no gap for.
Decided(n, q) ==
  /\ q.kind = "update" => q.to \in n.zones
  /\ q.kind = "status" => /\ q.to \in EstablishmentStatus(n) /\ Restaurants(n)!declared(q, q.to)
                          /\ q.to = "active" => ~ Restaurants(n)!configuration_gaps(q.of, q.read)

\* A request is idle, or has read a row that was there.
UnderWay(n, q) ==
  \/ q = Restaurants(n)!Idle
  \/ /\ q = [kind |-> q.kind, at |-> q.at, of |-> q.of, row |-> q.row, read |-> q.read, to |-> q.to]
     /\ q.kind \in {"update", "status"}
     /\ q.of \in n.restaurants /\ q.row \in Row(n, EstablishmentStatus(n))
     /\ q.at = "judged" => Decided(n, q)

RequestsInv(n) ==
  /\ requests = [d \in n.desks |-> requests[d]]
  /\ \A d \in n.desks : UnderWay(n, requests[d])

EstablishmentTypes(n) ==
  /\ rows_restau \in [n.restaurants -> Row(n, EstablishmentStatus(n) \cup {"none"})]
  /\ RequestsInv(n)

EstablishmentInv(n) == EstablishmentTypes(n) /\ Restaurants(n)!FlagPartsOnlyWhenCrossed /\ Restaurants(n)!KnownKitchenWasComplete

\* A record has the fields it is given.
LEMMA RequestFields ==
  ASSUME NEW kind, NEW at, NEW of, NEW first, NEW read, NEW to
  PROVE  \A x \in [kind : {kind}, at : {at}, of : {of}, row : {first}, read : {read}, to : {to}] :
           x = [kind |-> kind, at |-> at, of |-> of, row |-> first, read |-> read, to |-> to]
  OBVIOUS

LEMMA EstablishmentInit ==
  ASSUME NEW n, Restaurants(n)!Init
  PROVE  EstablishmentInv(n)
  <1>1. Restaurants(n)!NoRow \in Row(n, EstablishmentStatus(n) \cup {"none"}) /\ Restaurants(n)!NoRow.status = "none" /\ Restaurants(n)!NoRow.active = FALSE
    BY DEF Restaurants!NoRow, Row
  <1>2. EstablishmentTypes(n)
    BY <1>1 DEF Restaurants!Init, EstablishmentTypes, RequestsInv, UnderWay
  <1>3. \A r \in n.restaurants : rows_restau[r].status = "none" /\ rows_restau[r].active = FALSE
    BY <1>1 DEF Restaurants!Init
  <1>4. QED
    BY <1>2, <1>3 DEF EstablishmentInv, Restaurants!FlagPartsOnlyWhenCrossed, Restaurants!KnownKitchenWasComplete,
      Restaurants!KNOWN_TO_CUSTOMERS

-----------------------------------------------------------------------------
\* What a step may do to the status of an establishment.
Follows(n, r) ==
  \/ rows_restau'[r].status = rows_restau[r].status
  \/ rows_restau[r].status = "none" /\ rows_restau'[r].status = "draft"
  \/ rows_restau[r].status # "none" /\ Restaurants(n)!can(Restaurants(n)!RESTAURANT_TRANSITIONS, rows_restau[r].status, rows_restau'[r].status)
  \/ r \in crossed_restau'

\* A step that writes one row: it is enough to look at that row.
LEMMA OneRowWritten ==
  ASSUME NEW n, EstablishmentInv(n), NEW r \in n.restaurants, NEW new,
         new \in Row(n, EstablishmentStatus(n)),
         rows_restau' = [rows_restau EXCEPT ![r] = new],
         RequestsInv(n)',
         \A x \in n.restaurants : x \in crossed_restau => x \in crossed_restau',
         \A x \in n.restaurants \ {r} : x \in complete \cup overtaken => x \in complete' \cup overtaken',
         r \in crossed_restau' \/ /\ new.active <=> (new.status = "active")
                                  /\ new.status \in Restaurants(n)!KNOWN_TO_CUSTOMERS => r \in complete' \cup overtaken'
                                  /\ \/ new.status = rows_restau[r].status
                                     \/ rows_restau[r].status = "none" /\ new.status = "draft"
                                     \/ rows_restau[r].status # "none" /\ Restaurants(n)!can(Restaurants(n)!RESTAURANT_TRANSITIONS, rows_restau[r].status, new.status)
  PROVE  EstablishmentInv(n)' /\ \A x \in n.restaurants : Follows(n, x)
  <1>1. rows_restau \in [n.restaurants -> Row(n, EstablishmentStatus(n) \cup {"none"})]
    BY DEF EstablishmentInv, EstablishmentTypes
  <1>2. new \in Row(n, EstablishmentStatus(n) \cup {"none"})
    BY DEF Row
  <1>3. EstablishmentTypes(n)'
    BY <1>1, <1>2 DEF EstablishmentTypes
  <1>4. rows_restau'[r] = new /\ \A x \in n.restaurants \ {r} : rows_restau'[x] = rows_restau[x]
    BY <1>1
  <1>5. new.active \in BOOLEAN
    BY DEF Row
  <1>6. Restaurants(n)!FlagPartsOnlyWhenCrossed'
    <2> SUFFICES ASSUME NEW x \in n.restaurants, x \notin crossed_restau'
                 PROVE  rows_restau'[x].active = (rows_restau'[x].status = "active")
      BY DEF Restaurants!FlagPartsOnlyWhenCrossed
    <2>1. CASE x = r
      <3>1. new.active <=> (new.status = "active")
        BY <2>1
      <3>2. new.active = (new.status = "active")
        BY <1>5, <3>1
      <3>3. QED
        BY <1>4, <2>1, <3>2
    <2>2. CASE x # r
      <3>1. rows_restau[x].active = (rows_restau[x].status = "active")
        BY <2>2 DEF EstablishmentInv, Restaurants!FlagPartsOnlyWhenCrossed
      <3>2. QED
        BY <1>4, <2>2, <3>1
    <2>3. QED
      BY <2>1, <2>2
  <1>7. Restaurants(n)!KnownKitchenWasComplete'
    BY <1>4 DEF EstablishmentInv, Restaurants!KnownKitchenWasComplete
  <1>8. \A x \in n.restaurants : Follows(n, x)
    BY <1>4 DEF Follows
  <1>9. QED
    BY <1>3, <1>6, <1>7, <1>8 DEF EstablishmentInv

\* The draft of a new establishment.
LEMMA DraftRow ==
  ASSUME NEW n, NEW z \in n.zones
  PROVE  LET new == [Restaurants(n)!NoRow EXCEPT !.status = "draft", !.zone = z] IN
         new \in Row(n, EstablishmentStatus(n)) /\ new.status = "draft" /\ ~ new.active
  <1> DEFINE new == [Restaurants(n)!NoRow EXCEPT !.status = "draft", !.zone = z]
  <1>1. "draft" \in EstablishmentStatus(n)
    BY DEF EstablishmentStatus, Restaurants!RESTAURANT_TRANSITIONS
  <1>2. ASSUME NEW flag \in BOOLEAN
        PROVE  LET set == [[status |-> "none", active |-> flag, zone |-> "none"] EXCEPT !.status = "draft", !.zone = z] IN
               set \in Row(n, EstablishmentStatus(n)) /\ set.status = "draft" /\ set.active = flag
    BY <1>1 DEF Row
  <1>3. QED
    BY <1>2 DEF Restaurants!NoRow

\* A request that reads, is judged or ends leaves the others as they are.
LEMMA OneRequestMoves ==
  ASSUME NEW n, RequestsInv(n), NEW d \in n.desks, NEW q, UnderWay(n, q), requests' = [requests EXCEPT ![d] = q]
  PROVE  RequestsInv(n)'
  <1>1. \A x \in n.desks : requests'[x] = IF x = d THEN q ELSE requests[x]
    BY DEF RequestsInv
  <1>2. requests' = [x \in n.desks |-> requests'[x]]
    BY DEF RequestsInv
  <1>3. \A x \in n.desks : UnderWay(n, requests'[x])
    BY <1>1 DEF RequestsInv
  <1>4. QED
    BY <1>2, <1>3 DEF RequestsInv, UnderWay, Decided

LEMMA EstablishmentStep ==
  ASSUME NEW n, EstablishmentInv(n), [Restaurants(n)!Next]_(Restaurants(n)!vars)
  PROVE  EstablishmentInv(n)' /\ \A r \in n.restaurants : Follows(n, r)
  <1> DEFINE Goal == EstablishmentInv(n)' /\ \A r \in n.restaurants : Follows(n, r)
  <1>0. /\ rows_restau \in [n.restaurants -> Row(n, EstablishmentStatus(n) \cup {"none"})]
        /\ RequestsInv(n) /\ (requests' = requests => RequestsInv(n)')
    BY DEF EstablishmentInv, EstablishmentTypes, RequestsInv
  <1>1. ASSUME rows_restau' = rows_restau, RequestsInv(n)', complete' = complete, crossed_restau' = crossed_restau,
               overtaken' = overtaken
        PROVE  Goal
    BY <1>1 DEF EstablishmentInv, EstablishmentTypes, Restaurants!FlagPartsOnlyWhenCrossed,
      Restaurants!KnownKitchenWasComplete, Follows
  <1>2. CASE UNCHANGED Restaurants(n)!vars
    BY <1>0, <1>1, <1>2 DEF Restaurants!vars
  <1>3. ASSUME NEW r \in n.restaurants, NEW z \in n.zones, Restaurants(n)!perform_create(r, z) PROVE Goal
    <2> DEFINE new == [Restaurants(n)!NoRow EXCEPT !.status = "draft", !.zone = z]
    <2>1. /\ rows_restau' = [rows_restau EXCEPT ![r] = new] /\ rows_restau[r].status = "none"
          /\ requests' = requests /\ complete' = complete /\ crossed_restau' = crossed_restau /\ overtaken' = overtaken
      BY <1>3 DEF Restaurants!perform_create, Restaurants!Exists, Restaurants!history
    <2>2. new \in Row(n, EstablishmentStatus(n)) /\ new.status = "draft" /\ ~ new.active
      BY DraftRow
    <2> HIDE DEF new
    <2>3. QED
      BY <1>0, <2>1, <2>2, OneRowWritten DEF Restaurants!KNOWN_TO_CUSTOMERS
  <1>4. ASSUME NEW r \in n.restaurants, NEW source \in n.restaurants \ {r}, NEW z \in n.zones,
               NEW sections \in SUBSET (n.settings \ {"staff"}), Restaurants(n)!duplicate(source, r, z, sections)
        PROVE  Goal
    <2> DEFINE new == [Restaurants(n)!NoRow EXCEPT !.status = "draft", !.zone = z]
    <2>1. /\ rows_restau' = [rows_restau EXCEPT ![r] = new] /\ rows_restau[r].status = "none"
          /\ requests' = requests /\ complete' = complete /\ crossed_restau' = crossed_restau /\ overtaken' = overtaken
      BY <1>4 DEF Restaurants!duplicate, Restaurants!duplicated, Restaurants!Exists, Restaurants!history
    <2>2. new \in Row(n, EstablishmentStatus(n)) /\ new.status = "draft" /\ ~ new.active
      BY DraftRow
    <2> HIDE DEF new
    <2>3. QED
      BY <1>0, <2>1, <2>2, OneRowWritten DEF Restaurants!KNOWN_TO_CUSTOMERS
  <1>5. ASSUME NEW r \in n.restaurants, NEW d \in n.desks, NEW kind \in {"update", "status"}, Restaurants(n)!get_object(d, r, kind)
        PROVE  Goal
    <2> DEFINE read == IF kind = "status" THEN Restaurants(n)!SetupOf(r) ELSE Restaurants(n)!NoSetup
               q == [kind |-> kind, at |-> "read", of |-> r, row |-> rows_restau[r], read |-> read, to |-> "none"]
    <2>1. rows_restau[r] \in Row(n, EstablishmentStatus(n))
      BY <1>0, <1>5 DEF Restaurants!get_object, Restaurants!Exists, Row
    <2>2. requests' = [requests EXCEPT ![d] = q]
      <3>1. requests' = [requests EXCEPT ![d] = [Restaurants(n)!Idle EXCEPT !.kind = kind, !.at = "read", !.of = r,
                                                   !.row = rows_restau[r], !.read = read]]
        BY <1>5 DEF Restaurants!get_object
      <3> HIDE DEF read
      <3>2. [Restaurants(n)!Idle EXCEPT !.kind = kind, !.at = "read", !.of = r, !.row = rows_restau[r], !.read = read] \in
              [kind : {kind}, at : {"read"}, of : {r}, row : {rows_restau[r]}, read : {read}, to : {"none"}]
        BY DEF Restaurants!Idle
      <3>3. [Restaurants(n)!Idle EXCEPT !.kind = kind, !.at = "read", !.of = r, !.row = rows_restau[r], !.read = read] = q
        BY <3>2, RequestFields
      <3> HIDE DEF q
      <3>4. QED
        BY <3>1, <3>3
    <2>3. UnderWay(n, q)
      BY <2>1 DEF UnderWay
    <2>4. RequestsInv(n)'
      BY <1>0, <2>2, <2>3, OneRequestMoves
    <2>5. QED
      BY <1>1, <1>5, <2>4 DEF Restaurants!get_object, Restaurants!history
  <1>6. ASSUME NEW d \in n.desks, requests[d].kind # "none"
        PROVE  LET q == requests[d] IN
               /\ q = [kind |-> q.kind, at |-> q.at, of |-> q.of, row |-> q.row, read |-> q.read, to |-> q.to]
               /\ q.of \in n.restaurants /\ q.row \in Row(n, EstablishmentStatus(n))
               /\ q.at = "judged" => Decided(n, q)
    BY <1>0, <1>6 DEF RequestsInv, UnderWay, Restaurants!Idle
  <1>7. ASSUME NEW d \in n.desks, requests' = [requests EXCEPT ![d] = Restaurants(n)!Idle] PROVE RequestsInv(n)'
    BY <1>0, <1>7, OneRequestMoves DEF UnderWay
  <1>8. ASSUME NEW q, q.of \in n.restaurants, crossed_restau' = Restaurants(n)!Crossing(q)
        PROVE  /\ \A x \in n.restaurants : x \in crossed_restau => x \in crossed_restau'
               /\ q.of \in crossed_restau' \/ q.row = rows_restau[q.of]
    BY <1>8 DEF Restaurants!Crossing
  <1>9. ASSUME NEW d \in n.desks, NEW z \in n.zones, Restaurants(n)!validate_zone(d, z) PROVE Goal
    <2> DEFINE q == requests[d]
               new == [kind |-> q.kind, at |-> "judged", of |-> q.of, row |-> q.row, read |-> q.read, to |-> z]
    <2>1. /\ q = [kind |-> q.kind, at |-> q.at, of |-> q.of, row |-> q.row, read |-> q.read, to |-> q.to]
          /\ q.of \in n.restaurants /\ q.row \in Row(n, EstablishmentStatus(n)) /\ q.kind = "update"
      BY <1>6, <1>9 DEF Restaurants!validate_zone
    <2>2. requests' = [requests EXCEPT ![d] = [q EXCEPT !.at = "judged", !.to = z]]
      BY <1>9 DEF Restaurants!validate_zone
    <2> HIDE DEF q
    <2>3. [q EXCEPT !.at = "judged", !.to = z] = new
      <3>1. [q EXCEPT !.at = "judged", !.to = z] \in
              [kind : {q.kind}, at : {"judged"}, of : {q.of}, row : {q.row}, read : {q.read}, to : {z}]
        BY <2>1
      <3>2. QED
        BY <3>1, RequestFields
    <2>4. UnderWay(n, new)
      BY <2>1 DEF UnderWay, Decided
    <2>5. RequestsInv(n)'
      BY <1>0, <2>2, <2>3, <2>4, OneRequestMoves
    <2>6. QED
      BY <1>1, <1>9, <2>5 DEF Restaurants!validate_zone, Restaurants!history
  <1>10. ASSUME NEW d \in n.desks, NEW target \in EstablishmentStatus(n), Restaurants(n)!transition_to(d, target) PROVE Goal
    <2> DEFINE q == requests[d]
               asked == Restaurants(n)!asked(q)
               kept == IF target = "active" THEN asked ELSE Restaurants(n)!NoSetup
               new == [kind |-> q.kind, at |-> "judged", of |-> q.of, row |-> q.row, read |-> kept, to |-> target]
    <2>1. /\ q = [kind |-> q.kind, at |-> q.at, of |-> q.of, row |-> q.row, read |-> q.read, to |-> q.to]
          /\ q.of \in n.restaurants /\ q.row \in Row(n, EstablishmentStatus(n)) /\ q.kind = "status"
      BY <1>6, <1>10 DEF Restaurants!transition_to
    <2>2. requests' = [requests EXCEPT ![d] = [q EXCEPT !.at = "judged", !.to = target, !.read = kept]]
      BY <1>10 DEF Restaurants!transition_to
    <2>3. /\ Restaurants(n)!declared(q, target)
          /\ target = "active" => ~ Restaurants(n)!configuration_gaps(q.of, asked)
      BY <1>10 DEF Restaurants!transition_to, Restaurants!publishable
    <2> HIDE DEF q, asked
    <2>4. [q EXCEPT !.at = "judged", !.to = target, !.read = kept] = new
      <3> HIDE DEF kept
      <3>1. [q EXCEPT !.at = "judged", !.to = target, !.read = kept] \in
              [kind : {q.kind}, at : {"judged"}, of : {q.of}, row : {q.row}, read : {kept}, to : {target}]
        BY <2>1
      <3>2. QED
        BY <3>1, RequestFields
    <2>5. Restaurants(n)!declared(new, target)
      BY <2>3 DEF Restaurants!declared
    <2>6. target = "active" => new.read = asked
      OBVIOUS
    <2>7. UnderWay(n, new)
      BY <2>1, <2>3, <2>5, <2>6 DEF UnderWay, Decided
    <2>8. RequestsInv(n)'
      BY <1>0, <2>2, <2>4, <2>7, OneRequestMoves
    <2>9. QED
      BY <1>1, <1>10, <2>8 DEF Restaurants!transition_to, Restaurants!history
  <1>11. ASSUME NEW d \in n.desks, Restaurants(n)!refused(d) PROVE Goal
    BY <1>1, <1>7, <1>11 DEF Restaurants!refused, Restaurants!history
  <1>12. ASSUME NEW d \in n.desks, Restaurants(n)!perform_update(d) PROVE Goal
    <2> DEFINE q == requests[d]
               new == [status |-> q.row.status, active |-> q.row.status = "active", zone |-> q.to]
    <2>1. /\ rows_restau' = [rows_restau EXCEPT ![q.of] = new] /\ complete' = complete /\ overtaken' = overtaken
          /\ crossed_restau' = Restaurants(n)!Crossing(q) /\ requests' = [requests EXCEPT ![d] = Restaurants(n)!Idle]
          /\ q.kind = "update" /\ q.at = "judged"
      BY <1>12 DEF Restaurants!perform_update
    <2>2. q.of \in n.restaurants /\ q.row \in Row(n, EstablishmentStatus(n)) /\ q.to \in n.zones /\ RequestsInv(n)'
      BY <1>6, <1>7, <2>1 DEF Decided
    <2>3. new.status = q.row.status /\ (new.active <=> (new.status = "active"))
      OBVIOUS
    <2>4. new \in Row(n, EstablishmentStatus(n))
      <3>1. q.row.status \in EstablishmentStatus(n)
        BY <2>2 DEF Row
      <3>2. \A flag \in BOOLEAN : [status |-> q.row.status, active |-> flag, zone |-> q.to] \in Row(n, EstablishmentStatus(n))
        BY <2>2, <3>1 DEF Row
      <3>3. (q.row.status = "active") \in BOOLEAN
        OBVIOUS
      <3>4. QED
        BY <3>2, <3>3
    <2> HIDE DEF new, q
    <2>5. /\ \A x \in n.restaurants : x \in crossed_restau => x \in crossed_restau'
          /\ q.of \in crossed_restau' \/ q.row = rows_restau[q.of]
      BY <1>8, <2>1, <2>2
    <2>6. rows_restau[q.of].status \in Restaurants(n)!KNOWN_TO_CUSTOMERS => q.of \in complete \cup overtaken \/ q.of \in crossed_restau
      BY <2>2 DEF EstablishmentInv, Restaurants!KnownKitchenWasComplete
    <2>7. QED
      BY <2>1, <2>2, <2>3, <2>4, <2>5, <2>6, OneRowWritten
  <1>13. ASSUME NEW d \in n.desks, Restaurants(n)!save(d) PROVE Goal
    <2> DEFINE q == requests[d]
               new == Restaurants(n)!saved(q)
    <2>1. /\ rows_restau' = [rows_restau EXCEPT ![q.of] = new]
          /\ q.to = "active" =>
               /\ complete' = IF Restaurants(n)!configuration_gaps(q.of, Restaurants(n)!SetupOf(q.of)) THEN complete \ {q.of}
                              ELSE complete \cup {q.of}
               /\ overtaken' = IF q.read # Restaurants(n)!SetupOf(q.of) THEN overtaken \cup {q.of} ELSE overtaken
          /\ q.to # "active" => complete' = complete /\ overtaken' = overtaken
          /\ crossed_restau' = Restaurants(n)!Crossing(q) /\ requests' = [requests EXCEPT ![d] = Restaurants(n)!Idle]
          /\ q.kind = "status" /\ q.at = "judged"
      BY <1>13 DEF Restaurants!save
    <2>2. /\ q.of \in n.restaurants /\ q.row \in Row(n, EstablishmentStatus(n)) /\ RequestsInv(n)'
          /\ q.to \in EstablishmentStatus(n) /\ Restaurants(n)!declared(q, q.to)
          /\ q.to = "active" => ~ Restaurants(n)!configuration_gaps(q.of, q.read)
      BY <1>6, <1>7, <2>1 DEF Decided
    <2> HIDE DEF q
    <2>3. rows_restau[q.of] \in Row(n, EstablishmentStatus(n) \cup {"none"})
      BY <1>0, <2>2
    <2>4. new.status = q.to /\ new \in Row(n, EstablishmentStatus(n))
      <3>1. ASSUME NEW flag \in BOOLEAN
            PROVE  LET set == [rows_restau[q.of] EXCEPT !.status = q.to, !.active = flag] IN
                   set.status = q.to /\ set \in Row(n, EstablishmentStatus(n))
        BY <2>2, <2>3 DEF Row
      <3>2. LET kept == [rows_restau[q.of] EXCEPT !.status = q.to] IN
            kept.status = q.to /\ kept \in Row(n, EstablishmentStatus(n))
        BY <2>2, <2>3 DEF Row
      <3>3. (q.to = "active") \in BOOLEAN
        OBVIOUS
      <3>4. QED
        BY <3>1, <3>2, <3>3 DEF Restaurants!saved
    <2>5. /\ \A x \in n.restaurants : x \in crossed_restau => x \in crossed_restau'
          /\ q.of \in crossed_restau' \/ q.row = rows_restau[q.of]
      BY <1>8, <2>1, <2>2
    <2>6. q.row = rows_restau[q.of] => (new.active <=> (q.to = "active"))
      <3>1. CASE q.row.active # (q.to = "active")
        BY <2>3, <3>1 DEF Restaurants!saved, Row
      <3>2. CASE q.row.active = (q.to = "active") /\ q.row = rows_restau[q.of]
        <4>1. new = [rows_restau[q.of] EXCEPT !.status = q.to]
          BY <3>2 DEF Restaurants!saved
        <4>2. new.active = rows_restau[q.of].active
          BY <2>3, <4>1 DEF Row
        <4>3. QED
          BY <3>2, <4>2
      <3>3. QED
        BY <3>1, <3>2
    <2>7. q.row.status \in EstablishmentStatus(n) /\ Restaurants(n)!can(Restaurants(n)!RESTAURANT_TRANSITIONS, q.row.status, q.to)
      BY <2>2 DEF Restaurants!declared, Row
    <2>8. q.to = "active" => q.of \in complete' \cup overtaken'
      BY <2>1, <2>2
    <2>9. q.to = "inactive" => q.row.status = "active"
      BY <2>7 DEF Restaurants!can, EstablishmentStatus, Restaurants!RESTAURANT_TRANSITIONS
    <2>10. \A x \in n.restaurants \ {q.of} : x \in complete \cup overtaken => x \in complete' \cup overtaken'
      BY <2>1
    <2>11. rows_restau[q.of].status = "active" => q.of \in complete \cup overtaken \/ q.of \in crossed_restau
      BY <2>2 DEF EstablishmentInv, Restaurants!KnownKitchenWasComplete, Restaurants!KNOWN_TO_CUSTOMERS
    <2>12. q.of \in crossed_restau' \/ (q.to \in Restaurants(n)!KNOWN_TO_CUSTOMERS => q.of \in complete' \cup overtaken')
      BY <2>1, <2>2, <2>5, <2>8, <2>9, <2>11 DEF Restaurants!KNOWN_TO_CUSTOMERS
    <2>13. "none" \notin EstablishmentStatus(n)
      BY DEF EstablishmentStatus, Restaurants!RESTAURANT_TRANSITIONS
    <2> HIDE DEF new
    <2>14. QED
      BY <2>1, <2>2, <2>4, <2>5, <2>6, <2>7, <2>10, <2>12, <2>13, OneRowWritten
  <1>14. ASSUME NEW r \in n.restaurants, NEW s \in n.settings, Restaurants(n)!configure(r, s) PROVE Goal
    BY <1>0, <1>1, <1>14 DEF Restaurants!configure, Restaurants!history
  <1>15. ASSUME NEW z \in n.zones, NEW r \in n.restaurants, Restaurants(n)!create_zone(z, r) PROVE Goal
    BY <1>0, <1>1, <1>15 DEF Restaurants!create_zone, Restaurants!history
  <1>16. ASSUME NEW z \in n.zones, NEW r \in n.restaurants, NEW covers \in {{}, n.restaurants}, Restaurants(n)!update_zone(z, r, covers)
         PROVE  Goal
    BY <1>0, <1>1, <1>16 DEF Restaurants!update_zone, Restaurants!history
  <1>17. ASSUME NEW z \in n.zones, Restaurants(n)!perform_destroy(z) PROVE Goal
    BY <1>0, <1>1, <1>17 DEF Restaurants!perform_destroy, Restaurants!history
  <1>18. CASE Restaurants(n)!update_market
    BY <1>0, <1>1, <1>18 DEF Restaurants!update_market, Restaurants!history
  <1>19. QED
    <2>1. ASSUME NEW r \in n.restaurants,
                 \/ \E z \in n.zones : Restaurants(n)!perform_create(r, z)
                 \/ \E source \in n.restaurants \ {r}, z \in n.zones, sections \in SUBSET (n.settings \ {"staff"}) :
                      Restaurants(n)!duplicate(source, r, z, sections)
                 \/ \E d \in n.desks, kind \in {"update", "status"} : Restaurants(n)!get_object(d, r, kind)
                 \/ \E s \in n.settings : Restaurants(n)!configure(r, s)
          PROVE  Goal
      BY <1>3, <1>4, <1>5, <1>14, <2>1
    <2>2. ASSUME NEW d \in n.desks,
                 \/ \E z \in n.zones : Restaurants(n)!validate_zone(d, z)
                 \/ \E target \in EstablishmentStatus(n) : Restaurants(n)!transition_to(d, target)
                 \/ Restaurants(n)!perform_update(d) \/ Restaurants(n)!save(d) \/ Restaurants(n)!refused(d)
          PROVE  Goal
      BY <1>9, <1>10, <1>11, <1>12, <1>13, <2>2
    <2>3. ASSUME NEW z \in n.zones,
                 \/ \E r \in n.restaurants : Restaurants(n)!create_zone(z, r)
                 \/ \E r \in n.restaurants, covers \in {{}, n.restaurants} : Restaurants(n)!update_zone(z, r, covers)
                 \/ Restaurants(n)!perform_destroy(z)
          PROVE  Goal
      BY <1>15, <1>16, <1>17, <2>3
    <2>4. QED
      BY <1>2, <1>18, <2>1, <2>2, <2>3 DEF Restaurants!Next, EstablishmentStatus

-----------------------------------------------------------------------------
(* The routes *)

\* Kinds of rows that only customers begin.
Ordered == {"order", "transaction", "call", "ticket", "complaint", "return"}

\* Kinds of which some rows hold everywhere, and only the head office writes
\* these.
Everywhere == Routes!National \cup {"market", "ingredient", "campaign"}

RowOf(kind) == [restaurant : Routes!Place(kind), customer : Routes!Account, courier : Courier]

\* The rows are of their kind; the last announcement told one of those it
\* names.
RoutesInv ==
  /\ clerk \in Rights
  /\ on \in Routes!Kitchen \cup Routes!National \cup Routes!Brand
  /\ row # None => row \in RowOf(on)
  /\ row # None /\ on \in Ordered => row.customer \in Customer
  /\ last # None /\ last.op = "announce" => row # None /\ last.told \in Routes!Told

-----------------------------------------------------------------------------
(* On what grounds a view lets a request through *)

\* An active member of the staff, who may write if the request does.
Entitled(q) ==
  /\ Routes!IsStaff(q.by)
  /\ q.op \in Routes!Writes \ {"notes"} => \E permission \in Routes!WriteCodes : Routes!has_permission(q.by, permission)

\* The shop's windows are open to all.
Window(q) == on \in Routes!Shop /\ q.op = "read"

\* A row one is the customer or the courier of.
Personal(q) ==
  /\ Routes!active_user(q.by) /\ (Routes!own(q) \/ Routes!course(q))
  /\ q.op \notin {"create", "preview", "update"} /\ on \notin Everywhere
  /\ \/ Routes!IsCustomer(q.by) \/ Routes!IsCourier(q.by)
     \/ on \in Ordered \/ on \in {"address", "preference", "notification"}

\* A row one begins.
Begun(q) ==
  /\ q.op \in {"create", "preview"} /\ on \notin Everywhere
  /\ \/ Routes!IsCustomer(q.by)
     \/ Routes!IsCourier(q.by) /\ on = "withdrawal"
     \/ Routes!active_user(q.by) /\ on = "address"

\* An application, by anybody.
Applied(q) == on = "courier" /\ q.op = "create"

\* A row of one's perimeter.
Kept(q) == Entitled(q) /\ Routes!shown(q) /\ q.op \notin {"create", "preview", "update"}

\* A row brought into one's perimeter, or moved within it.
Placed(q) ==
  /\ Entitled(q) /\ Routes!is_in_scope(q.by, q.to) /\ on \notin Ordered
  /\ q.op = "create" \/ (q.op = "update" /\ Routes!shown(q))

\* A restaurant opened in one's area.
Opening(q) ==
  on = "restaurant" /\ q.op = "create" /\ Entitled(q) /\ Routes!assert_can_open_in_zone(q.by, q.to)

\* A row of the brand.
Branded(q) ==
  /\ Entitled(q)
  /\ on \in Routes!Brand \/ (on = "reward" /\ q.op = "read")
  /\ q.op \in {"create", "update"} => on \notin Ordered
  /\ on \in Everywhere /\ q.op \in Routes!Writes => Routes!is_unscoped(q.by)

\* A reward exchanged.
Redeemed(q) == on = "reward" /\ q.op = "redeem" /\ Routes!IsCustomer(q.by)

Ground(q) ==
  \/ Window(q) \/ Personal(q) \/ Begun(q) \/ Applied(q) \/ Kept(q)
  \/ Placed(q) \/ Opening(q) \/ Branded(q) \/ Redeemed(q)

LEMMA LooksAreNoWrites == Routes!Looks \cap Routes!Writes = {}
  BY DEF Routes!Looks, Routes!Writes

LEMMA StaffHasPermission ==
  ASSUME NEW u, NEW codes, Routes!HasPermission(u, codes)
  PROVE  Routes!IsStaff(u) /\ \E permission \in codes : Routes!has_permission(u, permission)
  BY DEF Routes!HasPermission, Routes!has_permission, Routes!IsStaff

\* Reading, or with a code that writes.
LEMMA KeptByDoes ==
  ASSUME NEW q, NEW ops, NEW codes, Routes!Does(q, ops, codes),
         ops \subseteq (Routes!Looks \ {"preview"}) \cup {"notes"}
           \/ (codes \subseteq Routes!WriteCodes /\ ops \cap {"create", "preview", "update"} = {})
  PROVE  Kept(q)
  <1>1. q.op \in ops /\ Routes!HasPermission(q.by, codes) /\ Routes!shown(q)
    BY DEF Routes!Does
  <1>2. Entitled(q)
    BY <1>1, StaffHasPermission, LooksAreNoWrites DEF Entitled
  <1>3. q.op \notin {"create", "preview", "update"}
    <2>1. "create" \notin Routes!Looks /\ "update" \notin Routes!Looks
      BY DEF Routes!Looks
    <2>2. QED
      BY <1>1, <2>1
  <1>4. QED
    BY <1>1, <1>2, <1>3 DEF Kept

LEMMA PlacedByPlaces ==
  ASSUME NEW q, NEW codes, Routes!Places(q, codes), codes \subseteq Routes!WriteCodes, on \notin Ordered
  PROVE  Placed(q)
  BY StaffHasPermission DEF Routes!Places, Placed, Entitled

\* One of the codes, in the brand's own kinds.
LEMMA BrandedBySiege ==
  ASSUME NEW q, NEW read, NEW write, Routes!Siege(q, read, write), write \subseteq Routes!WriteCodes, on \in Routes!Brand \ Ordered
  PROVE  Branded(q)
  <1>1. "read" \notin Routes!Writes
    BY DEF Routes!Writes
  <1>2. QED
    BY <1>1, StaffHasPermission DEF Routes!Siege, Branded, Entitled

\* The search keeps to the perimeter, but for customers, who have none.
LEMMA SearchedIsKept ==
  ASSUME NEW q, NEW permission, Routes!SearchService(q, permission), on # "customer"
  PROVE  Kept(q)
  <1>1. "search" \notin Routes!Writes
    BY DEF Routes!Writes
  <1>2. QED
    BY <1>1 DEF Routes!SearchService, Routes!SearchView, Kept, Entitled

\* Orders.
LEMMA OrderViews ==
  ASSUME NEW q, on = "order", Routes!Served(q)
  PROVE  Ground(q)
  <1>1. on \notin Everywhere /\ on \in Ordered /\ on \notin Routes!Brand /\ on # "reward" /\ on # "customer"
    BY DEF Everywhere, Ordered, Routes!National, Routes!Brand
  <1>2. CASE \/ Routes!OrderViewSet(q) \/ Routes!InitiatePaymentView(q) \/ Routes!SplitPaymentView(q)
             \/ Routes!OrderTrackingView(q) \/ Routes!PlaceCallView(q)
    BY <1>1, <1>2 DEF Routes!OrderViewSet, Routes!InitiatePaymentView, Routes!SplitPaymentView,
      Routes!OrderTrackingView, Routes!PlaceCallView,
      Routes!IsCustomer, Ground, Personal, Begun
  <1>3. CASE Routes!OrderChatConsumer(q)
    BY <1>1, <1>3 DEF Routes!OrderChatConsumer, Ground, Personal
  <1>4. CASE Routes!OrderTrackingConsumer(q)
    <2>1. {"listen"} \subseteq Routes!Looks \ {"preview"}
      BY DEF Routes!Looks
    <2>2. CASE Routes!Does(q, {"listen"}, {"orders.read"})
      BY <2>1, <2>2, KeptByDoes DEF Ground
    <2>3. QED
      BY <1>1, <1>4, <2>2 DEF Routes!OrderTrackingConsumer, Ground, Personal, Routes!IsCourier
  <1>5. CASE Routes!ManagedOrderViewSet(q)
    <2>1. {"read"} \subseteq Routes!Looks \ {"preview"} /\ {"kitchen"} \subseteq Routes!Looks \ {"preview"}
      BY DEF Routes!Looks
    <2>2. {"orders.update_status"} \subseteq Routes!WriteCodes /\ {"orders.cancel"} \subseteq Routes!WriteCodes
      BY DEF Routes!WriteCodes
    <2>3. Kept(q)
      BY <1>5, <2>1, <2>2, KeptByDoes DEF Routes!ManagedOrderViewSet, Routes!kitchen, Routes!notes,
        Routes!update_status, Routes!cancel
    <2>4. QED
      BY <2>3 DEF Ground
  <1>6. CASE Routes!RefundView(q) \/ Routes!OfferAssignmentView(q)
    <2>1. {"orders.refund"} \subseteq Routes!WriteCodes /\ {"orders.assign_courier"} \subseteq Routes!WriteCodes
      BY DEF Routes!WriteCodes
    <2>2. Kept(q)
      BY <1>6, <2>1, KeptByDoes DEF Routes!RefundView, Routes!OfferAssignmentView
    <2>3. QED
      BY <2>2 DEF Ground
  <1>7. CASE \/ Routes!RevenueReportView(q) \/ Routes!NetworkReportView(q)
             \/ Routes!CustomerStatsView(q) \/ Routes!SearchService(q, "orders.read")
    <2>1. "report" \notin Routes!Writes /\ "search" \notin Routes!Writes
      BY DEF Routes!Writes
    <2>2. Kept(q)
      BY <1>1, <1>7, <2>1, StaffHasPermission DEF Routes!RevenueReportView, Routes!NetworkReportView,
        Routes!CustomerStatsView, Routes!SearchService,
        Routes!SearchView, Routes!resolve_perimetre, Kept, Entitled
    <2>3. QED
      BY <2>2 DEF Ground
  <1>8. QED
    BY <1>2, <1>3, <1>4, <1>5, <1>6, <1>7 DEF Routes!Served

\* Courses, files, money and calls.
LEMMA CourierViews ==
  ASSUME NEW q, on \in {"transaction", "withdrawal", "refund", "courier", "course", "shift", "call"}, Routes!Served(q)
  PROVE  Ground(q)
  <1>0. on \notin Everywhere /\ on \notin Routes!Brand /\ on \notin {"reward", "customer"}
    BY DEF Everywhere, Routes!National, Routes!Brand
  <1>1. /\ {"read"} \subseteq Routes!Looks \ {"preview"} /\ {"available"} \subseteq Routes!Looks \ {"preview"}
        /\ {"listen"} \subseteq Routes!Looks \ {"preview"}
    BY DEF Routes!Looks
  <1>2. /\ {"payouts.settle"} \subseteq Routes!WriteCodes /\ {"orders.refund"} \subseteq Routes!WriteCodes
        /\ {"couriers.approve"} \subseteq Routes!WriteCodes /\ {"couriers.suspend"} \subseteq Routes!WriteCodes
        /\ {"couriers.write"} \subseteq Routes!WriteCodes /\ {"orders.assign_courier"} \subseteq Routes!WriteCodes
    BY DEF Routes!WriteCodes
  <1>3. CASE on = "transaction" /\ Routes!TransactionViewSet(q)
    <2>1. CASE Routes!IsStaff(q.by)
      <3>1. Kept(q)
        BY <1>3, <2>1, <1>1, LooksAreNoWrites DEF Routes!TransactionViewSet, Kept, Entitled
      <3>2. QED
        BY <3>1 DEF Ground
    <2>2. CASE ~ Routes!IsStaff(q.by)
      BY <1>0, <1>3, <2>2 DEF Routes!TransactionViewSet, Ground, Personal, Ordered
    <2>3. QED
      BY <2>1, <2>2
  <1>4. CASE on = "withdrawal" /\ Routes!WithdrawalView(q)
    BY <1>0, <1>4 DEF Routes!WithdrawalView, Ground, Personal, Begun, Routes!IsCourier
  <1>5. CASE on = "withdrawal" /\ Routes!ManagedWithdrawalViewSet(q)
    BY <1>5, <1>1, <1>2, KeptByDoes DEF Routes!ManagedWithdrawalViewSet, Ground
  <1>6. CASE on = "refund" /\ Routes!ManagedRefundViewSet(q)
    BY <1>6, <1>1, <1>2, KeptByDoes DEF Routes!ManagedRefundViewSet, Ground
  <1>7. CASE on = "courier" /\ (Routes!CourierApplicationView(q) \/ Routes!CourierProfileView(q) \/ Routes!CourierEarningsView(q)
                                \/ Routes!CourierOnlineView(q) \/ Routes!CourierFeedConsumer(q))
    BY <1>0, <1>7 DEF Routes!CourierApplicationView, Routes!CourierProfileView, Routes!CourierEarningsView,
      Routes!CourierOnlineView,
      Routes!CourierFeedConsumer, Ground, Personal, Applied, Routes!IsCourier
  <1>8. CASE on = "courier" /\ Routes!StaffCourierViewSet(q)
    <2>1. CASE Routes!Places(q, {"couriers.write"})
      BY <1>8, <2>1, <1>2, PlacedByPlaces DEF Ordered, Ground
    <2>2. CASE ~ Routes!Places(q, {"couriers.write"})
      BY <1>8, <2>2, <1>1, <1>2, KeptByDoes DEF Routes!StaffCourierViewSet, Routes!zones, Routes!verification, Ground
    <2>3. QED
      BY <2>1, <2>2
  <1>9. CASE on = "courier" /\ Routes!SearchService(q, "couriers.read")
    BY <1>0, <1>9, SearchedIsKept DEF Ground
  <1>10. CASE on = "course" /\ (Routes!AssignmentViewSet(q) \/ Routes!PingView(q) \/ Routes!OrderRatingView(q))
    BY <1>0, <1>10 DEF Routes!AssignmentViewSet, Routes!PingView, Routes!OrderRatingView, Ground, Personal,
      Routes!IsCourier, Routes!IsCustomer
  <1>11. CASE on = "course" /\ (Routes!CancelAssignmentView(q) \/ Routes!ManagedAssignmentViewSet(q))
    BY <1>11, <1>1, <1>2, KeptByDoes DEF Routes!CancelAssignmentView, Routes!ManagedAssignmentViewSet, Ground
  <1>12. CASE on = "shift" /\ Routes!CourierShiftViewSet(q)
    <2>1. CASE Routes!Places(q, {"couriers.write"})
      BY <1>12, <2>1, <1>2, PlacedByPlaces DEF Ordered, Ground
    <2>2. CASE ~ Routes!Places(q, {"couriers.write"})
      BY <1>12, <2>2, <1>1, <1>2, KeptByDoes DEF Routes!CourierShiftViewSet, Ground
    <2>3. QED
      BY <2>1, <2>2
  <1>13. CASE on = "call" /\ Routes!CallViewSet(q)
    BY <1>0, <1>13 DEF Routes!CallViewSet, Ground, Personal, Ordered
  <1>14. QED
    BY <1>3, <1>4, <1>5, <1>6, <1>7, <1>8, <1>9, <1>10, <1>11, <1>12, <1>13 DEF Routes!Served

\* Establishments and the map.
LEMMA RestaurantViews ==
  ASSUME NEW q, on \in {"restaurant", "hours", "closure", "zone", "market", "audit"}, Routes!Served(q)
  PROVE  Ground(q)
  <1>0. on \notin {"reward", "customer"} /\ on \notin Ordered
    BY DEF Ordered
  <1>1. {"read"} \subseteq Routes!Looks \ {"preview"} /\ {"listen"} \subseteq Routes!Looks \ {"preview"}
    BY DEF Routes!Looks
  <1>2. {"restaurants.write"} \subseteq Routes!WriteCodes /\ {"restaurants.write", "restaurants.operate"} \subseteq Routes!WriteCodes
    BY DEF Routes!WriteCodes
  <1>3. CASE Routes!OPERATION_PERMISSION(q)
    <2>1. CASE Routes!Places(q, {"restaurants.write", "restaurants.operate"})
      BY <1>0, <2>1, <1>2, PlacedByPlaces DEF Ground
    <2>2. CASE ~ Routes!Places(q, {"restaurants.write", "restaurants.operate"})
      BY <1>3, <2>2, <1>1, <1>2, KeptByDoes DEF Routes!OPERATION_PERMISSION, Ground
    <2>3. QED
      BY <2>1, <2>2
  <1>4. CASE on = "restaurant" /\ Routes!ManagedRestaurantViewSet(q)
    <2>1. CASE Routes!perimeter(q)
      <3>1. "perimeter" \notin Routes!Writes
        BY DEF Routes!Writes
      <3>2. QED
        BY <2>1, <3>1 DEF Routes!perimeter, Ground, Kept, Entitled
    <2>2. CASE q.op = "create" /\ Routes!HasPermission(q.by, {"restaurants.write"}) /\ Routes!assert_can_open_in_zone(q.by, q.to)
      BY <1>4, <2>2, <1>2, StaffHasPermission DEF Opening, Entitled, Ground
    <2>3. CASE /\ ~ Routes!perimeter(q)
               /\ ~ (/\ q.op = "create" /\ Routes!HasPermission(q.by, {"restaurants.write"})
                     /\ Routes!assert_can_open_in_zone(q.by, q.to))
      BY <1>4, <2>3, <1>1, <1>2, KeptByDoes DEF Routes!ManagedRestaurantViewSet, Ground
    <2>4. QED
      BY <2>1, <2>2, <2>3
  <1>5. CASE on \in {"restaurant", "hours"} /\ Routes!RestaurantViewSet(q)
    BY <1>5 DEF Routes!RestaurantViewSet, Ground, Window, Routes!Shop
  <1>6. CASE on = "restaurant" /\ Routes!RestaurantDashboardConsumer(q)
    BY <1>6, <1>1, KeptByDoes DEF Routes!RestaurantDashboardConsumer, Ground
  <1>7. CASE on = "market" /\ (Routes!_SiegeViewSet(q) \/ Routes!CountryViewSet(q))
    BY <1>0, <1>7, <1>2, BrandedBySiege DEF Routes!_SiegeViewSet, Routes!CountryViewSet, Ground, Window, Routes!Shop,
      Routes!Brand
  <1>8. CASE on = "audit" /\ Routes!AuditEntryViewSet(q)
    BY <1>8, <1>1, KeptByDoes DEF Routes!AuditEntryViewSet, Ground
  <1>9. QED
    BY <1>3, <1>4, <1>5, <1>6, <1>7, <1>8
    DEF Routes!Served, Routes!ManagedOpeningHoursViewSet, Routes!ManagedKitchenClosureViewSet,
      Routes!ManagedRestaurantZoneViewSet

\* The catalogue and the raw materials.
LEMMA CatalogViews ==
  ASSUME NEW q, Routes!Served(q),
         on \in {"category", "menu_item", "option_group", "option", "variant", "template", "review",
                 "ingredient", "stock", "movement", "adjustment", "recipe"}
  PROVE  Ground(q)
  <1>0. on \notin {"reward", "customer"} /\ on \notin Ordered /\ (on # "ingredient" => on \notin Everywhere)
    BY DEF Ordered, Everywhere, Routes!National
  <1>1. {"read"} \subseteq Routes!Looks \ {"preview"}
    BY DEF Routes!Looks
  <1>2. /\ {"catalog.write"} \subseteq Routes!WriteCodes /\ {"inventory.write"} \subseteq Routes!WriteCodes
        /\ {"inventory.receive"} \subseteq Routes!WriteCodes /\ {"inventory.adjust"} \subseteq Routes!WriteCodes
        /\ {"inventory.approve"} \subseteq Routes!WriteCodes /\ {"recipes.write"} \subseteq Routes!WriteCodes
    BY DEF Routes!WriteCodes
  <1>3. CASE Routes!Places(q, {"catalog.write"}) \/ Routes!Places(q, {"inventory.write"}) \/ Routes!Places(q, {"recipes.write"})
    BY <1>0, <1>3, <1>2, PlacedByPlaces DEF Ground
  <1>4. CASE ~ (Routes!Places(q, {"catalog.write"}) \/ Routes!Places(q, {"inventory.write"}) \/ Routes!Places(q, {"recipes.write"}))
    <2>1. CASE Routes!CATALOG_PERMISSION(q)
      BY <1>4, <2>1, <1>1, <1>2, KeptByDoes DEF Routes!CATALOG_PERMISSION, Ground
    <2>2. CASE on = "category" /\ Routes!ManagedCategoryViewSet(q)
      BY <2>1, <2>2, <1>2, KeptByDoes DEF Routes!ManagedCategoryViewSet, Ground
    <2>3. CASE on = "menu_item" /\ Routes!ManagedMenuItemViewSet(q)
      BY <2>1, <2>3, <1>2, KeptByDoes DEF Routes!ManagedMenuItemViewSet, Ground
    <2>4. CASE on = "menu_item" /\ Routes!SearchService(q, "catalog.read")
      BY <1>0, <2>4, SearchedIsKept DEF Ground
    <2>5. CASE on \in {"category", "menu_item"} /\ (Routes!CategoryViewSet(q) \/ Routes!MenuItemViewSet(q))
      BY <2>5 DEF Routes!CategoryViewSet, Routes!MenuItemViewSet, Ground, Window, Routes!Shop
    <2>6. CASE on = "review" /\ Routes!ReviewViewSet(q)
      BY <1>0, <2>6 DEF Routes!ReviewViewSet, Ground, Window, Routes!Shop, Begun
    <2>7. CASE on = "review" /\ Routes!ManagedReviewViewSet(q)
      BY <2>7, <1>1, <1>2, KeptByDoes DEF Routes!ManagedReviewViewSet, Ground
    <2>8. CASE on = "ingredient" /\ Routes!ManagedIngredientViewSet(q)
      BY <1>0, <2>8, <1>2, BrandedBySiege DEF Routes!ManagedIngredientViewSet, Routes!Brand, Ground
    <2>9. CASE on = "stock" /\ Routes!ManagedStockItemViewSet(q)
      BY <1>4, <2>9, <1>1, <1>2, KeptByDoes DEF Routes!ManagedStockItemViewSet, Routes!receive, Routes!declare, Ground
    <2>10. CASE on = "movement" /\ Routes!ManagedStockMovementViewSet(q)
      BY <2>10, <1>1, KeptByDoes DEF Routes!ManagedStockMovementViewSet, Ground
    <2>11. CASE on = "adjustment" /\ Routes!ManagedAdjustmentRequestViewSet(q)
      BY <2>11, <1>1, <1>2, KeptByDoes DEF Routes!ManagedAdjustmentRequestViewSet, Ground
    <2>12. CASE on = "recipe" /\ Routes!ManagedRecipeViewSet(q)
      BY <1>4, <2>12, <1>1, <1>2, KeptByDoes DEF Routes!ManagedRecipeViewSet, Ground
    <2>13. QED
      BY <2>1, <2>2, <2>3, <2>4, <2>5, <2>6, <2>7, <2>8, <2>9, <2>10, <2>11, <2>12
      DEF Routes!Served, Routes!ManagedOptionGroupViewSet, Routes!ManagedOptionViewSet, Routes!ManagedVariantViewSet,
        Routes!ManagedOptionTemplateViewSet
  <1>5. QED
    BY <1>3, <1>4

\* What customers own, and what the brand offers them.
LEMMA CustomerViews ==
  ASSUME NEW q, Routes!Served(q),
         on \in {"cart", "address", "preference", "points", "subscription", "notification", "ticket",
                 "complaint", "return", "customer", "promotion", "reward", "achievement", "campaign"}
  PROVE  Ground(q)
  <1>1. {"read"} \subseteq Routes!Looks \ {"preview"}
    BY DEF Routes!Looks
  <1>2. /\ {"support.write"} \subseteq Routes!WriteCodes /\ {"promotions.write"} \subseteq Routes!WriteCodes
        /\ {"loyalty.write"} \subseteq Routes!WriteCodes
    BY DEF Routes!WriteCodes
  <1>3. CASE on \in {"cart", "address", "preference", "points", "subscription", "notification", "ticket", "complaint", "return"}
    <2>1. on \notin Everywhere
      BY <1>3 DEF Everywhere, Routes!National
    <2>2. CASE on = "cart" /\ Routes!CartViewSet(q)
      BY <2>1, <2>2 DEF Routes!CartViewSet, Ground, Personal, Begun, Routes!IsCustomer
    <2>3. CASE on = "address" /\ Routes!AddressViewSet(q)
      BY <2>1, <2>3 DEF Routes!AddressViewSet, Ground, Personal, Begun
    <2>4. CASE on = "preference" /\ Routes!PreferenceView(q)
      BY <2>1, <2>4 DEF Routes!PreferenceView, Ground, Personal
    <2>5. CASE on = "points" /\ (Routes!PointsAccountView(q) \/ Routes!PointsEntryViewSet(q))
      BY <2>1, <2>5 DEF Routes!PointsAccountView, Routes!PointsEntryViewSet, Ground, Personal, Routes!IsCustomer
    <2>6. CASE on = "subscription" /\ Routes!SubscriptionViewSet(q)
      BY <2>1, <2>6 DEF Routes!SubscriptionViewSet, Ground, Personal, Begun, Routes!IsCustomer
    <2>7. CASE on = "notification" /\ (Routes!NotificationViewSet(q) \/ Routes!UserFeedConsumer(q))
      BY <2>1, <2>7 DEF Routes!NotificationViewSet, Routes!UserFeedConsumer, Ground, Personal
    <2>8. CASE on = "ticket" /\ Routes!SupportTicketViewSet(q)
      BY <2>1, <2>8 DEF Routes!SupportTicketViewSet, Ground, Personal, Begun, Routes!IsCustomer
    <2>9. CASE on = "ticket" /\ Routes!ManagedTicketViewSet(q)
      <3>1. "read" \notin Routes!Writes /\ "support.write" \in Routes!WriteCodes /\ on \in Routes!Brand
        BY <2>9 DEF Routes!Writes, Routes!WriteCodes, Routes!Brand
      <3>2. QED
        BY <2>1, <2>9, <3>1, StaffHasPermission DEF Routes!ManagedTicketViewSet, Ground, Branded, Entitled
    <2>10. CASE on \in {"complaint", "return"} /\ Routes!ComplaintViewSet(q)
      BY <2>1, <2>10 DEF Routes!ComplaintViewSet, Ground, Personal, Begun, Routes!IsCustomer
    <2>11. CASE on \in {"complaint", "return"} /\ Routes!ManagedComplaintViewSet(q)
      BY <2>11, <1>1, <1>2, KeptByDoes DEF Routes!ManagedComplaintViewSet, Ground
    <2>12. QED
      BY <1>3, <2>2, <2>3, <2>4, <2>5, <2>6, <2>7, <2>8, <2>9, <2>10, <2>11
        DEF Routes!Served, Routes!ReturnRequestViewSet, Routes!ManagedReturnViewSet
  <1>4. CASE on = "customer"
    <2>1. on \in Routes!Brand /\ on \notin Everywhere /\ on \notin Ordered
      BY <1>4 DEF Routes!Brand, Everywhere, Routes!National, Ordered
    <2>2. "read" \notin Routes!Writes /\ "search" \notin Routes!Writes /\ "customers.block" \in Routes!WriteCodes
      BY DEF Routes!Writes, Routes!WriteCodes
    <2>3. Entitled(q)
      BY <1>4, <2>2, StaffHasPermission
      DEF Routes!Served, Routes!CustomerViewSet, Routes!SearchService, Routes!SearchView, Entitled
    <2>4. QED
      BY <2>1, <2>3 DEF Ground, Branded
  <1>5. CASE on = "promotion" /\ Routes!ManagedPromotionViewSet(q)
    <2>1. on \notin Ordered
      BY <1>5 DEF Ordered
    <2>2. QED
      BY <1>5, <2>1, <1>1, <1>2, KeptByDoes, PlacedByPlaces DEF Routes!ManagedPromotionViewSet, Ground
  <1>6. CASE on = "reward" /\ (Routes!RewardViewSet(q) \/ Routes!ManagedRewardViewSet(q))
    <2>1. on \notin Ordered /\ on \in Routes!Shop
      BY <1>6 DEF Ordered, Routes!Shop
    <2>2. QED
      BY <1>6, <2>1, <1>2, PlacedByPlaces DEF Routes!RewardViewSet, Routes!ManagedRewardViewSet, Ground, Window,
        Redeemed
  <1>7. CASE on = "achievement" /\ (Routes!_ManagedCatalogViewSet(q) \/ Routes!AchievementViewSet(q))
    <2>1. /\ on \notin Ordered /\ on \in Routes!Shop /\ on \in Routes!Brand /\ on \notin Everywhere
          /\ "gamification.write" \in Routes!WriteCodes
      BY <1>7 DEF Ordered, Routes!Shop, Routes!Brand, Everywhere, Routes!National, Routes!WriteCodes
    <2>2. QED
      BY <1>7, <2>1, StaffHasPermission DEF Routes!_ManagedCatalogViewSet, Routes!AchievementViewSet, Ground, Window,
        Branded, Entitled
  <1>8. CASE on = "campaign" /\ Routes!CampaignViewSet(q)
    <2>1. /\ on \notin Ordered /\ on \in Routes!Brand
          /\ "read" \notin Routes!Writes /\ "stats" \notin Routes!Writes /\ "notifications.send" \in Routes!WriteCodes
      BY <1>8 DEF Ordered, Routes!Brand, Routes!Writes, Routes!WriteCodes
    <2>2. QED
      BY <1>8, <2>1, StaffHasPermission DEF Routes!CampaignViewSet, Ground, Branded, Entitled
  <1>9. QED
    BY <1>3, <1>4, <1>5, <1>6, <1>7, <1>8 DEF Routes!Served

\* Every view of the API lets a request through on one of these grounds.
LEMMA EveryViewHasItsGround ==
  ASSUME NEW q, Routes!Served(q)
  PROVE  Ground(q)
  BY OrderViews, CourierViews, RestaurantViews, CatalogViews, CustomerViews DEF Routes!Served

-----------------------------------------------------------------------------
(* The rows, and who is told *)

LEMMA RoutesInit == Routes!Init => RoutesInv
  <1> SUFFICES ASSUME Routes!Init PROVE RoutesInv
    OBVIOUS
  <1>1. row \in RowOf(on) /\ row.customer \in Customer
    BY DEF Routes!Init, RowOf, Routes!Account
  <1>2. QED
    BY <1>1 DEF Routes!Init, RoutesInv

LEMMA ToldOfTheRow ==
  ASSUME UNCHANGED <<clerk, row, on>>
  PROVE  Routes!Told' = Routes!Told
  BY DEF Routes!Told, Routes!on_order_created_for_staff, Routes!on_payment_failed, Routes!on_refund_settled,
    Routes!on_assignment_accepted,
    Routes!on_order_status_changed, Routes!on_order_status_changed_for_staff, Routes!on_payment_to_refund,
    Routes!on_assignment_offered,
    Routes!on_assignment_cancelled, Routes!on_withdrawal_requested, Routes!on_withdrawal_settled,
    Routes!on_withdrawal_failed,
    Routes!on_restaurant_status_changed, Routes!on_document_expiring, Routes!on_verification_decided,
    Routes!on_ticket_answered,
    Routes!on_ticket_status_changed, Routes!on_complaint_filed, Routes!on_complaint_decided,
    Routes!on_return_requested, Routes!on_return_decided,
    Routes!staff_to_alert, Routes!has_permission, Routes!active_user, Routes!staff_restaurant_ids,
    Routes!TheCustomer, Routes!TheCourier

\* What a request that was served leaves behind.
LEMMA ServedRow ==
  ASSUME RoutesInv, NEW q \in Routes!Request, Routes!serve(q)
  PROVE  /\ row' # None => row' \in RowOf(on) /\ (on \in Ordered => row'.customer \in Customer)
         /\ last' = [by |-> q.by, op |-> q.op] /\ q.op # "announce"
         /\ Ground(q)
         /\ row = None <=> q.op \in {"create", "preview"}
         /\ clerk' = clerk /\ on' = on
         /\ q.op = "create" /\ row' # None => row'.restaurant = q.to /\ q.to \in Routes!Place(on)
         /\ q.op = "update" /\ row' # None => row'.restaurant = q.to /\ q.to \in Routes!Place(on)
         /\ q.op \notin {"create", "update", "delete"} => row' = row
         /\ q.op = "delete" => row' = None
  <1>1. Ground(q)
    BY EveryViewHasItsGround DEF Routes!serve
  <1>2. q.op # "announce" /\ q.op \in Routes!Looks \cup Routes!Writes /\ q.by \in Routes!Account
    BY DEF Routes!Request, Routes!Looks, Routes!Writes
  <1>3. row = None <=> q.op \in {"create", "preview"}
    BY DEF Routes!serve
  <1>4. clerk' = clerk /\ on' = on /\ last' = [by |-> q.by, op |-> q.op]
    BY DEF Routes!serve
  <1>5. CASE q.op = "create"
    <2>1. q.to \in Routes!Place(on)
      BY <1>5 DEF Routes!serve
    <2>2. PICK k \in Courier : row' = [restaurant |-> q.to, customer |-> q.by, courier |-> IF q.by \in Courier THEN q.by ELSE k]
      BY <1>5 DEF Routes!serve
    <2>3. row' \in RowOf(on)
      BY <2>1, <2>2, <1>2 DEF RowOf
    <2>4. on \in Ordered => q.by \in Customer
      <3>1. SUFFICES ASSUME on \in Ordered PROVE q.by \in Customer
        OBVIOUS
      <3>2. on \notin {"withdrawal", "address", "courier", "restaurant", "reward"}
        BY <3>1 DEF Ordered
      <3>3. QED
        BY <3>1, <3>2, <1>1, <1>5 DEF Ground, Window, Personal, Begun, Applied, Kept, Placed, Opening, Branded,
          Redeemed, Routes!IsCustomer
    <2>5. QED
      BY <1>1, <1>2, <1>3, <1>4, <1>5, <2>1, <2>2, <2>3, <2>4
  <1>6. CASE q.op = "update"
    <2>1. q.to \in Routes!Place(on) /\ row # None /\ row \in RowOf(on)
      BY <1>3, <1>6 DEF Routes!serve, RoutesInv
    <2>2. row' = [row EXCEPT !.restaurant = q.to]
      BY <1>6 DEF Routes!serve
    <2>3. row' \in RowOf(on) /\ row'.customer = row.customer /\ row'.restaurant = q.to
      BY <2>1, <2>2 DEF RowOf
    <2>4. QED
      BY <1>1, <1>2, <1>3, <1>4, <1>6, <2>1, <2>3 DEF RoutesInv
  <1>7. CASE q.op = "delete"
    <2>1. row' = None
      BY <1>7 DEF Routes!serve
    <2>2. QED
      BY <1>1, <1>2, <1>3, <1>4, <1>7, <2>1
  <1>8. CASE q.op \notin {"create", "update", "delete"}
    <2>1. row' = row
      BY <1>8 DEF Routes!serve
    <2>2. QED
      BY <1>1, <1>2, <1>3, <1>4, <1>8, <2>1 DEF RoutesInv
  <1>9. QED
    BY <1>5, <1>6, <1>7, <1>8

LEMMA RoutesStep == RoutesInv /\ [Routes!NextAnnounced]_(Routes!vars) => RoutesInv'
  <1> SUFFICES ASSUME RoutesInv, [Routes!NextAnnounced]_(Routes!vars) PROVE RoutesInv'
    OBVIOUS
  <1>1. CASE UNCHANGED Routes!vars
    BY <1>1, ToldOfTheRow DEF Routes!vars, RoutesInv, RowOf, Routes!Place
  <1>2. ASSUME NEW q \in Routes!Request, Routes!serve(q) PROVE RoutesInv'
    <2>1. (last' # None /\ last'.op = "announce") => FALSE
      BY <1>2, ServedRow
    <2>2. RowOf(on)' = RowOf(on)
      BY <1>2, ServedRow DEF RowOf, Routes!Place
    <2>3. QED
      BY <1>2, <2>1, <2>2, ServedRow DEF RoutesInv
  <1>3. ASSUME NEW r \in Rights, Routes!rights_change(r) PROVE RoutesInv'
    BY <1>3 DEF Routes!rights_change, RoutesInv, RowOf, Routes!Place
  <1>4. CASE Routes!announce
    <2>1. Routes!Told' = Routes!Told /\ row # None
      BY <1>4, ToldOfTheRow DEF Routes!announce
    <2>2. last'.told \in Routes!Told
      BY <1>4 DEF Routes!announce
    <2>3. QED
      BY <1>4, <2>1, <2>2 DEF Routes!announce, RoutesInv, RowOf, Routes!Place
  <1>5. QED
    BY <1>1, <1>2, <1>3, <1>4 DEF Routes!NextAnnounced, Routes!Next

\* A step that was a request, and what was asked.
LEMMA StepOfARequest ==
  ASSUME [Routes!NextAnnounced]_(Routes!vars), NEW by, NEW ops, ops \subseteq Routes!Looks \cup Routes!Writes, Routes!Step(by, ops)
  PROVE  \E q \in Routes!Request : Routes!serve(q) /\ q.by \in by /\ q.op \in ops
  <1>1. "announce" \notin Routes!Looks \cup Routes!Writes
    BY DEF Routes!Looks, Routes!Writes
  <1>2. last' # last /\ last' # None /\ last'.by \in by /\ last'.op \in ops
    BY DEF Routes!Step
  <1>3. ~ Routes!announce
    BY <1>1, <1>2 DEF Routes!announce
  <1>4. ASSUME NEW r \in Rights, Routes!rights_change(r) PROVE FALSE
    BY <1>2, <1>4 DEF Routes!rights_change
  <1>5. PICK q \in Routes!Request : Routes!serve(q)
    BY <1>2, <1>3, <1>4 DEF Routes!NextAnnounced, Routes!Next, Routes!vars
  <1>6. last' = [by |-> q.by, op |-> q.op]
    BY <1>5 DEF Routes!serve
  <1>7. QED
    BY <1>2, <1>5, <1>6

\* The clerk is nobody's customer or courier.
LEMMA ClerkIsStaff ==
  ASSUME RoutesInv, NEW q, q.by = Clerk
  PROVE  /\ ~ Routes!IsCustomer(q.by) /\ ~ Routes!IsCourier(q.by) /\ ~ Routes!is_unscoped(q.by)
         /\ row # None => ~ Routes!course(q)
         /\ row # None /\ on \in Ordered => ~ Routes!own(q)
         /\ \A r : Routes!is_in_scope(q.by, r) => r \in Routes!staff_restaurant_ids
         /\ \A r : Routes!assert_can_open_in_zone(q.by, r) => r # None /\ city[r] \in clerk.cities
  BY RoutesAssumption DEF RoutesInv, RowOf, Routes!IsCustomer, Routes!IsCourier, Routes!is_unscoped, Routes!course,
    Routes!own, Routes!is_in_scope, Routes!assert_can_open_in_zone

LEMMA NoneIsInNoPerimeter ==
  ASSUME RoutesInv
  PROVE  None \notin Routes!staff_restaurant_ids
  BY RoutesAssumption DEF RoutesInv, Routes!staff_restaurant_ids

LEMMA RoutesKeepThePerimeter ==
  ASSUME RoutesInv, [Routes!NextAnnounced]_(Routes!vars)
  PROVE  Routes!InThePerimeter
  <1> SUFFICES ASSUME Routes!Step({Clerk}, Routes!Writes), on \in Routes!Kitchen, ~ Routes!Application,
                      NEW r \in {row, row'} \ {None}
               PROVE  r.restaurant \in Routes!staff_restaurant_ids
    BY DEF Routes!InThePerimeter
  <1>1. PICK q \in Routes!Request : Routes!serve(q) /\ q.by = Clerk /\ q.op \in Routes!Writes
    BY StepOfARequest
  <1>2. "read" \notin Routes!Writes /\ "preview" \notin Routes!Writes
    BY DEF Routes!Writes
  <1>3. on \notin {"address", "preference", "notification", "reward"} /\ on \notin Routes!Brand
    BY DEF Routes!Kitchen, Routes!Brand
  <1>4. row = None => q.op = "create"
    BY <1>1, <1>2, ServedRow
  <1>5. Ground(q) /\ ~ Window(q) /\ ~ Begun(q) /\ ~ Branded(q) /\ ~ Redeemed(q)
    BY <1>1, <1>2, <1>3, ServedRow, ClerkIsStaff DEF Window, Begun, Branded, Redeemed
  <1>6. ~ Applied(q)
    BY <1>1, ServedRow DEF Routes!Application, Applied
  <1>7. ~ Personal(q)
    BY <1>1, <1>3, <1>4, ClerkIsStaff DEF Personal
  <1>8. CASE Kept(q)
    <2>1. row # None /\ row.restaurant \in Routes!staff_restaurant_ids
      BY <1>1, <1>4, <1>8, ClerkIsStaff DEF Kept, Routes!shown
    <2>2. row' \in {row, None}
      BY <1>1, <1>8, ServedRow DEF Kept
    <2>3. QED
      BY <2>1, <2>2
  <1>9. CASE Placed(q)
    <2>1. q.to \in Routes!staff_restaurant_ids
      BY <1>1, <1>9, ClerkIsStaff DEF Placed
    <2>2. row' # None => row'.restaurant = q.to
      BY <1>1, <1>9, ServedRow DEF Placed
    <2>3. row # None => row.restaurant \in Routes!staff_restaurant_ids
      BY <1>1, <1>9, ServedRow, ClerkIsStaff DEF Placed, Routes!shown
    <2>4. QED
      BY <2>1, <2>2, <2>3
  <1>10. CASE Opening(q)
    <2>1. row = None /\ q.to # None /\ city[q.to] \in clerk.cities
      BY <1>1, <1>10, ServedRow, ClerkIsStaff DEF Opening
    <2>2. row' # None => row'.restaurant = q.to /\ q.to \in Routes!Place(on)
      BY <1>1, <1>10, ServedRow DEF Opening
    <2>3. q.to \in Routes!Place(on) => q.to \in Establishment
      BY <2>1 DEF Routes!Place
    <2>4. QED
      BY <2>1, <2>2, <2>3 DEF Routes!staff_restaurant_ids
  <1>11. QED
    BY <1>5, <1>6, <1>7, <1>8, <1>9, <1>10 DEF Ground

LEMMA RoutesKeepTheBrand ==
  ASSUME RoutesInv, [Routes!NextAnnounced]_(Routes!vars)
  PROVE  Routes!ByTheHeadOffice
  <1> SUFFICES ASSUME Routes!Step(Routes!Account, Routes!Writes \ {"redeem"}), on \in Everywhere,
                      NEW r \in {row, row'} \ {None}, r.restaurant = None
               PROVE  last'.by = HeadOffice
    BY DEF Routes!ByTheHeadOffice, Everywhere
  <1>1. PICK q \in Routes!Request : Routes!serve(q) /\ q.op \in Routes!Writes \ {"redeem"}
    BY StepOfARequest
  <1>2. "read" \notin Routes!Writes /\ "preview" \notin Routes!Writes
    BY DEF Routes!Writes
  <1>3. on \notin {"courier", "restaurant"}
    BY DEF Everywhere, Routes!National
  <1>4. Kept(q) \/ Placed(q) \/ Branded(q)
    BY <1>1, <1>2, <1>3, ServedRow DEF Ground, Window, Personal, Begun, Applied, Opening, Redeemed
  <1>5. last'.by = q.by
    BY <1>1, ServedRow
  <1>6. \A p : Routes!is_in_scope(q.by, p) => q.by = HeadOffice \/ p # None
    BY NoneIsInNoPerimeter DEF Routes!is_in_scope, Routes!is_unscoped
  <1>7. CASE Kept(q)
    <2>1. row # None /\ row' \in {row, None}
      BY <1>1, <1>7, ServedRow DEF Kept
    <2>2. QED
      BY <1>5, <1>6, <1>7, <2>1 DEF Kept, Routes!shown
  <1>8. CASE Placed(q)
    <2>1. row' # None => row'.restaurant = q.to
      BY <1>1, <1>8, ServedRow DEF Placed
    <2>2. row # None => Routes!is_in_scope(q.by, row.restaurant)
      BY <1>1, <1>8, ServedRow DEF Placed, Routes!shown
    <2>3. QED
      BY <1>5, <1>6, <1>8, <2>1, <2>2 DEF Placed
  <1>9. CASE Branded(q)
    BY <1>1, <1>5, <1>9 DEF Branded, Routes!is_unscoped
  <1>10. QED
    BY <1>4, <1>7, <1>8, <1>9

LEMMA RoutesKeepToTheirOwn ==
  ASSUME RoutesInv, [Routes!NextAnnounced]_(Routes!vars)
  PROVE  Routes!OnOnesOwnRows
  <1>1. ASSUME NEW q, Entitled(q) PROVE q.by \in {Clerk, HeadOffice} /\ Routes!active_user(q.by)
    BY <1>1 DEF Entitled, Routes!IsStaff
  <1>2. ASSUME Routes!Step(Customer \cup Courier, Routes!Looks \cup Routes!Writes), row # None, on \notin Routes!Shop
        PROVE  last'.by \in {row.customer, row.courier}
    <2>1. PICK q \in Routes!Request : Routes!serve(q) /\ q.by \in Customer \cup Courier
      BY <1>2, StepOfARequest
    <2>2. last'.by = q.by /\ Ground(q) /\ q.op \notin {"create", "preview"}
      BY <1>2, <2>1, ServedRow
    <2>3. ~ Entitled(q)
      BY <1>1, <2>1, RoutesAssumption
    <2>4. on # "reward"
      BY <1>2 DEF Routes!Shop
    <2>5. Personal(q)
      BY <1>2, <2>2, <2>3, <2>4 DEF Ground, Window, Begun, Applied, Kept, Placed, Opening, Branded, Redeemed
    <2>6. QED
      BY <2>2, <2>5 DEF Personal, Routes!own, Routes!course
  <1>3. ASSUME Routes!Step({Routes!Anonymous} \cup (IF clerk.active THEN {} ELSE {Clerk}), Routes!Looks \cup Routes!Writes)
        PROVE  Routes!Application \/ (on \in Routes!Shop /\ last'.op = "read")
    <2>1. PICK q \in Routes!Request : Routes!serve(q) /\ q.by \in {Routes!Anonymous} \cup (IF clerk.active THEN {} ELSE {Clerk})
      BY <1>3, StepOfARequest
    <2>2. last'.op = q.op /\ Ground(q) /\ (q.op = "create" => row = None)
      BY <2>1, ServedRow
    <2>3. ~ Routes!active_user(q.by)
      BY <2>1 DEF Routes!active_user
    <2>4. Window(q) \/ Applied(q)
      BY <1>1, <2>2, <2>3 DEF Ground, Personal, Begun, Kept, Placed, Opening, Branded, Redeemed, Routes!IsCustomer,
        Routes!IsCourier
    <2>5. QED
      BY <2>2, <2>4 DEF Window, Applied, Routes!Application
  <1>4. QED
    BY <1>2, <1>3 DEF Routes!OnOnesOwnRows

LEMMA ReaderWrites ==
  ASSUME clerk.role = "Reader", NEW permission \in Routes!WriteCodes
  PROVE  ~ Routes!has_permission(Clerk, permission)
  <1>1. Routes!WriteCodes \cap Routes!ReadCodes = {}
    BY DEF Routes!WriteCodes, Routes!ReadCodes
  <1>2. Routes!SYSTEM_ROLES(clerk.role) = Routes!ReadCodes
    BY DEF Routes!SYSTEM_ROLES
  <1>3. QED
    BY <1>1, <1>2, RoutesAssumption DEF Routes!has_permission

LEMMA RoutesKeepToReading ==
  ASSUME RoutesInv, [Routes!NextAnnounced]_(Routes!vars)
  PROVE  Routes!NothingByReaders
  <1> SUFFICES ASSUME Routes!Step({Clerk}, Routes!Writes \ {"notes"}), clerk.role = "Reader"
               PROVE  Routes!Application \/ on \in {"address", "preference", "notification"}
    BY DEF Routes!NothingByReaders
  <1>1. PICK q \in Routes!Request : Routes!serve(q) /\ q.by = Clerk /\ q.op \in Routes!Writes \ {"notes"}
    BY StepOfARequest
  <1>2. "read" \notin Routes!Writes /\ "preview" \notin Routes!Writes
    BY DEF Routes!Writes
  <1>3. ~ Entitled(q)
    BY <1>1, ReaderWrites DEF Entitled
  <1>4. Personal(q) \/ Begun(q) \/ Applied(q)
    BY <1>1, <1>2, <1>3, ServedRow, ClerkIsStaff DEF Ground, Window, Kept, Placed, Opening, Branded, Redeemed
  <1>5. CASE Personal(q)
    <2>1. row # None
      BY <1>1, <1>5, ServedRow DEF Personal
    <2>2. QED
      BY <1>1, <1>5, <2>1, ClerkIsStaff DEF Personal
  <1>6. CASE Begun(q)
    BY <1>1, <1>6, ClerkIsStaff DEF Begun
  <1>7. CASE Applied(q)
    BY <1>1, <1>7, ServedRow DEF Applied, Routes!Application
  <1>8. QED
    BY <1>4, <1>5, <1>6, <1>7

\* Each announcement names the row's customer, its courier, or the staff that
\* one of the permissions to read it entitles.
LEMMA AlertedMayRead ==
  ASSUME RoutesInv, NEW permission, NEW u \in Routes!staff_to_alert(permission)
  PROVE  Routes!has_permission(u, permission) /\ Routes!is_in_scope(u, row.restaurant)
  BY RoutesAssumption DEF Routes!staff_to_alert, Routes!has_permission, Routes!active_user, Routes!is_in_scope,
    Routes!is_unscoped

LEMMA CustomersAreActive ==
  ASSUME NEW u \in Customer
  PROVE  Routes!IsCustomer(u) /\ Routes!active_user(u)
  BY RoutesAssumption DEF Routes!IsCustomer, Routes!active_user

LEMMA CouriersAreActive ==
  ASSUME RoutesInv, row # None
  PROVE  Routes!IsCourier(row.courier)
  BY RoutesAssumption DEF RoutesInv, RowOf, Routes!IsCourier, Routes!active_user

LEMMA AlertedReads ==
  ASSUME RoutesInv, NEW permission, NEW u \in Routes!staff_to_alert(permission)
  PROVE  Routes!Does([by |-> u, op |-> "read", to |-> None], {"read"}, {permission})
  BY AlertedMayRead DEF Routes!Does, Routes!HasPermission, Routes!shown

LEMMA ToldMayOpen ==
  ASSUME RoutesInv
  PROVE  Routes!WhoeverIsToldCanOpenIt
  <1> DEFINE R(u) == [by |-> u, op |-> "read", to |-> None]
  <1> SUFFICES ASSUME last # None, last.op = "announce", NEW u \in last.told
               PROVE  Routes!Served(R(u))
    BY DEF Routes!WhoeverIsToldCanOpenIt
  <1>1. row # None /\ last.told \in Routes!Told
    BY DEF RoutesInv
  <1>2. on \in Ordered => row.customer \in Customer
    BY <1>1 DEF RoutesInv
  <1>3. R(u).by = u /\ R(u).op = "read"
    OBVIOUS
  <1>4. Routes!IsCourier(row.courier)
    BY <1>1, CouriersAreActive
  <1> HIDE DEF R
  <1>5. CASE on = "order"
    <2>1. u = row.customer \/ u \in Routes!staff_to_alert("orders.read")
      BY <1>1, <1>5
      DEF Routes!Told, Routes!on_order_created_for_staff, Routes!on_payment_failed, Routes!on_refund_settled,
        Routes!on_assignment_accepted,
        Routes!on_order_status_changed, Routes!on_order_status_changed_for_staff, Routes!on_payment_to_refund,
        Routes!TheCustomer
    <2>2. CASE u = row.customer
      BY <1>2, <1>3, <1>5, <2>2, CustomersAreActive DEF Ordered, Routes!Served, Routes!OrderViewSet, Routes!own
    <2>3. CASE u \in Routes!staff_to_alert("orders.read")
      BY <1>5, <2>3, AlertedReads DEF R, Routes!Served, Routes!ManagedOrderViewSet
    <2>4. QED
      BY <2>1, <2>2, <2>3
  <1>6. CASE on = "course"
    <2>1. u = row.courier
      BY <1>1, <1>6 DEF Routes!Told, Routes!on_assignment_offered, Routes!on_assignment_cancelled, Routes!TheCourier
    <2>2. QED
      BY <1>3, <1>4, <1>6, <2>1 DEF Routes!Served, Routes!AssignmentViewSet, Routes!course
  <1>7. CASE on = "withdrawal"
    <2>1. u = row.courier \/ u \in Routes!staff_to_alert("payouts.read")
      BY <1>1, <1>7 DEF Routes!Told, Routes!on_withdrawal_requested, Routes!on_withdrawal_settled,
        Routes!on_withdrawal_failed, Routes!TheCourier
    <2>2. CASE u = row.courier
      BY <1>3, <1>4, <1>7, <2>2 DEF Routes!Served, Routes!WithdrawalView, Routes!course
    <2>3. CASE u \in Routes!staff_to_alert("payouts.read")
      BY <1>7, <2>3, AlertedReads DEF R, Routes!Served, Routes!ManagedWithdrawalViewSet
    <2>4. QED
      BY <2>1, <2>2, <2>3
  <1>8. CASE on = "restaurant"
    BY <1>3, <1>8 DEF Routes!Served, Routes!RestaurantViewSet
  <1>9. CASE on = "courier"
    <2>1. u = row.courier \/ u \in Routes!staff_to_alert("couriers.read")
      BY <1>1, <1>9 DEF Routes!Told, Routes!on_document_expiring, Routes!on_verification_decided, Routes!TheCourier
    <2>2. CASE u = row.courier
      BY <1>3, <1>4, <1>9, <2>2 DEF Routes!Served, Routes!CourierProfileView, Routes!course
    <2>3. CASE u \in Routes!staff_to_alert("couriers.read")
      BY <1>9, <2>3, AlertedReads DEF R, Routes!Served, Routes!StaffCourierViewSet
    <2>4. QED
      BY <2>1, <2>2, <2>3
  <1>10. CASE on = "ticket"
    <2>1. u = row.customer
      BY <1>1, <1>10 DEF Routes!Told, Routes!on_ticket_answered, Routes!on_ticket_status_changed, Routes!TheCustomer
    <2>2. QED
      BY <1>2, <1>3, <1>10, <2>1, CustomersAreActive DEF Ordered, Routes!Served, Routes!SupportTicketViewSet,
        Routes!own
  <1>11. CASE on \in {"complaint", "return"}
    <2>1. u = row.customer \/ u \in Routes!staff_to_alert("support.read")
      BY <1>1, <1>11
      DEF Routes!Told, Routes!on_complaint_filed, Routes!on_complaint_decided, Routes!on_return_requested,
        Routes!on_return_decided, Routes!TheCustomer
    <2>2. CASE u = row.customer
      BY <1>2, <1>3, <1>11, <2>2, CustomersAreActive DEF Ordered, Routes!Served, Routes!ReturnRequestViewSet,
        Routes!ComplaintViewSet, Routes!own
    <2>3. CASE u \in Routes!staff_to_alert("support.read")
      BY <1>11, <2>3, AlertedReads DEF R, Routes!Served, Routes!ManagedReturnViewSet, Routes!ManagedComplaintViewSet
    <2>4. QED
      BY <2>1, <2>2, <2>3
  <1>12. CASE on \notin {"order", "course", "withdrawal", "restaurant", "courier", "ticket", "complaint", "return"}
    BY <1>1, <1>12 DEF Routes!Told
  <1>13. QED
    BY <1>5, <1>6, <1>7, <1>8, <1>9, <1>10, <1>11, <1>12

-----------------------------------------------------------------------------
(* Opening hours *)

\* Quotient and remainder, and that there is but one of each.
LEMMA Division ==
  ASSUME NEW y \in Nat, y > 0
  PROVE  /\ \A x \in Int : x \div y \in Int /\ x % y \in 0 .. y - 1 /\ x = (x \div y) * y + (x % y)
         /\ \A x \in Nat : x \div y \in Nat
         /\ \A q \in Int, r \in 0 .. y - 1 : (q * y + r) \div y = q /\ (q * y + r) % y = r
         /\ \A p, q \in Int : p < q => p * y + y <= q * y
  <1>1. \A x \in Int : x \div y \in Int /\ x % y \in 0 .. y - 1 /\ x = (x \div y) * y + (x % y)
    OBVIOUS
  <1>2. \A x \in Nat : x \div y \in Nat
    OBVIOUS
  <1>3. \A p, q \in Int : p < q => p * y + y <= q * y
    <2> SUFFICES ASSUME NEW p \in Int, NEW q \in Int, p < q PROVE p * y + y <= q * y
      OBVIOUS
    <2>1. \A z \in Int : z >= 1 => z * y >= y
      OBVIOUS
    <2>2. (q - p) * y >= y
      BY <2>1
    <2>3. (q - p) * y = q * y - p * y
      OBVIOUS
    <2>4. p * y \in Int /\ q * y \in Int
      OBVIOUS
    <2>5. QED
      BY <2>2, <2>3, <2>4
  <1>4. ASSUME NEW q \in Int, NEW r \in 0 .. y - 1 PROVE (q * y + r) \div y = q /\ (q * y + r) % y = r
    <2> DEFINE x == q * y + r
               p == x \div y
               s == x % y
    <2>1. x \in Int
      OBVIOUS
    <2>2. p \in Int /\ s \in 0 .. y - 1 /\ x = p * y + s
      BY <1>1, <2>1
    <2>3. p * y \in Int /\ q * y \in Int /\ x = q * y + r
      BY <2>2
    <2> HIDE DEF x, p, s
    <2>4. ~ p < q /\ ~ q < p
      BY <1>3, <2>2, <2>3
    <2>5. p = q
      BY <2>2, <2>4
    <2>6. s = r
      BY <2>2, <2>3, <2>5
    <2>7. QED
      BY <2>5, <2>6 DEF x, p, s
  <1>5. QED
    BY <1>1, <1>2, <1>3, <1>4

\* The day and the hour of an instant.
LEMMA DivisionOfNat ==
  \A t \in Nat : \E d \in Nat, h \in 0 .. DayLength - 1 : t = d * DayLength + h /\ d = t \div DayLength
  <1> TAKE t \in Nat
  <1>1. DayLength \in Nat /\ DayLength > 0
    BY HoursAssumption
  <1>2. t \div DayLength \in Nat /\ t % DayLength \in 0 .. DayLength - 1
        /\ t = (t \div DayLength) * DayLength + (t % DayLength)
    BY <1>1, Division
  <1>3. QED
    BY <1>2

\* The day before, in the week.
LEMMA Yesterday ==
  ASSUME NEW d \in Int
  PROVE  ((d % Week) + Week - 1) % Week = (d - 1) % Week
  <1> DEFINE q == d \div Week
             r == d % Week
  <1>1. Week \in Nat /\ Week > 0
    BY HoursAssumption
  <1>2. q \in Int /\ r \in 0 .. Week - 1 /\ d = q * Week + r
    BY <1>1, Division
  <1> HIDE DEF q, r
  <1>3. CASE r = 0
    <2>1. r + Week - 1 = 0 * Week + (Week - 1) /\ Week - 1 \in 0 .. Week - 1
      BY <1>1, <1>3
    <2>2. (r + Week - 1) % Week = Week - 1
      BY <1>1, <2>1, Division
    <2>3. d - 1 = (q - 1) * Week + (Week - 1)
      <3>1. (q - 1) * Week = q * Week - Week
        BY <1>1, <1>2
      <3>2. q * Week \in Int
        BY <1>1, <1>2
      <3>3. QED
        BY <1>1, <1>2, <1>3, <3>1, <3>2
    <2>4. (d - 1) % Week = Week - 1
      BY <1>1, <1>2, <2>1, <2>3, Division
    <2>5. QED
      BY <2>2, <2>4 DEF r
  <1>4. CASE r # 0
    <2>1. r - 1 \in 0 .. Week - 1 /\ r + Week - 1 = 1 * Week + (r - 1)
      BY <1>1, <1>2, <1>4
    <2>2. (r + Week - 1) % Week = r - 1
      BY <1>1, <2>1, Division
    <2>3. d - 1 = q * Week + (r - 1)
      <3>1. q * Week \in Int
        BY <1>1, <1>2
      <3>2. QED
        BY <1>1, <1>2, <3>1
    <2>4. (d - 1) % Week = r - 1
      BY <1>1, <1>2, <2>1, <2>3, Division
    <2>5. QED
      BY <2>2, <2>4 DEF r
  <1>5. QED
    BY <1>3, <1>4

\* The slot is open at the instant: the body of is_open_at.
Open(s, t) ==
  \/ s.weekday = Hours!weekday(t) /\ s.opens <= Hours!time(t) /\ (Hours!crosses_midnight(s) \/ Hours!time(t) < s.closes)
  \/ s.weekday = (Hours!weekday(t) + Week - 1) % Week /\ Hours!crosses_midnight(s) /\ Hours!time(t) < s.closes

LEMMA OpenSlots == \A k, t : Hours!is_open_at(k, t) <=> \E s \in k.slots : Open(s, t)
  BY DEF Hours!is_open_at, Open

\* The same, with the day of the instant in place of its weekday.
LEMMA OpenOnADay ==
  ASSUME NEW s \in Hours!OpeningHours, NEW t \in Int, NEW d \in Int, NEW h \in 0 .. DayLength - 1,
         t = d * DayLength + h
  PROVE  Open(s, t) <=>
           \/ s.weekday = d % Week /\ s.opens <= h /\ (s.closes < s.opens \/ h < s.closes)
           \/ s.weekday = (d - 1) % Week /\ s.closes < s.opens /\ h < s.closes
  <1>1. t \div DayLength = d /\ t % DayLength = h
    BY HoursAssumption, Division
  <1>2. QED
    BY <1>1, Yesterday DEF Open, Hours!weekday, Hours!time, Hours!crosses_midnight

\* The instants of a slot, week after week.
LEMMA InstantsOfASlot ==
  ASSUME NEW s \in Hours!OpeningHours, NEW t \in Int
  PROVE  t \in Hours!SlotInstants(s) <=>
           \E w \in -1 .. Horizon + 1 :
             /\ (w * Week + s.weekday) * DayLength + s.opens <= t
             /\ t < (w * Week + s.weekday) * DayLength + s.closes + (IF s.closes < s.opens THEN DayLength ELSE 0)
  <1>1. ASSUME NEW w \in -1 .. Horizon + 1
        PROVE  LET day == (w * Week + s.weekday) * DayLength IN
               t \in day + s.opens .. day + s.closes + (IF Hours!crosses_midnight(s) THEN DayLength ELSE 0) - 1 <=>
                 /\ day + s.opens <= t
                 /\ t < day + s.closes + (IF s.closes < s.opens THEN DayLength ELSE 0)
    <2> DEFINE day == (w * Week + s.weekday) * DayLength
    <2>1. day \in Int /\ s.opens \in Int /\ s.closes \in Int /\ DayLength \in Int
      <3>1. w \in Int /\ Week \in Int /\ DayLength \in Int
        BY HoursAssumption
      <3>2. s.weekday \in Int /\ s.opens \in Int /\ s.closes \in Int
        BY HoursAssumption DEF Hours!OpeningHours, Hours!Day
      <3>3. \A x, y \in Int : x * y \in Int
        OBVIOUS
      <3>4. w * Week \in Int
        BY <3>1, <3>3
      <3>5. w * Week + s.weekday \in Int
        BY <3>2, <3>4
      <3>6. QED
        BY <3>1, <3>2, <3>3, <3>5
    <2> HIDE DEF day
    <2>2. t \in day + s.opens .. day + s.closes + (IF Hours!crosses_midnight(s) THEN DayLength ELSE 0) - 1 <=>
            /\ day + s.opens <= t
            /\ t < day + s.closes + (IF s.closes < s.opens THEN DayLength ELSE 0)
      BY <2>1 DEF Hours!crosses_midnight
    <2>3. QED
      BY <2>2 DEF day
  <1>2. QED
    BY <1>1 DEF Hours!SlotInstants

\* A slot is open at its instants: one that began yesterday evening included.
LEMMA OpenAtItsInstants ==
  ASSUME NEW s \in Hours!OpeningHours, NEW t \in 0 .. (Week + Horizon) * DayLength
  PROVE  Open(s, t) <=> t \in Hours!SlotInstants(s)
  <1> DEFINE From(e) == e * DayLength + s.opens <= t /\ t < e * DayLength + s.closes + (IF s.closes < s.opens THEN DayLength ELSE 0)
  <1>0. DayLength \in Nat /\ DayLength > 0 /\ Week \in Nat /\ Week > 0 /\ Horizon \in Nat /\ t \in Nat
        /\ t <= (Week + Horizon) * DayLength
    BY HoursAssumption
  <1>1. PICK d \in Nat, h \in 0 .. DayLength - 1 : t = d * DayLength + h
    BY DivisionOfNat
  <1>2. s.weekday \in 0 .. Week - 1 /\ s.opens \in 0 .. DayLength - 1 /\ s.closes \in 0 .. DayLength - 1 /\ s.opens # s.closes
    BY <1>0 DEF Hours!OpeningHours, Hours!Day
  <1>3. Open(s, t) <=>
          \/ s.weekday = d % Week /\ s.opens <= h /\ (s.closes < s.opens \/ h < s.closes)
          \/ s.weekday = (d - 1) % Week /\ s.closes < s.opens /\ h < s.closes
    BY <1>1, OpenOnADay
  <1>4. t \in Hours!SlotInstants(s) <=> \E w \in -1 .. Horizon + 1 : From(w * Week + s.weekday)
    <2>1. t \in Int
      BY <1>0
    <2>2. QED
      BY <2>1, InstantsOfASlot
  <1>5. d <= Week + Horizon
    <2>1. (Week + Horizon) \in Int
      BY <1>0
    <2> DEFINE n == Week + Horizon
    <2> HIDE DEF n
    <2>2. n \in Int /\ n * DayLength \in Int /\ d * DayLength \in Int /\ t <= n * DayLength
      BY <1>0, <1>1, <2>1 DEF n
    <2>3. ~ n < d
      <3>1. n < d => n * DayLength + DayLength <= d * DayLength
        BY <1>0, <1>1, <2>2, Division
      <3>2. QED
        BY <1>0, <1>1, <2>2, <3>1
    <2>4. QED
      BY <1>1, <2>2, <2>3 DEF n
  \* The day of the slot is that of the instant, or the day before.
  <1>6. ASSUME NEW e \in Int
        PROVE  From(e) <=> \/ e = d /\ s.opens <= h /\ (s.closes < s.opens \/ h < s.closes)
                           \/ e = d - 1 /\ s.closes < s.opens /\ h < s.closes
    <2>0. e * DayLength \in Int /\ d * DayLength \in Int /\ (d - 1) * DayLength = d * DayLength - DayLength
      BY <1>0, <1>1
    <2>1. CASE e = d
      BY <1>0, <1>1, <1>2, <2>0, <2>1
    <2>2. CASE e = d - 1
      <3>1. e * DayLength = d * DayLength - DayLength
        BY <2>0, <2>2
      <3>2. QED
        BY <1>0, <1>1, <1>2, <2>0, <2>2, <3>1
    <2>3. CASE e > d
      <3>1. d * DayLength + DayLength <= e * DayLength
        BY <1>0, <1>1, <2>3, Division
      <3>2. QED
        BY <1>0, <1>1, <1>2, <2>0, <2>3, <3>1
    <2>4. CASE e < d - 1
      <3>1. e * DayLength + DayLength <= (d - 1) * DayLength
        <4>1. d - 1 \in Int
          BY <1>1
        <4>2. QED
          BY <1>0, <2>4, <4>1, Division
      <3>2. QED
        BY <1>0, <1>1, <1>2, <2>0, <2>4, <3>1
    <2>5. QED
      BY <1>1, <2>1, <2>2, <2>3, <2>4
  <1> HIDE DEF From
  \* A day in reach is that of a slot of its weekday.
  <1>7. ASSUME NEW e \in Int, -1 <= e, e <= Week + Horizon
        PROVE  s.weekday = e % Week <=> \E w \in -1 .. Horizon + 1 : e = w * Week + s.weekday
    <2> DEFINE w == e \div Week
    <2>1. w \in Int /\ e % Week \in 0 .. Week - 1 /\ e = w * Week + (e % Week)
      BY <1>0, Division
    <2>2. w \in -1 .. Horizon + 1
      <3> HIDE DEF w
      <3>1. w * Week \in Int /\ (-1) * Week = - Week /\ (Horizon + 1) * Week = Horizon * Week + Week
            /\ Horizon * Week \in Int /\ Horizon * Week >= Horizon
        <4>1. \A x, y \in Int : x * y \in Int /\ (x + 1) * y = x * y + y /\ (-1) * y = - y
          OBVIOUS
        <4>2. \A x, y \in Nat : y > 0 => x * y >= x
          OBVIOUS
        <4>3. QED
          BY <1>0, <2>1, <4>1, <4>2
      <3>2. ~ w < -1
        <4>1. w < -1 => w * Week + Week <= (-1) * Week
          BY <1>0, <2>1, Division
        <4>2. QED
          BY <1>0, <1>7, <2>1, <3>1, <4>1
      <3>3. ~ Horizon + 1 < w
        <4>1. Horizon + 1 \in Int
          BY <1>0
        <4>2. Horizon + 1 < w => (Horizon + 1) * Week + Week <= w * Week
          BY <1>0, <2>1, <4>1, Division
        <4>3. QED
          BY <1>0, <1>7, <2>1, <3>1, <4>2
      <3>4. QED
        BY <1>0, <2>1, <3>2, <3>3
    <2> HIDE DEF w
    <2>3. ASSUME NEW v \in -1 .. Horizon + 1, e = v * Week + s.weekday
          PROVE  s.weekday = e % Week
      <3>1. v \in Int
        BY <1>0
      <3>2. QED
        BY <1>0, <1>2, <2>3, <3>1, Division
    <2>4. QED
      BY <2>1, <2>2, <2>3
  <1>8. ASSUME NEW w \in -1 .. Horizon + 1 PROVE w * Week + s.weekday \in Int
    <2>1. \A x, y, z \in Int : x * y + z \in Int
      OBVIOUS
    <2>2. w \in Int /\ s.weekday \in Int
      BY <1>0, <1>2
    <2>3. QED
      BY <1>0, <2>1, <2>2
  <1>9. d \in Int /\ d - 1 \in Int /\ -1 <= d /\ -1 <= d - 1 /\ d - 1 <= Week + Horizon
    BY <1>0, <1>1, <1>5
  <1>10. Open(s, t) => t \in Hours!SlotInstants(s)
    <2>1. ASSUME s.weekday = d % Week, s.opens <= h, s.closes < s.opens \/ h < s.closes PROVE t \in Hours!SlotInstants(s)
      <3>1. PICK w \in -1 .. Horizon + 1 : d = w * Week + s.weekday
        BY <1>5, <1>7, <1>9, <2>1
      <3>2. From(d)
        BY <1>6, <1>9, <2>1
      <3>3. QED
        BY <1>4, <3>1, <3>2
    <2>2. ASSUME s.weekday = (d - 1) % Week, s.closes < s.opens, h < s.closes PROVE t \in Hours!SlotInstants(s)
      <3>1. PICK w \in -1 .. Horizon + 1 : d - 1 = w * Week + s.weekday
        BY <1>7, <1>9, <2>2
      <3>2. From(d - 1)
        BY <1>6, <1>9, <2>2
      <3>3. QED
        BY <1>4, <3>1, <3>2
    <2>3. QED
      BY <1>3, <2>1, <2>2
  <1>11. t \in Hours!SlotInstants(s) => Open(s, t)
    <2> SUFFICES ASSUME t \in Hours!SlotInstants(s) PROVE Open(s, t)
      OBVIOUS
    <2>1. PICK w \in -1 .. Horizon + 1 : From(w * Week + s.weekday)
      BY <1>4
    <2> DEFINE e == w * Week + s.weekday
    <2>2. e \in Int /\ From(e)
      BY <1>8, <2>1
    <2>3. e = w * Week + s.weekday
      OBVIOUS
    <2> HIDE DEF e
    <2>4. CASE e = d /\ s.opens <= h /\ (s.closes < s.opens \/ h < s.closes)
      <3>1. s.weekday = d % Week
        BY <1>5, <1>7, <1>9, <2>3, <2>4
      <3>2. QED
        BY <1>3, <2>4, <3>1
    <2>5. CASE e = d - 1 /\ s.closes < s.opens /\ h < s.closes
      <3>1. s.weekday = (d - 1) % Week
        BY <1>7, <1>9, <2>3, <2>5
      <3>2. QED
        BY <1>3, <2>5, <3>1
    <2>6. QED
      BY <1>6, <2>2, <2>4, <2>5
  <1>12. QED
    BY <1>10, <1>11

-----------------------------------------------------------------------------
(* What the kitchen says is what its slots and its closures make of it *)

Configured(k) == k.slots \subseteq Hours!OpeningHours /\ k.closures \subseteq Hours!KitchenClosure

LEMMA ClosedDuringAClosure ==
  ASSUME NEW k, Configured(k), NEW t \in Int
  PROVE  Hours!closure_at(k, t) <=> t \in UNION {c.starts .. c.ends - 1 : c \in k.closures}
  <1>1. \A c \in k.closures : c.starts \in Int /\ c.ends \in Int
    <2>1. \A c \in Hours!KitchenClosure : c.starts \in Int /\ c.ends \in Int
      BY DEF Hours!KitchenClosure
    <2>2. QED
      BY <2>1 DEF Configured
  <1>2. Hours!closure_at(k, t) <=> \E c \in k.closures : c.starts <= t /\ t < c.ends
    BY <1>1 DEF Hours!closure_at, Hours!closures_after
  <1>3. QED
    BY <1>1, <1>2

LEMMA InService ==
  ASSUME NEW k, Configured(k), NEW t \in 0 .. (Week + Horizon) * DayLength
  PROVE  t \in Hours!ServiceInstants(k) <=> Hours!is_open_at(k, t) /\ ~ Hours!closure_at(k, t)
  <1>1. t \in Int
    OBVIOUS
  <1>2. Hours!is_open_at(k, t) <=> \E s \in k.slots : t \in Hours!SlotInstants(s)
    BY OpenSlots, OpenAtItsInstants DEF Configured
  <1>3. t \in UNION {Hours!SlotInstants(s) : s \in k.slots} <=> \E s \in k.slots : t \in Hours!SlotInstants(s)
    OBVIOUS
  <1>4. Hours!closure_at(k, t) <=> t \in UNION {c.starts .. c.ends - 1 : c \in k.closures}
    BY <1>1, ClosedDuringAClosure
  <1> DEFINE slots == UNION {Hours!SlotInstants(s) : s \in k.slots}
             shut == UNION {c.starts .. c.ends - 1 : c \in k.closures}
  <1>5. Hours!ServiceInstants(k) = slots \ shut
    BY DEF Hours!ServiceInstants
  <1>6. (t \in slots <=> \E s \in k.slots : t \in Hours!SlotInstants(s)) /\ (Hours!closure_at(k, t) <=> t \in shut)
    BY <1>3, <1>4
  <1> HIDE DEF slots, shut
  <1>7. QED
    BY <1>2, <1>5, <1>6

\* A slot that is open, and was not an instant before, opens.
LEMMA OpensNow ==
  ASSUME NEW s \in Hours!OpeningHours, NEW t \in Nat, t > 0, Open(s, t), ~ Open(s, t - 1)
  PROVE  s.weekday = (t \div DayLength) % Week /\ t = (t \div DayLength) * DayLength + s.opens
  <1>0. DayLength \in Nat /\ DayLength > 0
    BY HoursAssumption
  <1>1. PICK d \in Nat, h \in 0 .. DayLength - 1 : t = d * DayLength + h /\ d = t \div DayLength
    BY DivisionOfNat
  <1>2. s.opens \in 0 .. DayLength - 1 /\ s.closes \in 0 .. DayLength - 1
    BY <1>0 DEF Hours!OpeningHours, Hours!Day
  <1>3. \/ s.weekday = d % Week /\ s.opens <= h /\ (s.closes < s.opens \/ h < s.closes)
        \/ s.weekday = (d - 1) % Week /\ s.closes < s.opens /\ h < s.closes
    BY <1>1, OpenOnADay
  <1>4. CASE h > 0
    <2>1. h - 1 \in 0 .. DayLength - 1 /\ t - 1 = d * DayLength + (h - 1) /\ t - 1 \in Int /\ d \in Int
      <3>1. d * DayLength \in Int
        BY <1>0, <1>1
      <3>2. QED
        BY <1>0, <1>1, <1>4, <3>1
    <2> DEFINE u == t - 1
               g == h - 1
    <2> HIDE DEF u, g
    <2>2. g \in 0 .. DayLength - 1 /\ u \in Int /\ u = d * DayLength + g /\ g = h - 1
      BY <2>1 DEF u, g
    <2>3. ~ \/ s.weekday = d % Week /\ s.opens <= g /\ (s.closes < s.opens \/ g < s.closes)
            \/ s.weekday = (d - 1) % Week /\ s.closes < s.opens /\ g < s.closes
      <3>1. ~ Open(s, u)
        BY DEF u
      <3>2. QED
        BY <2>1, <2>2, <3>1, OpenOnADay
    <2>4. s.weekday = d % Week /\ s.opens = h
      BY <1>0, <1>1, <1>2, <1>3, <2>2, <2>3
    <2>5. QED
      BY <1>1, <2>4
  <1>5. CASE h = 0
    <2>1. d - 1 \in Int /\ DayLength - 1 \in 0 .. DayLength - 1 /\ t - 1 = (d - 1) * DayLength + (DayLength - 1) /\ t - 1 \in Int
      <3>1. d * DayLength \in Int /\ (d - 1) * DayLength = d * DayLength - DayLength
        BY <1>0, <1>1
      <3>2. QED
        BY <1>0, <1>1, <1>5, <3>1
    <2> DEFINE u == t - 1
               g == DayLength - 1
               e == d - 1
    <2> HIDE DEF u, g, e
    <2>2. g \in 0 .. DayLength - 1 /\ u \in Int /\ e \in Int /\ u = e * DayLength + g /\ g = DayLength - 1 /\ e = d - 1
      BY <2>1 DEF u, g, e
    <2>3. ~ \/ s.weekday = e % Week /\ s.opens <= g /\ (s.closes < s.opens \/ g < s.closes)
            \/ s.weekday = (e - 1) % Week /\ s.closes < s.opens /\ g < s.closes
      <3>1. ~ Open(s, u)
        BY DEF u
      <3>2. QED
        BY <2>2, <3>1, OpenOnADay
    <2>4. s.opens <= g
      BY <1>0, <1>2, <2>2
    <2>5. s.weekday = d % Week /\ s.opens <= h
      BY <1>3, <2>2, <2>3, <2>4
    <2>6. s.opens = h
      BY <1>0, <1>2, <1>5, <2>5
    <2>7. QED
      BY <1>1, <1>5, <2>5, <2>6
  <1>6. QED
    BY <1>0, <1>1, <1>4, <1>5

\* The first instant of service is now, the end of a closure, or an opening.
LEMMA FirstIsACandidate ==
  ASSUME NEW k, Configured(k), NEW t \in 0 .. Week * DayLength - 1,
         NEW m \in t .. t + Horizon * DayLength,
         Hours!is_open_at(k, m), ~ Hours!closure_at(k, m),
         \A x \in t .. t + Horizon * DayLength : Hours!is_open_at(k, x) /\ ~ Hours!closure_at(k, x) => m <= x
  PROVE  m \in Hours!candidats(k, t)
  <1> DEFINE L == DayLength
  <1>0. L \in Nat /\ L > 0 /\ Horizon \in Nat /\ t \in Nat /\ Horizon * L \in Nat /\ m \in Nat
        /\ t <= m /\ m <= t + Horizon * L
    <2>1. L \in Nat /\ L > 0 /\ Horizon \in Nat /\ Week \in Nat
      BY HoursAssumption
    <2>2. \A x, y \in Nat : x * y \in Nat
      OBVIOUS
    <2>3. Horizon * L \in Nat /\ Week * L \in Nat
      BY <2>1, <2>2
    <2>4. QED
      BY <2>1, <2>3
  <1>1. CASE m = t
    BY <1>1 DEF Hours!candidats
  <1>2. CASE m # t
    <2>1. m - 1 \in t .. t + Horizon * L /\ m - 1 \in Int /\ m > 0
      <3> HIDE DEF L
      <3>1. QED
        BY <1>0, <1>2
    <2>2. CASE Hours!closure_at(k, m - 1)
      <3>1. PICK c \in k.closures : c.starts <= m - 1 /\ m - 1 < c.ends /\ c \in Hours!closures_after(k, m - 1)
        BY <2>2 DEF Hours!closure_at, Hours!closures_after
      <3>2. c.starts \in Int /\ c.ends \in Int
        BY DEF Configured, Hours!KitchenClosure
      <3>3. ~ (c.starts <= m /\ m < c.ends)
        <4>1. c.starts <= m /\ m < c.ends => c \in Hours!closures_after(k, m)
          BY <1>0, <3>2 DEF Hours!closures_after
        <4>2. QED
          BY <4>1 DEF Hours!closure_at
      <3>4. c.ends = m
        BY <1>0, <3>1, <3>2, <3>3
      <3>5. c \in Hours!closures_after(k, t)
        BY <1>0, <1>2, <3>2, <3>4 DEF Hours!closures_after
      <3>6. QED
        BY <3>4, <3>5 DEF Hours!candidats
    <2>3. CASE ~ Hours!closure_at(k, m - 1)
      <3>1. ~ Hours!is_open_at(k, m - 1)
        <4>1. ~ m <= m - 1
          BY <1>0
        <4>2. QED
          BY <2>1, <2>3, <4>1
      <3>2. PICK s \in k.slots : Open(s, m)
        BY OpenSlots
      <3>3. s \in Hours!OpeningHours /\ ~ Open(s, m - 1)
        BY <3>1, OpenSlots DEF Configured
      <3> DEFINE d == m \div L
                 b == t \div L
      <3>4. s.weekday = d % Week /\ m = d * L + s.opens
        BY <1>0, <2>1, <3>2, <3>3, OpensNow
      <3>5. /\ d \in Nat /\ b \in Nat
            /\ d * L <= m /\ m < d * L + L /\ b * L <= t /\ t < b * L + L
        <4>1. m = d * L + (m % L) /\ m % L \in 0 .. L - 1 /\ t = b * L + (t % L) /\ t % L \in 0 .. L - 1
              /\ d \in Nat /\ b \in Nat
          BY <1>0, Division
        <4> HIDE DEF d, b, L
        <4>2. d * L \in Int /\ b * L \in Int
          BY <1>0, <4>1
        <4>3. QED
          BY <1>0, <4>1, <4>2
      <3>6. d \in b - 1 .. b + Horizon
        <4> HIDE DEF d, b, L
        <4>1. d * L \in Int /\ b * L \in Int /\ (b + Horizon) * L = b * L + Horizon * L /\ b + Horizon \in Int
          BY <1>0, <3>5
        <4>2. ~ d < b
          <5>1. d < b => d * L + L <= b * L
            BY <1>0, <3>5, Division
          <5>2. QED
            BY <1>0, <3>5, <4>1, <5>1
        <4>3. ~ b + Horizon < d
          <5>1. b + Horizon < d => (b + Horizon) * L + L <= d * L
            BY <1>0, <3>5, <4>1, Division
          <5>2. QED
            BY <1>0, <3>5, <4>1, <5>1
        <4>4. QED
          BY <1>0, <3>5, <4>2, <4>3
      <3>7. m \in {d * L + x.opens : x \in {x \in k.slots : x.weekday = d % Week}}
        BY <3>4
      <3>8. m \in UNION {{e * L + x.opens : x \in {x \in k.slots : x.weekday = e % Week}} :
                           e \in b - 1 .. b + Horizon}
        <4> HIDE DEF d, b, L
        <4>1. QED
          BY <3>6, <3>7
      <3>9. QED
        BY <3>8 DEF Hours!candidats
    <2>4. QED
      BY <2>2, <2>3
  <1>3. QED
    BY <1>1, <1>2

\* The reopening that is announced is the first instant of service to come.
LEMMA NextOpeningIsTheFirst ==
  ASSUME NEW k, Configured(k), NEW t \in 0 .. Week * DayLength - 1
  PROVE  LET coming == Hours!ServiceInstants(k) \cap (t .. t + Horizon * DayLength) IN
         IF coming = {} THEN Hours!next_opening(k, t) = -1
         ELSE Hours!next_opening(k, t) \in coming /\ \A x \in coming : Hours!next_opening(k, t) <= x
  <1> DEFINE coming == Hours!ServiceInstants(k) \cap (t .. t + Horizon * DayLength)
             ouverts == {c \in Hours!candidats(k, t) : /\ t <= c /\ c <= t + Horizon * DayLength
                                                       /\ Hours!is_open_at(k, c) /\ ~ Hours!closure_at(k, c)}
  <1>0. t \in Nat /\ Horizon * DayLength \in Nat /\ t + Horizon * DayLength <= (Week + Horizon) * DayLength
    <2>1. DayLength \in Nat /\ Horizon \in Nat /\ Week \in Nat
      BY HoursAssumption
    <2>2. \A x, y, z \in Nat : x * y \in Nat /\ (x + y) * z = x * z + y * z
      OBVIOUS
    <2>3. Horizon * DayLength \in Nat /\ Week * DayLength \in Nat
          /\ (Week + Horizon) * DayLength = Week * DayLength + Horizon * DayLength
      BY <2>1, <2>2
    <2>4. QED
      BY <2>3
  <1>1. \A x \in t .. t + Horizon * DayLength :
          x \in Int /\ x \in 0 .. (Week + Horizon) * DayLength
    <2>1. (Week + Horizon) * DayLength \in Int
      BY HoursAssumption
    <2>2. QED
      BY <1>0, <2>1
  <1>2. \A x \in t .. t + Horizon * DayLength : x \in coming <=> Hours!is_open_at(k, x) /\ ~ Hours!closure_at(k, x)
    BY <1>1, InService
  <1>3. \A c \in Hours!candidats(k, t) : c \in Int
    <2>1. \A c \in Hours!closures_after(k, t) : c.ends \in Int
      BY DEF Hours!closures_after, Configured, Hours!KitchenClosure
    <2>2. ASSUME NEW d \in (t \div DayLength) - 1 .. (t \div DayLength) + Horizon, NEW s \in k.slots
          PROVE  d * DayLength + s.opens \in Int
      <3>1. t \div DayLength \in Int /\ DayLength \in Int /\ Horizon \in Int
        BY HoursAssumption, Division
      <3>2. d \in Int
        BY <3>1
      <3>3. s.opens \in Int
        BY <3>1 DEF Configured, Hours!OpeningHours, Hours!Day
      <3>4. d * DayLength \in Int
        BY <3>1, <3>2
      <3>5. QED
        BY <3>3, <3>4
    <2>3. t \in Int
      BY <1>0
    <2>4. QED
      BY <2>1, <2>2, <2>3 DEF Hours!candidats
  <1>4. ouverts \subseteq coming
    <2>1. ASSUME NEW c \in ouverts PROVE c \in coming
      <3>1. c \in t .. t + Horizon * DayLength
        BY <1>0, <1>3
      <3>2. QED
        BY <1>2, <3>1
    <2>2. QED
      BY <2>1
  <1>5. Hours!next_opening(k, t) = IF ouverts = {} THEN -1 ELSE CHOOSE c \in ouverts : \A d \in ouverts : c <= d
    BY DEF Hours!next_opening
  <1>6. CASE coming = {}
    <2> HIDE DEF coming
    <2>1. ouverts = {}
      BY <1>4, <1>6
    <2> HIDE DEF ouverts
    <2>2. Hours!next_opening(k, t) = -1
      BY <1>5, <2>1
    <2>3. QED
      BY <1>6, <2>2 DEF coming
  <1>7. CASE coming # {}
    <2>1. PICK m \in coming : \A x \in coming : m <= x
      <3> DEFINE f == [x \in coming |-> x]
      <3>1. \A x \in coming : f[x] = x /\ f[x] \in Int
        BY <1>1
      <3>2. IsFiniteSet(coming)
        <4>1. IsFiniteSet(t .. t + Horizon * DayLength)
          BY <1>0, FS_Interval
        <4>2. QED
          BY <4>1, FS_Subset
      <3> HIDE DEF f, coming
      <3>3. \E m \in coming : \A x \in coming : f[m] <= f[x]
        BY <1>7, <3>1, <3>2, LeastExists
      <3>4. QED
        BY <3>1, <3>3
    <2>2. m \in t .. t + Horizon * DayLength /\ Hours!is_open_at(k, m) /\ ~ Hours!closure_at(k, m)
      BY <1>2, <2>1
    <2>3. \A x \in t .. t + Horizon * DayLength : Hours!is_open_at(k, x) /\ ~ Hours!closure_at(k, x) => m <= x
      BY <1>2, <2>1
    <2>4. m \in Hours!candidats(k, t)
      BY <2>2, <2>3, FirstIsACandidate
    <2>5. m \in ouverts
      BY <1>0, <1>1, <2>2, <2>4
    <2>6. \A d \in ouverts : m <= d
      BY <1>4, <2>1
    <2>7. \A c \in ouverts : c \in Int
      BY <1>3
    <2> HIDE DEF ouverts, coming
    <2>8. Hours!next_opening(k, t) \in ouverts /\ Hours!next_opening(k, t) <= m
      BY <1>5, <2>5, <2>6
    <2>9. Hours!next_opening(k, t) = m
      BY <2>5, <2>6, <2>7, <2>8
    <2>10. QED
      BY <1>7, <2>1, <2>9 DEF coming
  <1>8. QED
    BY <1>6, <1>7

-----------------------------------------------------------------------------
HoursInv ==
  /\ kitchen \in Hours!Kitchens \cup {Hours!Unopened}
  /\ verdict # "unasked" => kitchen # Hours!Unopened
  /\ Hours!OrderableExactlyInService
  /\ Hours!ReopeningIsTheFirst

LEMMA HoursInit == Hours!Init => HoursInv
  BY DEF Hours!Init, HoursInv, Hours!OrderableExactlyInService, Hours!ReopeningIsTheFirst

LEMMA KitchensAreConfigured ==
  ASSUME NEW k \in Hours!Kitchens
  PROVE  Configured(k) /\ k.market \in BOOLEAN /\ k.accepts \in BOOLEAN
  <1>1. k \in Hours!WeeklyKitchens \/ k \in Hours!ClosingKitchens
    BY DEF Hours!Kitchens
  <1>2. CASE k \in Hours!WeeklyKitchens
    <2>1. k.slots \in {{}} \cup {{s, z} : s, z \in Hours!OpeningHours} /\ k.closures = {}
      BY <1>2 DEF Hours!WeeklyKitchens
    <2>2. k.market \in BOOLEAN /\ k.accepts \in BOOLEAN
      BY <1>2 DEF Hours!WeeklyKitchens
    <2>3. QED
      BY <2>1, <2>2 DEF Configured
  <1>3. CASE k \in Hours!ClosingKitchens
    <2>1. k.slots \in {{s} : s \in Hours!OpeningHours} /\ k.closures \in {{c} : c \in Hours!KitchenClosure}
      BY <1>3 DEF Hours!ClosingKitchens
    <2>2. k.market \in BOOLEAN /\ k.accepts \in BOOLEAN
      BY <1>3 DEF Hours!ClosingKitchens
    <2>3. QED
      BY <2>1, <2>2 DEF Configured
  <1>4. QED
    BY <1>1, <1>2, <1>3

LEMMA Asked ==
  ASSUME HoursInv, NEW t \in 0 .. Week * DayLength - 1, Hours!kitchen_state(t)
  PROVE  HoursInv'
  <1>1. /\ kitchen # Hours!Unopened /\ kitchen' = kitchen /\ moment' = t
        /\ verdict' = Hours!unavailability(kitchen, t)
        /\ reopens' = IF Hours!closure_at(kitchen, t) \/ ~ Hours!is_open_at(kitchen, t) THEN Hours!next_opening(kitchen, t) ELSE -1
    BY DEF Hours!kitchen_state
  <1>2. PICK k : k = kitchen
    OBVIOUS
  <1>3. k \in Hours!Kitchens /\ Configured(k) /\ k.market \in BOOLEAN /\ k.accepts \in BOOLEAN
    BY <1>1, <1>2, KitchensAreConfigured DEF HoursInv
  <1>4. t \in 0 .. (Week + Horizon) * DayLength
    <2>1. DayLength \in Nat /\ Horizon \in Nat /\ Week \in Nat
      BY HoursAssumption
    <2>2. \A x, y, z \in Nat : x * y \in Nat /\ (x + y) * z = x * z + y * z
      OBVIOUS
    <2>3. Horizon * DayLength \in Nat /\ Week * DayLength \in Nat
          /\ (Week + Horizon) * DayLength = Week * DayLength + Horizon * DayLength
      BY <2>1, <2>2
    <2>4. QED
      BY <2>3
  <1>5. t \in Hours!ServiceInstants(k) <=> Hours!is_open_at(k, t) /\ ~ Hours!closure_at(k, t)
    BY <1>3, <1>4, InService
  <1>6. Hours!OrderableExactlyInService'
    <2>1. Hours!unavailability(k, t) = "none" <=>
            k.status = "active" /\ k.market /\ k.accepts /\ t \in Hours!ServiceInstants(k)
      BY <1>3, <1>5 DEF Hours!unavailability
    <2>2. QED
      BY <1>1, <1>2, <2>1 DEF Hours!OrderableExactlyInService
  <1>7. Hours!ReopeningIsTheFirst'
    <2> DEFINE coming == Hours!ServiceInstants(k) \cap (t .. t + Horizon * DayLength)
    <2>1. Hours!unavailability(k, t) \in {"kitchen_temporarily_closed", "kitchen_closed"} =>
            Hours!closure_at(k, t) \/ ~ Hours!is_open_at(k, t)
      BY <1>3 DEF Hours!unavailability
    <2>2. IF coming = {} THEN Hours!next_opening(k, t) = -1
          ELSE Hours!next_opening(k, t) \in coming /\ \A x \in coming : Hours!next_opening(k, t) <= x
      BY <1>3, NextOpeningIsTheFirst
    <2>3. verdict' \in {"kitchen_temporarily_closed", "kitchen_closed"} => reopens' = Hours!next_opening(k, t)
      BY <1>1, <1>2, <2>1
    <2> HIDE DEF coming
    <2>4. verdict' \in {"kitchen_temporarily_closed", "kitchen_closed"} =>
            IF coming = {} THEN reopens' = -1 ELSE reopens' \in coming /\ \A x \in coming : reopens' <= x
      BY <2>2, <2>3
    <2>5. QED
      BY <1>1, <1>2, <2>4 DEF Hours!ReopeningIsTheFirst, coming
  <1>8. QED
    BY <1>1, <1>6, <1>7 DEF HoursInv

LEMMA HoursStep == HoursInv /\ [Hours!Next]_(Hours!vars) => HoursInv'
  <1> SUFFICES ASSUME HoursInv, [Hours!Next]_(Hours!vars) PROVE HoursInv'
    OBVIOUS
  <1>1. CASE UNCHANGED Hours!vars
    BY <1>1 DEF Hours!vars, HoursInv, Hours!OrderableExactlyInService, Hours!ReopeningIsTheFirst
  <1>2. ASSUME NEW k \in Hours!Kitchens, Hours!configured(k) PROVE HoursInv'
    BY <1>2 DEF Hours!configured, HoursInv, Hours!OrderableExactlyInService, Hours!ReopeningIsTheFirst
  <1>3. ASSUME NEW t \in 0 .. Week * DayLength - 1, Hours!kitchen_state(t) PROVE HoursInv'
    BY <1>3, Asked
  <1>4. QED
    BY <1>1, <1>2, <1>3 DEF Hours!Next

-----------------------------------------------------------------------------
(* Coverage *)

Drawn(n) == zones_covera \in [n.zones -> Coverage(n)!DeliveryZone]
Staffed(n) == kitchens \in [n.kitchens -> Coverage(n)!Restaurant]

\* A zone of its city or one of its own covers the point for the kitchen.
Reached(n, k) ==
  \E z \in n.zones : /\ zones_covera[z].covering
                     /\ \/ zones_covera[z].owner = k
                        \/ zones_covera[z].owner = "city" /\ zones_covera[z].city = kitchens[k].city

\* The closed kitchens a zone covers the point for, no farther than k.
ClosedBefore(n, k) ==
  {l \in n.kitchens : kitchens[l].state = "closed" /\ Reached(n, l) /\ kitchens[l].distance <= kitchens[k].distance}

\* The kitchen found goes before k, or the page was full of closed ones.
GoesBefore(n, found, k) ==
  \/ kitchens[found].state = "orderable" /\ kitchens[found].distance <= kitchens[k].distance
  \/ n.candidates <= Cardinality(ClosedBefore(n, k))

\* What was answered was answered of the map and the kitchens of the question:
\* the properties, where a kitchen is one a zone covers the point for.
FoundInv(n, a) ==
  a.asked = "none" /\ a # Coverage(n)!NoAnswer =>
    /\ a.kitchen # "none" => a.zone # "none"
    /\ \A k \in n.kitchens : kitchens[k].state # "unpublished" /\ Reached(n, k) =>
         /\ a.kitchen # "none"
         /\ kitchens[k].state = "orderable" => GoesBefore(n, a.kitchen, k)

CoverageInv(n) ==
  /\ zones_covera # <<>> => Drawn(n)
  /\ kitchens # <<>> => Drawn(n) /\ Staffed(n)
  /\ answer # Coverage(n)!NoAnswer => Drawn(n) /\ Staffed(n)
  /\ FoundInv(n, answer)
  /\ Coverage(n)!PricedFromItsOwnCity
  /\ Coverage(n)!ServedAddressIsQuoted

LEMMA CoverageInit == \A n : Coverage(n)!Init => CoverageInv(n)
  BY DEF Coverage!Init, Coverage!NoAnswer, CoverageInv, FoundInv, Coverage!PricedFromItsOwnCity, Coverage!ServedAddressIsQuoted

\* A step that leaves the map and the kitchens leaves what is said of them.
LEMMA SameMap ==
  ASSUME NEW n, UNCHANGED <<zones_covera, kitchens>>
  PROVE  /\ Drawn(n)' <=> Drawn(n)
         /\ Staffed(n)' <=> Staffed(n)
         /\ \A a : FoundInv(n, a) => FoundInv(n, a)'
  <1>1. (Drawn(n)' <=> Drawn(n)) /\ (Staffed(n)' <=> Staffed(n))
    BY DEF Drawn, Staffed
  <1>2. \A k : Reached(n, k)' <=> Reached(n, k)
    BY DEF Reached
  <1>3. \A k : ClosedBefore(n, k)' = ClosedBefore(n, k)
    BY <1>2 DEF ClosedBefore
  <1>4. \A found, k : GoesBefore(n, found, k) => GoesBefore(n, found, k)'
    BY <1>3 DEF GoesBefore
  <1>5. QED
    BY <1>1, <1>2, <1>4 DEF FoundInv

-----------------------------------------------------------------------------
\* The zones of a kitchen have a first one in the order of the query: a zone
\* of its own, then the priority, then the smallest.
LEMMA FirstZone ==
  ASSUME NEW n \in {Mapped, Crowded}, Drawn(n), NEW S \in SUBSET n.zones, S # {}
  PROVE  \E z \in S : \A y \in S : Coverage(n)!Before(z, y)
  <1> DEFINE propre == [z \in n.zones |-> IF zones_covera[z].owner = "city" THEN 0 ELSE 1]
             priority == [z \in n.zones |-> zones_covera[z].priority]
             Own == {z \in S : \A y \in S : propre[y] <= propre[z]}
             High == {z \in Own : \A y \in Own : priority[y] <= priority[z]}
  <1>0. \A T \in SUBSET n.zones : IsFiniteSet(T)
    BY CoverageAssumption, FS_Subset
  <1>1. \A z \in n.zones : propre[z] \in Int /\ priority[z] \in Int /\ n.surface[z] \in Int
    BY CoverageAssumption DEF Drawn, Coverage!DeliveryZone
  <1>2. \A z, y \in n.zones : Coverage(n)!Before(z, y) <=>
          \/ propre[z] > propre[y]
          \/ propre[z] = propre[y] /\ priority[z] > priority[y]
          \/ propre[z] = propre[y] /\ priority[z] = priority[y] /\ n.surface[z] <= n.surface[y]
    BY DEF Coverage!Before
  <1> HIDE DEF propre, priority
  <1>3. Own # {}
    <2>1. \E m \in S : \A x \in S : propre[x] <= propre[m]
      BY <1>0, <1>1, GreatestExists
    <2>2. QED
      BY <2>1
  <1>4. High # {}
    <2>1. IsFiniteSet(Own) /\ \A x \in Own : priority[x] \in Int
      BY <1>0, <1>1
    <2> HIDE DEF Own
    <2>2. \E m \in Own : \A x \in Own : priority[x] <= priority[m]
      BY <1>3, <2>1, GreatestExists
    <2>3. QED
      BY <2>2
  <1>5. PICK z \in High : \A y \in High : n.surface[z] <= n.surface[y]
    <2>1. IsFiniteSet(High) /\ \A x \in High : n.surface[x] \in Int
      BY <1>0, <1>1
    <2> HIDE DEF High
    <2>2. QED
      BY <1>4, <2>1, LeastExists
  <1>6. ASSUME NEW y \in S PROVE Coverage(n)!Before(z, y)
    <2>1. z \in Own /\ z \in S /\ z \in n.zones /\ y \in n.zones
      OBVIOUS
    <2>2. propre[y] <= propre[z]
      BY <2>1
    <2>3. CASE propre[y] # propre[z]
      BY <1>1, <1>2, <2>1, <2>2, <2>3
    <2>4. CASE propre[y] = propre[z]
      <3>1. y \in Own
        BY <2>1, <2>4
      <3>2. priority[y] <= priority[z]
        BY <3>1
      <3>3. CASE priority[y] # priority[z]
        BY <1>1, <1>2, <2>1, <2>4, <3>2, <3>3
      <3>4. CASE priority[y] = priority[z]
        <4>1. y \in High
          BY <3>1, <3>4
        <4>2. QED
          BY <1>2, <1>5, <2>1, <2>4, <3>4, <4>1
      <3>5. QED
        BY <3>3, <3>4
    <2>5. QED
      BY <2>3, <2>4
  <1>7. z \in S
    OBVIOUS
  <1>8. QED
    BY <1>6, <1>7

\* The zone a kitchen serves the point from is one of its zones, if it has any.
LEMMA ResolvedZone ==
  ASSUME NEW n \in {Mapped, Crowded}, Drawn(n), NEW k \in n.kitchens
  PROVE  /\ Coverage(n)!eligible(k) = {} => Coverage(n)!resolve_zone(k) = "none"
         /\ Coverage(n)!eligible(k) # {} => Coverage(n)!resolve_zone(k) \in Coverage(n)!eligible(k) /\ Coverage(n)!resolve_zone(k) # "none"
         /\ Coverage(n)!eligible(k) \in SUBSET n.zones
  <1>1. Coverage(n)!eligible(k) \in SUBSET n.zones
    BY DEF Coverage!eligible, Coverage!municipales, Coverage!covering_zones
  <1>2. Coverage(n)!eligible(k) # {} => \E z \in Coverage(n)!eligible(k) : \A y \in Coverage(n)!eligible(k) : Coverage(n)!Before(z, y)
    BY <1>1, FirstZone
  <1>3. Coverage(n)!eligible(k) # {} => Coverage(n)!resolve_zone(k) \in Coverage(n)!eligible(k)
    BY <1>2 DEF Coverage!resolve_zone
  <1>4. QED
    BY <1>1, <1>3, CoverageAssumption DEF Coverage!resolve_zone

\* The two queries of the referential agree.
LEMMA ServesIfItHasAZone ==
  ASSUME NEW n \in {Mapped, Crowded}, Drawn(n), Staffed(n), NEW k \in n.kitchens
  PROVE  k \in Coverage(n)!_desservantes <=> kitchens[k].state # "unpublished" /\ Coverage(n)!eligible(k) # {}
  BY DEF Coverage!_desservantes, Coverage!eligible, Coverage!municipales

LEMMA ReachedByItsZones ==
  ASSUME NEW n \in {Mapped, Crowded}, Drawn(n), NEW k \in n.kitchens
  PROVE  Reached(n, k) <=> Coverage(n)!eligible(k) # {}
  BY DEF Reached, Coverage!eligible, Coverage!municipales, Coverage!covering_zones

\* The kitchens are counted in the instance as they are here.
LEMMA KitchensCounted ==
  ASSUME NEW n, NEW S
  PROVE  Coverage(n)!Cardinality(S) = Cardinality(S)
  BY DEF Coverage!Cardinality, Cardinality

\* The kitchen that is found serves the point, and goes before those that take
\* orders, but for the cut of the candidates.
LEMMA FoundKitchen ==
  ASSUME NEW n \in {Mapped, Crowded}, Drawn(n), Staffed(n), NEW found \in Coverage(n)!_cuisine_pour_le_point
  PROVE  /\ found # "none" => found \in Coverage(n)!_desservantes
         /\ \A k \in Coverage(n)!_desservantes :
              found # "none" /\ (kitchens[k].state = "orderable" => GoesBefore(n, found, k))
  <1> DEFINE D == Coverage(n)!_desservantes
  <1>0. D \in SUBSET n.kitchens /\ "none" \notin D /\ IsFiniteSet(n.kitchens)
    BY CoverageAssumption DEF Coverage!_desservantes
  <1>1. CASE D = {}
    BY <1>1 DEF Coverage!_cuisine_pour_le_point
  <1>2. CASE D # {}
    <2>1. PICK C \in Coverage(n)!Candidates :
            found \in Coverage(n)!Nearest(IF Coverage(n)!orderable(C) # {} THEN Coverage(n)!orderable(C) ELSE C)
      BY <1>2 DEF Coverage!_cuisine_pour_le_point
    <2>2. /\ C \in SUBSET D
          /\ C # D => Cardinality(C) = n.candidates
          /\ \A k \in C, l \in D \ C : kitchens[k].distance <= kitchens[l].distance
      BY <2>1, KitchensCounted DEF Coverage!Candidates
    <2>3. /\ found \in C
          /\ Coverage(n)!orderable(C) # {} =>
               /\ kitchens[found].state = "orderable"
               /\ \A l \in Coverage(n)!orderable(C) : kitchens[found].distance <= kitchens[l].distance
      BY <2>1 DEF Coverage!Nearest, Coverage!orderable
    <2> HIDE DEF D
    <2>4. found \in D /\ found # "none"
      BY <1>0, <2>2, <2>3
    <2>5. ASSUME NEW k \in D, kitchens[k].state = "orderable" PROVE GoesBefore(n, found, k)
      <3>1. CASE k \in C
        BY <2>3, <2>5, <3>1 DEF Coverage!orderable, GoesBefore
      <3>2. CASE k \notin C /\ Coverage(n)!orderable(C) # {}
        BY <2>2, <2>3, <3>2 DEF GoesBefore
      <3>3. CASE k \notin C /\ Coverage(n)!orderable(C) = {}
        <4>1. Cardinality(C) = n.candidates
          BY <2>2, <3>3
        <4>2. ASSUME NEW l \in C PROVE l \in ClosedBefore(n, k)
          <5>1. l \in D /\ l \in n.kitchens /\ kitchens[l].state # "orderable"
            BY <1>0, <2>2, <3>3 DEF Coverage!orderable
          <5>2. kitchens[l].state # "unpublished" /\ Reached(n, l)
            BY <5>1, ServesIfItHasAZone, ReachedByItsZones DEF D
          <5>3. kitchens[l].state = "closed"
            BY <5>1, <5>2 DEF Staffed, Coverage!Restaurant
          <5>4. kitchens[l].distance <= kitchens[k].distance
            BY <2>2, <3>3
          <5>5. QED
            BY <5>1, <5>2, <5>3, <5>4 DEF ClosedBefore
        <4>3. C \subseteq ClosedBefore(n, k) /\ IsFiniteSet(ClosedBefore(n, k))
          <5>1. ClosedBefore(n, k) \in SUBSET n.kitchens
            BY DEF ClosedBefore
          <5>2. QED
            BY <1>0, <4>2, <5>1, FS_Subset
        <4>4. Cardinality(C) <= Cardinality(ClosedBefore(n, k))
          BY <4>3, FS_Subset
        <4>5. QED
          BY <4>1, <4>4 DEF GoesBefore
      <3>4. QED
        BY <3>1, <3>2, <3>3
    <2>6. QED
      BY <2>4, <2>5 DEF D
  <1>3. QED
    BY <1>1, <1>2

\* A distance within reach is within reach once it is rounded.
LEMMA RoundedWithinReach ==
  ASSUME NEW n, NEW d \in Nat, NEW m \in Nat, d <= 10 * m
  PROVE  Coverage(n)!quantized(d) \in Nat /\ Coverage(n)!quantized(d) <= m
  <1>1. /\ d \div 10 \in Nat /\ d % 10 \in Nat /\ d = 10 * (d \div 10) + (d % 10)
    OBVIOUS
  <1>2. d % 10 > 0 => d \div 10 + 1 <= m
    BY <1>1
  <1>3. d \div 10 <= m
    BY <1>1
  <1>4. QED
    BY <1>1, <1>2, <1>3 DEF Coverage!quantized

\* The answer to a question, of the map and the kitchens it is about.
LEMMA Answered ==
  ASSUME NEW n \in {Mapped, Crowded}, Drawn(n), Staffed(n), NEW asked \in n.kitchens \cup {"none"}, Coverage(n)!ask(asked)
  PROVE  CoverageInv(n)'
  <1>1. PICK k \in IF asked = "none" THEN Coverage(n)!_cuisine_pour_le_point ELSE {asked} :
          answer' = Coverage(n)!check_delivery(asked, k)
    BY DEF Coverage!ask
  <1> DEFINE z == IF k = "none" THEN "none" ELSE Coverage(n)!resolve_zone(k)
             d == IF k = "none" THEN 0 ELSE kitchens[k].distance
             said == Coverage(n)!check_delivery(asked, k)
  <1>2. answer' = said /\ zones_covera' = zones_covera /\ kitchens' = kitchens
    BY <1>1 DEF Coverage!ask
  <1>3. /\ said.asked = asked /\ said.kitchen = k /\ said.zone = z /\ said.distance = d
        /\ said.reason = IF k = "none" THEN "no_kitchen_available"
                         ELSE IF z = "none" THEN "address_not_served"
                         ELSE IF Coverage(n)!out_of_reach(z, d) THEN "too_far"
                         ELSE "none"
    BY DEF Coverage!check_delivery
  <1>4. asked = "none" => k \in Coverage(n)!_cuisine_pour_le_point
    BY <1>1
  <1>5. k # "none" => k \in n.kitchens
    <2>1. CASE asked = "none"
      BY <1>4, <2>1, FoundKitchen DEF Coverage!_desservantes
    <2>2. CASE asked # "none"
      BY <1>1, <2>2
    <2>3. QED
      BY <2>1, <2>2
  <1>6. z # "none" => k \in n.kitchens /\ z \in Coverage(n)!eligible(k) /\ z \in n.zones
    BY <1>5, ResolvedZone
  <1>7. FoundInv(n, said)
    <2> SUFFICES ASSUME asked = "none"
                 PROVE  /\ k # "none" => z # "none"
                        /\ \A l \in n.kitchens : kitchens[l].state # "unpublished" /\ Reached(n, l) =>
                             k # "none" /\ (kitchens[l].state = "orderable" => GoesBefore(n, k, l))
      BY <1>3 DEF FoundInv
    <2>1. k # "none" => k \in n.kitchens /\ k \in Coverage(n)!_desservantes
      BY <1>4, <1>5, FoundKitchen
    <2>2. k # "none" => z # "none"
      BY <2>1, ServesIfItHasAZone, ResolvedZone
    <2>3. ASSUME NEW l \in n.kitchens, kitchens[l].state # "unpublished", Reached(n, l)
          PROVE  k # "none" /\ (kitchens[l].state = "orderable" => GoesBefore(n, k, l))
      <3>1. l \in Coverage(n)!_desservantes
        BY <2>3, ReachedByItsZones, ServesIfItHasAZone
      <3>2. QED
        BY <1>4, <3>1, FoundKitchen
    <2> HIDE DEF z
    <2>4. QED
      BY <2>2, <2>3
  <1>8. z # "none" =>
          \/ zones_covera[z].owner = k
          \/ zones_covera[z].owner = "city" /\ zones_covera[z].city = kitchens[k].city
    BY <1>6 DEF Coverage!eligible, Coverage!municipales
  <1>9. said.reason = "none" => Coverage(n)!quote_delivery(z, d) = "none"
    <2> SUFFICES ASSUME said.reason = "none" PROVE Coverage(n)!quote_delivery(z, d) = "none"
      OBVIOUS
    <2>1. k # "none" /\ z # "none" /\ ~ Coverage(n)!out_of_reach(z, d)
      BY <1>3
    <2>2. k \in n.kitchens /\ z \in n.zones
      BY <1>6, <2>1
    <2>3. d = kitchens[k].distance
      BY <2>1
    <2> HIDE DEF z, d, said
    <2>4. d \in Nat
      BY <2>2, <2>3, CoverageAssumption DEF Staffed, Coverage!Restaurant
    <2>5. n.reach[z] \in Nat
      BY <2>2, CoverageAssumption
    <2>6. d <= 10 * n.reach[z]
      BY <2>1, <2>4, <2>5 DEF Coverage!out_of_reach
    <2>7. Coverage(n)!quantized(d) \in Nat /\ Coverage(n)!quantized(d) <= n.reach[z]
      BY <2>4, <2>5, <2>6, RoundedWithinReach
    <2>8. QED
      BY <2>5, <2>7 DEF Coverage!quote_delivery
  <1> HIDE DEF z, d, said
  <1>10. Coverage(n)!PricedFromItsOwnCity'
    BY <1>2, <1>3, <1>8 DEF Coverage!PricedFromItsOwnCity
  <1>11. Coverage(n)!ServedAddressIsQuoted'
    BY <1>2, <1>3, <1>9 DEF Coverage!ServedAddressIsQuoted, Coverage!quote_delivery
  <1>12. Drawn(n)' /\ Staffed(n)' /\ FoundInv(n, answer)'
    <2>1. \A a : FoundInv(n, a) => FoundInv(n, a)'
      BY <1>2, SameMap
    <2>2. FoundInv(n, answer)'
      BY <1>2, <1>7, <2>1 DEF FoundInv, GoesBefore
    <2>3. QED
      BY <1>2, <2>2, SameMap
  <1>13. QED
    BY <1>10, <1>11, <1>12 DEF CoverageInv

LEMMA CoverageStep ==
  ASSUME NEW n \in {Mapped, Crowded}, CoverageInv(n), [Coverage(n)!Next]_(Coverage(n)!vars)
  PROVE  CoverageInv(n)'
  <1>1. CASE UNCHANGED Coverage(n)!vars
    <2>1. zones_covera' = zones_covera /\ kitchens' = kitchens /\ answer' = answer
      BY <1>1 DEF Coverage!vars
    <2>2. Drawn(n)' <=> Drawn(n)
      BY <2>1, SameMap
    <2>3. Staffed(n)' <=> Staffed(n)
      BY <2>1, SameMap
    <2>4. FoundInv(n, answer)'
      <3>1. \A a : FoundInv(n, a) => FoundInv(n, a)'
        BY <2>1, SameMap
      <3>2. QED
        BY <2>1, <3>1 DEF FoundInv, GoesBefore, CoverageInv
    <2>5. QED
      BY <2>1, <2>2, <2>3, <2>4 DEF CoverageInv, Coverage!PricedFromItsOwnCity, Coverage!ServedAddressIsQuoted,
        Coverage!quote_delivery, Coverage!NoAnswer
  <1>2. ASSUME NEW map \in [n.zones -> Coverage(n)!DeliveryZone], Coverage(n)!drawn(map) PROVE CoverageInv(n)'
    BY <1>2 DEF Coverage!drawn, CoverageInv, Drawn, FoundInv, Coverage!NoAnswer, Coverage!PricedFromItsOwnCity,
      Coverage!ServedAddressIsQuoted
  <1>3. ASSUME NEW fleet \in [n.kitchens -> Coverage(n)!Restaurant], Coverage(n)!opened(fleet) PROVE CoverageInv(n)'
    BY <1>3 DEF Coverage!opened, CoverageInv, Drawn, Staffed, FoundInv, Coverage!NoAnswer, Coverage!PricedFromItsOwnCity,
      Coverage!ServedAddressIsQuoted
  <1>4. ASSUME NEW asked \in n.kitchens \cup {"none"}, Coverage(n)!ask(asked) PROVE CoverageInv(n)'
    BY <1>4, Answered DEF Coverage!ask, CoverageInv
  <1>5. QED
    BY <1>1, <1>2, <1>3, <1>4 DEF Coverage!Next

LEMMA CoverageInvImplies ==
  ASSUME NEW n \in {Mapped, Crowded}, CoverageInv(n)
  PROVE  Coverage(n)!FoundKitchenServesThePoint /\ Coverage(n)!PricedFromItsOwnCity /\ Coverage(n)!ServedAddressIsQuoted
  <1> SUFFICES ASSUME answer.asked = "none", answer # Coverage(n)!NoAnswer
               PROVE  /\ answer.kitchen # "none" => answer.zone # "none"
                      /\ \A k \in n.kitchens : kitchens[k].state # "unpublished" /\ Coverage(n)!resolve_zone(k) # "none" =>
                           /\ answer.kitchen # "none"
                           /\ kitchens[k].state = "orderable" => Coverage(n)!FoundAhead(k)
    BY DEF CoverageInv, Coverage!FoundKitchenServesThePoint
  <1>1. Drawn(n) /\ FoundInv(n, answer)
    BY DEF CoverageInv
  <1>2. \A k \in n.kitchens : Coverage(n)!resolve_zone(k) # "none" <=> Reached(n, k)
    BY <1>1, ResolvedZone, ReachedByItsZones
  <1>3. ASSUME NEW k \in n.kitchens, GoesBefore(n, answer.kitchen, k) PROVE Coverage(n)!FoundAhead(k)
    <2>1. ClosedBefore(n, k) =
            {l \in n.kitchens : /\ kitchens[l].state = "closed" /\ Coverage(n)!resolve_zone(l) # "none"
                                /\ kitchens[l].distance <= kitchens[k].distance}
      BY <1>2 DEF ClosedBefore
    <2>2. QED
      BY <1>3, <2>1, KitchensCounted DEF GoesBefore, Coverage!FoundAhead
  <1>4. QED
    BY <1>1, <1>2, <1>3 DEF FoundInv

-----------------------------------------------------------------------------
(* Amounts *)

LEMMA AmountsSum == \A f : Amounts!SumFunction(f) = SumFunction(f)
  BY DEF Amounts!SumFunction, SumFunction, Amounts!SumFunctionOnSet, SumFunctionOnSet,
         Amounts!FoldFunctionOnSet, FoldFunctionOnSet, Amounts!MapThenFoldSet, MapThenFoldSet

OrderRow == [subtotal : Nat, fee : Nat, gross : Nat, discount : Nat, total : Nat, courier : Nat]

AmountsInv ==
  /\ tariff \in Amounts!DeliveryZone \cup {None}
  /\ code \in Amounts!Promotion \cup {None}
  /\ priced \in OrderRow
  /\ shares # <<>> => priced # Amounts!Unpriced
  /\ Amounts!TotalIsNotNegative
  /\ Amounts!CourierIsPaidTheCourse
  /\ Amounts!SharesAreTheTotal

LEMMA AmountsInit == Amounts!Init => AmountsInv
  BY DEF Amounts!Init, AmountsInv, OrderRow, Amounts!Unpriced, Amounts!TotalIsNotNegative,
    Amounts!CourierIsPaidTheCourse, Amounts!SharesAreTheTotal

-----------------------------------------------------------------------------
\* A percentage is rounded half up.
LEMMA PercentageRounds ==
  ASSUME NEW a \in Nat, NEW p \in Nat
  PROVE  /\ Amounts!percentage(a, p) \in Nat
         /\ 200 * Amounts!percentage(a, p) <= 2 * a * p + 100
         /\ 200 * Amounts!percentage(a, p) > 2 * a * p - 100
  <1> DEFINE m == a * p
  <1>1. m \in Nat
    <2>1. \A x, y \in Nat : x * y \in Nat
      OBVIOUS
    <2>2. QED
      BY <2>1
  <1>2. 2 * a * p = 2 * m
    <2>1. \A x, y \in Int : 2 * x * y = 2 * (x * y)
      OBVIOUS
    <2>2. QED
      BY <2>1
  <1> HIDE DEF m
  <1>3. /\ (2 * m + 100) \div 200 \in Nat
        /\ 200 * ((2 * m + 100) \div 200) <= 2 * m + 100
        /\ 200 * ((2 * m + 100) \div 200) > 2 * m - 100
    BY <1>1
  <1>4. Amounts!percentage(a, p) = (2 * m + 100) \div 200
    BY <1>2 DEF Amounts!percentage
  <1>5. QED
    BY <1>2, <1>3, <1>4

LEMMA GrossIsNatural ==
  ASSUME NEW t \in Amounts!DeliveryZone, NEW d \in Length
  PROVE  Amounts!gross_fee(t, d) \in Nat
  <1>1. t.base \in Nat /\ t.per_km \in Nat /\ d \in Nat
    BY AmountsAssumption DEF Amounts!DeliveryZone
  <1>2. Amounts!percentage(t.per_km, d) \in Nat
    BY <1>1, PercentageRounds
  <1>3. QED
    BY <1>1, <1>2 DEF Amounts!gross_fee

\* A code takes off a part of what there is to pay, within its maximum.
LEMMA DiscountIsBounded ==
  ASSUME NEW c \in Amounts!Promotion, NEW subtotal \in Nat, NEW fee \in Nat
  PROVE  /\ Amounts!_compute(c, subtotal, fee) \in Nat
         /\ Amounts!_compute(c, subtotal, fee) <= subtotal + fee
         /\ c.max # None => Amounts!_compute(c, subtotal, fee) <= c.max
  <1> DEFINE brut == CASE c.kind = "free_delivery" -> fee
                       [] c.kind = "fixed" -> c.value
                       [] c.kind = "percentage" -> Amounts!percentage(subtotal, c.value)
             capped == IF c.max # None /\ brut > c.max THEN c.max ELSE brut
  <1>1. brut \in Nat
    <2>1. CASE c.kind = "free_delivery"
      BY <2>1
    <2>2. CASE c.kind = "fixed"
      <3>1. c.value \in Nat
        BY <2>2, AmountsAssumption DEF Amounts!Promotion
      <3>2. QED
        BY <2>2, <3>1
    <2>3. CASE c.kind = "percentage"
      <3>1. c.value \in Nat
        BY <2>3, AmountsAssumption DEF Amounts!Promotion
      <3>2. Amounts!percentage(subtotal, c.value) \in Nat
        BY <3>1, PercentageRounds
      <3>3. QED
        BY <2>3, <3>2
    <2>4. QED
      BY <2>1, <2>2, <2>3 DEF Amounts!Promotion
  <1>2. c.max # None => c.max \in Nat
    BY AmountsAssumption DEF Amounts!Promotion
  <1> HIDE DEF brut
  <1>3. capped \in Nat /\ (c.max # None => capped <= c.max)
    BY <1>1, <1>2
  <1>4. Amounts!_compute(c, subtotal, fee) = Amounts!bounded(capped, subtotal + fee)
    BY DEF Amounts!_compute, brut
  <1> HIDE DEF capped
  <1>5. QED
    BY <1>2, <1>3, <1>4 DEF Amounts!bounded

-----------------------------------------------------------------------------
\* The units that remain after the division are fewer than the shares.
LEMMA FewerUnitsThanShares ==
  ASSUME NEW t \in Nat, t > 0, NEW n \in Nat, n > 0, NEW rest \in Int,
         0 <= t * rest, t * rest <= (t - 1) * n
  PROVE  0 <= rest /\ rest <= n
  <1>1. 0 <= rest
    <2>1. ASSUME rest < 0 PROVE FALSE
      <3>1. \A x \in Int : x >= 1 => t * x >= t
        OBVIOUS
      <3>2. t * (0 - rest) >= t
        BY <2>1, <3>1
      <3>3. t * (0 - rest) = 0 - t * rest
        OBVIOUS
      <3>4. QED
        BY <3>2, <3>3
    <2>2. QED
      BY <2>1
  <1>2. rest <= n
    <2>1. ASSUME rest > n PROVE FALSE
      <3>1. \A x \in Int : x >= 1 => t * x >= t
        OBVIOUS
      <3>2. t * (rest - n) >= t
        BY <2>1, <3>1
      <3>3. t * (rest - n) = t * rest - t * n /\ (t - 1) * n = t * n - n
        OBVIOUS
      <3>4. t * rest \in Int /\ t * n \in Int
        OBVIOUS
      <3>5. QED
        BY <3>2, <3>3, <3>4
    <2>2. QED
      BY <2>1
  <1>3. QED
    BY <1>1, <1>2

\* The shares add up to the amount, and equal weights to equal shares but for
\* one unit.
LEMMA AllocatedToTheUnit ==
  ASSUME NEW a \in Nat, NEW w \in Seq(Nat), w # <<>>, SumFunction(w) # 0
  PROVE  LET s == Amounts!allocate(a, w) IN
         /\ SumFunction(s) = a
         /\ DOMAIN s = DOMAIN w
         /\ \A i, j \in DOMAIN w : w[i] = w[j] => s[i] - s[j] \in {-1, 0, 1}
  <1> DEFINE D == DOMAIN w
             n == Len(w)
             t == SumFunction(w)
             fl == [i \in D |-> (a * w[i]) \div t]
             lost == [i \in D |-> (a * w[i]) % t]
             kept == [i \in D |-> t * fl[i]]
             whole == [i \in D |-> a * w[i]]
             rest == a - SumFunction(fl)
             one == [i \in D |-> IF i <= rest THEN 1 ELSE 0]
             s == [i \in D |-> fl[i] + (IF i <= rest THEN 1 ELSE 0)]
  <1>1. D = 1 .. n /\ n \in Nat /\ n > 0 /\ \A i \in D : w[i] \in Nat
    OBVIOUS
  <1>2. IsFiniteSet(D) /\ Cardinality(D) = n
    BY <1>1, FS_Interval
  <1>3. t = SumFunctionOnSet(w, D) /\ t \in Nat /\ t > 0
    <2>1. t = SumFunctionOnSet(w, D)
      BY DEF SumFunction
    <2>2. SumFunctionOnSet(w, D) \in Nat
      BY <1>1, <1>2, SumType
    <2>3. QED
      BY <2>1, <2>2
  <1>4. Amounts!allocate(a, w) = s
    BY AmountsSum DEF Amounts!allocate
  <1>5. \A i \in D : whole[i] \in Nat
    <2>1. \A x, y \in Nat : x * y \in Nat
      OBVIOUS
    <2>2. QED
      BY <1>1, <2>1
  <1>6. \A i \in D : /\ fl[i] \in Nat /\ lost[i] \in Int /\ kept[i] \in Int
                     /\ 0 <= lost[i] /\ lost[i] <= t - 1
                     /\ whole[i] = kept[i] + lost[i]
    <2>1. \A x, y \in Nat : y > 0 => /\ x \div y \in Nat /\ x % y \in Int /\ y * (x \div y) \in Int
                                     /\ 0 <= x % y /\ x % y <= y - 1
                                     /\ x = y * (x \div y) + (x % y)
      OBVIOUS
    <2> SUFFICES ASSUME NEW i \in D
                 PROVE  /\ fl[i] \in Nat /\ lost[i] \in Int /\ kept[i] \in Int
                        /\ 0 <= lost[i] /\ lost[i] <= t - 1
                        /\ whole[i] = kept[i] + lost[i]
      OBVIOUS
    <2> DEFINE x == a * w[i]
    <2>2. x \in Nat /\ whole[i] = x /\ fl[i] = x \div t /\ lost[i] = x % t /\ kept[i] = t * (x \div t)
      BY <1>5
    <2> HIDE DEF x, t, whole, fl, lost, kept
    <2>3. QED
      BY <1>3, <2>1, <2>2
  <1> HIDE DEF D, n, t
  <1>7. SumFunctionOnSet(whole, D) = a * t
    <2>1. \A i \in D : w[i] \in Int /\ whole[i] = a * w[i]
      BY <1>1
    <2> HIDE DEF whole
    <2>2. QED
      BY <1>2, <1>3, <2>1, SumScaled
  <1>8. SumFunctionOnSet(kept, D) = t * SumFunctionOnSet(fl, D)
    <2>1. \A i \in D : fl[i] \in Int /\ kept[i] = t * fl[i]
      BY <1>6
    <2> HIDE DEF kept, fl
    <2>2. QED
      BY <1>2, <1>3, <2>1, SumScaled
  <1>9. SumFunction(fl) = SumFunctionOnSet(fl, D) /\ SumFunctionOnSet(fl, D) \in Nat
    <2>1. DOMAIN fl = D /\ \A i \in D : fl[i] \in Nat
      BY <1>6
    <2> HIDE DEF fl
    <2>2. SumFunctionOnSet(fl, D) \in Nat
      BY <1>2, <2>1, SumType
    <2>3. QED
      BY <2>1, <2>2 DEF SumFunction
  <1>10. /\ SumFunctionOnSet(whole, D) = SumFunctionOnSet(kept, D) + SumFunctionOnSet(lost, D)
         /\ SumFunctionOnSet(lost, D) \in Int
         /\ 0 <= SumFunctionOnSet(lost, D) /\ SumFunctionOnSet(lost, D) <= (t - 1) * n
    <2> HIDE DEF whole, kept, lost, fl
    <2>1. SumFunctionOnSet(whole, D) = SumFunctionOnSet(kept, D) + SumFunctionOnSet(lost, D)
      BY <1>2, <1>6, SumOfTwo
    <2>2. SumFunctionOnSet(lost, D) \in Int
      BY <1>2, <1>6, SumType
    <2>3. t - 1 \in Int /\ 0 \in Int
      BY <1>3
    <2>4. 0 * n <= SumFunctionOnSet(lost, D) /\ SumFunctionOnSet(lost, D) <= (t - 1) * n
      BY <1>2, <1>6, <2>3, SumBounds
    <2>5. QED
      BY <1>1, <2>1, <2>2, <2>4
  <1>11. rest \in Int /\ 0 <= rest /\ rest <= n
    <2> DEFINE F == SumFunctionOnSet(fl, D)
               X == SumFunctionOnSet(lost, D)
    <2>1. rest = a - F /\ F \in Nat /\ X \in Int
      BY <1>9, <1>10
    <2>2. a * t = t * F + X
      BY <1>7, <1>8, <1>10
    <2> HIDE DEF F, X, rest
    <2>3. t * rest = X
      <3>1. \A x, y, z \in Int : z * (x - y) = x * z - z * y
        OBVIOUS
      <3>2. t * (a - F) = a * t - t * F
        BY <1>3, <2>1, <3>1
      <3>3. a * t \in Int /\ t * F \in Int
        BY <1>3, <2>1
      <3>4. t * (a - F) = X
        BY <2>1, <2>2, <3>2, <3>3
      <3>5. QED
        BY <2>1, <3>4
    <2>4. 0 <= t * rest /\ t * rest <= (t - 1) * n
      BY <1>10, <2>3 DEF X
    <2>5. rest \in Int
      BY <2>1
    <2>6. QED
      BY <1>1, <1>3, <2>4, <2>5, FewerUnitsThanShares
  <1>12. SumFunctionOnSet(one, D) = rest
    <2>1. rest \in Nat
      BY <1>11
    <2>2. \A i \in D : one[i] = IF i \in 1 .. rest THEN 1 ELSE 0
      <3> HIDE DEF rest
      <3>1. QED
        BY <1>1, <2>1
    <2>3. D \cap (1 .. rest) = 1 .. rest
      <3> HIDE DEF rest
      <3>1. QED
        BY <1>1, <1>11, <2>1
    <2>4. Cardinality(1 .. rest) = rest
      <3> HIDE DEF rest
      <3>1. 1 \in Int /\ rest \in Int
        BY <2>1
      <3>2. Cardinality(1 .. rest) = IF 1 > rest THEN 0 ELSE rest - 1 + 1
        BY <3>1, FS_Interval
      <3>3. QED
        BY <2>1, <3>2
    <2> HIDE DEF one, rest
    <2>5. SumFunctionOnSet(one, D) = Cardinality(D \cap (1 .. rest))
      BY <1>2, <2>2, SumOfOnes
    <2>6. QED
      BY <2>3, <2>4, <2>5
  <1>13. SumFunctionOnSet(s, D) = SumFunctionOnSet(fl, D) + SumFunctionOnSet(one, D)
    <2>1. \A i \in D : fl[i] \in Int /\ one[i] \in Int /\ s[i] = fl[i] + one[i]
      BY <1>6
    <2> HIDE DEF fl, one, s
    <2>2. QED
      BY <1>2, <2>1, SumOfTwo
  <1>14. DOMAIN s = D
    OBVIOUS
  <1>15. SumFunction(s) = a
    <2>1. SumFunction(s) = SumFunctionOnSet(s, D)
      BY <1>14 DEF SumFunction
    <2>2. rest = a - SumFunctionOnSet(fl, D)
      BY <1>9
    <2> HIDE DEF s, fl, one, rest
    <2>3. QED
      BY <1>9, <1>12, <1>13, <2>1, <2>2
  <1>16. ASSUME NEW i \in D, NEW j \in D, w[i] = w[j] PROVE s[i] - s[j] \in {-1, 0, 1}
    <2>1. fl[i] = fl[j] /\ fl[i] \in Nat
      BY <1>6, <1>16
    <2>2. \E b, c \in {0, 1} : s[i] = fl[i] + b /\ s[j] = fl[j] + c
      OBVIOUS
    <2> HIDE DEF s, fl
    <2>3. QED
      BY <2>1, <2>2
  <1>17. QED
    <2> HIDE DEF s
    <2>1. QED
      BY <1>4, <1>14, <1>15, <1>16 DEF D

\* Equal parts of a total that has a unit for each: all of them positive.
LEMMA EqualParts ==
  ASSUME NEW a \in Nat, NEW n \in Nat, n >= 2, a >= n
  PROVE  LET s == Amounts!allocate(a, [i \in 1 .. n |-> 1]) IN
         /\ SumFunction(s) = a /\ DOMAIN s = 1 .. n
         /\ \A i, j \in 1 .. n : s[i] - s[j] \in {-1, 0, 1}
         /\ \A i \in 1 .. n : s[i] > 0
  <1> DEFINE w == [i \in 1 .. n |-> 1]
             s == Amounts!allocate(a, w)
  <1>1. w \in Seq(Nat) /\ w # <<>> /\ DOMAIN w = 1 .. n /\ \A i \in 1 .. n : w[i] = 1
    BY 1 \in 1 .. n
  <1>2. IsFiniteSet(1 .. n) /\ Cardinality(1 .. n) = n
    BY FS_Interval
  <1>3. SumFunction(w) = n
    <2>1. \A i \in 1 .. n : w[i] = IF i \in 1 .. n THEN 1 ELSE 0
      OBVIOUS
    <2> HIDE DEF w
    <2>2. SumFunctionOnSet(w, 1 .. n) = Cardinality((1 .. n) \cap (1 .. n))
      BY <1>2, <2>1, SumOfOnes
    <2>3. QED
      BY <1>1, <1>2, <2>2 DEF SumFunction
  <1> HIDE DEF w
  <1>4. /\ SumFunction(s) = a /\ DOMAIN s = DOMAIN w
        /\ \A i, j \in DOMAIN w : w[i] = w[j] => s[i] - s[j] \in {-1, 0, 1}
    BY <1>1, <1>3, AllocatedToTheUnit
  <1>5. ASSUME NEW i \in 1 .. n PROVE s[i] > 0
    <2> DEFINE fl == [x \in DOMAIN w |-> (a * w[x]) \div SumFunction(w)]
               rest == a - SumFunction(fl)
    <2>1. s = [x \in DOMAIN w |-> fl[x] + (IF x <= rest THEN 1 ELSE 0)]
      BY AmountsSum DEF Amounts!allocate
    <2>2. fl[i] = a \div n
      BY <1>1, <1>3
    <2>3. a \div n \in Nat /\ a \div n > 0
      <3>1. \A x, y \in Nat : y > 0 => x \div y \in Int /\ x < y * (x \div y + 1)
        OBVIOUS
      <3>2. a \div n \in Int /\ a < n * (a \div n + 1)
        BY <3>1
      <3>3. \A q \in Int : q <= 0 => n * (q + 1) <= n
        BY n > 0
      <3>4. QED
        BY <3>2, <3>3
    <2> HIDE DEF fl, rest, s
    <2>4. s[i] = fl[i] + (IF i <= rest THEN 1 ELSE 0)
      BY <1>1, <2>1
    <2>5. QED
      BY <2>2, <2>3, <2>4
  <1>6. QED
    BY <1>1, <1>4, <1>5 DEF w

-----------------------------------------------------------------------------
\* The order that is priced.
LEMMA Priced ==
  ASSUME AmountsInv, NEW subtotal \in Amount, NEW d \in Length, Amounts!price(subtotal, d)
  PROVE  AmountsInv'
  <1> DEFINE gross == Amounts!gross_fee(tariff, d)
             fee == IF Amounts!is_free(tariff, subtotal) THEN 0 ELSE gross
             discount == IF code = None THEN 0 ELSE Amounts!_compute(code, subtotal, fee)
             o == [subtotal |-> subtotal, fee |-> fee, gross |-> gross, discount |-> discount,
                   total |-> subtotal + fee - discount, courier |-> 0]
             courier == Amounts!courier_fee_for(o)
  <1>1. /\ tariff # None /\ priced = Amounts!Unpriced
        /\ priced' = [o EXCEPT !.courier = courier]
        /\ UNCHANGED <<tariff, code, stated, shares>>
    BY DEF Amounts!price
  <1>2. subtotal \in Nat /\ tariff \in Amounts!DeliveryZone /\ (code # None => code \in Amounts!Promotion)
    BY <1>1, AmountsAssumption DEF AmountsInv
  <1>3. gross \in Nat
    BY <1>2, GrossIsNatural
  <1>4. fee \in Nat
    BY <1>3
  <1>5. /\ discount \in Nat /\ discount <= subtotal + fee
        /\ code # None /\ code.max # None => discount <= code.max
    <2> HIDE DEF fee
    <2>1. CASE code = None
      BY <1>2, <1>4, <2>1
    <2>2. CASE code # None
      BY <1>2, <1>4, <2>2, DiscountIsBounded
    <2>3. QED
      BY <2>1, <2>2
  <1>6. /\ courier \in Nat
        /\ 200 * courier <= 2 * gross * Share + 100
        /\ 200 * courier > 2 * gross * Share - 100
    <2>1. courier = Amounts!percentage(gross, Share)
      BY DEF Amounts!courier_fee_for
    <2> HIDE DEF gross, courier
    <2>2. QED
      BY <1>3, <2>1, PercentageRounds, AmountsAssumption
  <1> HIDE DEF gross, discount, fee, courier
  <1>7. /\ priced'.subtotal = subtotal /\ priced'.fee = fee /\ priced'.gross = gross
        /\ priced'.discount = discount /\ priced'.total = subtotal + fee - discount
        /\ priced'.courier = courier
        /\ priced' \in [subtotal : Nat, fee : Nat, gross : Nat, discount : Nat, total : Int, courier : Nat]
    BY <1>1, <1>2, <1>3, <1>4, <1>5, <1>6
  <1>8. subtotal + fee - discount \in Nat
    BY <1>2, <1>4, <1>5
  <1>9. priced' \in OrderRow
    BY <1>7, <1>8 DEF OrderRow
  <1>10. shares' = <<>>
    BY <1>1 DEF AmountsInv
  <1>11. Amounts!TotalIsNotNegative' /\ Amounts!CourierIsPaidTheCourse' /\ Amounts!SharesAreTheTotal'
    <2>1. Amounts!TotalIsNotNegative'
      BY <1>1, <1>5, <1>7, <1>8 DEF Amounts!TotalIsNotNegative
    <2>2. Amounts!CourierIsPaidTheCourse'
      BY <1>6, <1>7 DEF Amounts!CourierIsPaidTheCourse
    <2>3. Amounts!SharesAreTheTotal'
      BY <1>10 DEF Amounts!SharesAreTheTotal
    <2>4. QED
      BY <2>1, <2>2, <2>3
  <1>12. QED
    BY <1>1, <1>9, <1>10, <1>11 DEF AmountsInv

LEMMA AmountsStep == AmountsInv /\ [Amounts!Next]_(Amounts!vars) => AmountsInv'
  <1> SUFFICES ASSUME AmountsInv, [Amounts!Next]_(Amounts!vars) PROVE AmountsInv'
    OBVIOUS
  <1>1. CASE UNCHANGED Amounts!vars
    BY <1>1 DEF Amounts!vars, AmountsInv, Amounts!TotalIsNotNegative, Amounts!CourierIsPaidTheCourse,
      Amounts!SharesAreTheTotal
  <1>2. ASSUME NEW t \in Amounts!DeliveryZone, Amounts!set_tariff(t) PROVE AmountsInv'
    BY <1>2 DEF Amounts!set_tariff, AmountsInv, Amounts!TotalIsNotNegative, Amounts!CourierIsPaidTheCourse,
      Amounts!SharesAreTheTotal
  <1>3. ASSUME NEW c \in Amounts!Promotion, Amounts!set_code(c) PROVE AmountsInv'
    BY <1>3 DEF Amounts!set_code, AmountsInv, Amounts!TotalIsNotNegative, Amounts!CourierIsPaidTheCourse,
      Amounts!SharesAreTheTotal
  <1>4. ASSUME NEW subtotal \in Amount, NEW d \in Length, Amounts!price(subtotal, d) PROVE AmountsInv'
    BY <1>4, Priced
  <1>5. ASSUME NEW n \in Participants, Amounts!split_equally(n) PROVE AmountsInv'
    <2> DEFINE s == Amounts!allocate(priced.total, [i \in 1 .. n |-> 1])
    <2>1. n \in Nat /\ n >= 2 /\ priced.total \in Nat /\ priced.total >= n
      BY <1>5, AmountsAssumption DEF Amounts!split_equally, AmountsInv, OrderRow
    <2>2. /\ SumFunction(s) = priced.total /\ DOMAIN s = 1 .. n
          /\ \A i, j \in 1 .. n : s[i] - s[j] \in {-1, 0, 1}
          /\ \A i \in 1 .. n : s[i] > 0
      BY <2>1, EqualParts
    <2>3. shares' = s /\ priced # Amounts!Unpriced /\ UNCHANGED <<tariff, code, priced>>
      BY <1>5 DEF Amounts!split_equally
    <2> HIDE DEF s
    <2>4. Amounts!SharesAreTheTotal'
      BY <2>2, <2>3, AmountsSum DEF Amounts!SharesAreTheTotal
    <2>5. QED
      BY <2>3, <2>4 DEF AmountsInv, Amounts!TotalIsNotNegative, Amounts!CourierIsPaidTheCourse
  <1>6. ASSUME NEW s \in Stated, Amounts!split_as_stated(s) PROVE AmountsInv'
    <2>1. /\ stated' = s /\ shares' = s /\ priced # Amounts!Unpriced /\ UNCHANGED <<tariff, code, priced>>
          /\ s \in Seq(Nat) /\ Len(s) >= 2 /\ Amounts!SumFunction(s) = priced.total /\ \A i \in DOMAIN s : s[i] > 0
      BY <1>6, AmountsAssumption DEF Amounts!split_as_stated
    <2>2. stated' # <<>>
      BY <2>1
    <2>3. Amounts!SharesAreTheTotal'
      BY <2>1, <2>2 DEF Amounts!SharesAreTheTotal
    <2>4. QED
      BY <2>1, <2>3 DEF AmountsInv, Amounts!TotalIsNotNegative, Amounts!CourierIsPaidTheCourse
  <1>7. QED
    BY <1>1, <1>2, <1>3, <1>4, <1>5, <1>6 DEF Amounts!Next

-----------------------------------------------------------------------------
(* The whole *)

\* Every step of the whole is a step of each component, or leaves it alone.
LEMMA StepsOfTheParts ==
  ASSUME [Next]_vars
  PROVE  /\ part' = part
         /\ [Staff!Next]_(Staff!vars)
         /\ [CourierFile!Next]_(CourierFile!vars)
         /\ [CourierAccount!Next]_(CourierAccount!vars)
         /\ part # "copies" => [Restaurants(Opened)!Next]_(Restaurants(Opened)!vars)
         /\ part = "copies" => [Restaurants(Copied)!Next]_(Restaurants(Copied)!vars)
         /\ part = "routes" => [Routes!NextAnnounced]_(Routes!vars)
         /\ part # "routes" => UNCHANGED Routes!vars
         /\ [Hours!Next]_(Hours!vars)
         /\ part # "crowd" => [Coverage(Mapped)!Next]_(Coverage(Mapped)!vars)
         /\ part = "crowd" => [Coverage(Crowded)!Next]_(Coverage(Crowded)!vars)
         /\ [Amounts!Next]_(Amounts!vars)
  <1>0. part' = part
    BY DEF Next, vars
  <1>1. [Staff!Next]_(Staff!vars)
    BY DEF Next, vars, staffVars, Staff!vars
  <1>2. [CourierFile!Next]_(CourierFile!vars)
    BY DEF Next, vars, courier_fileVars, CourierFile!vars
  <1>3. [CourierAccount!Next]_(CourierAccount!vars)
    BY DEF Next, vars, courier_accountVars, CourierAccount!vars
  <1>4. part # "copies" => [Restaurants(Opened)!Next]_(Restaurants(Opened)!vars)
    BY DEF Next, vars, restaurantVars, Restaurants!vars
  <1>5. part = "copies" => [Restaurants(Copied)!Next]_(Restaurants(Copied)!vars)
    BY DEF Next, vars, restaurantVars, Restaurants!vars
  <1>6. [Hours!Next]_(Hours!vars)
    BY DEF Next, vars, hoursVars, Hours!vars
  <1>7. /\ part # "crowd" => [Coverage(Mapped)!Next]_(Coverage(Mapped)!vars)
        /\ part = "crowd" => [Coverage(Crowded)!Next]_(Coverage(Crowded)!vars)
    BY DEF Next, vars, coverageVars, Coverage!vars
  <1>8. [Amounts!Next]_(Amounts!vars)
    BY DEF Next, vars, amountsVars, Amounts!vars
  <1>9. part = "routes" => [Routes!NextAnnounced]_(Routes!vars)
    BY DEF Next, vars, routesVars, Routes!vars
  <1>10. part # "routes" => UNCHANGED Routes!vars
    BY DEF Next, vars, routesVars, Routes!vars
  <1>11. QED
    BY <1>0, <1>1, <1>2, <1>3, <1>4, <1>5, <1>6, <1>7, <1>8, <1>9, <1>10

LEMMA StartsOfTheParts ==
  Init => /\ Staff!Init /\ CourierFile!Init /\ CourierAccount!Init
          /\ part # "copies" => Restaurants(Opened)!Init
          /\ part = "copies" => Restaurants(Copied)!Init
          /\ part = "routes" => Routes!Init
          /\ Hours!Init /\ Amounts!Init
          /\ \A n : Coverage(n)!Init
  BY DEF Init, Coverage!Init, Coverage!NoAnswer

\* Nobody ends up with more than the head office gave to one account, and
\* those who are told of a restaurant may open it (assert_can_manage,
\* _assert_not_escalating, staff_to_alert).
THEOREM RightsAreGrantedInvariant == Spec => []RightsAreGranted
  <1>1. Init => StaffInv
    BY StartsOfTheParts, StaffInit
  <1>2. StaffInv /\ [Next]_vars => StaffInv'
    BY StepsOfTheParts, StaffStep
  <1>3. StaffInv => RightsAreGranted
    BY StaffInvImplies DEF RightsAreGranted
  <1>4. QED
    BY <1>1, <1>2, <1>3, PTL DEF Spec

\* An approved file was read, an expiry is announced once, and the file
\* follows its machine (replace_documents, review, remind_document_expiry).
THEOREM FilesAreReadAlways == Spec => FilesAreRead
  <1> DEFINE Machine == crossed_courie' \/ file'.status = file.status
                        \/ CourierFile!can(CourierFile!VERIFICATION_TRANSITIONS, file.status, file'.status)
  <1>1. Init => FileInv
    BY StartsOfTheParts, FileInit
  <1>2. FileInv /\ [Next]_vars => FileInv' /\ [Machine]_(CourierFile!vars)
    BY StepsOfTheParts, FileStep
  <1>3. FileInv => /\ part = "courier_file" => CourierFile!ApprovedFileWasRead
                   /\ part = "courier_file" => CourierFile!RemindedOnce
    BY FileInvImplies DEF FileInv
  <1>4. QED
    BY <1>1, <1>2, <1>3, PTL DEF Spec, FilesAreRead, CourierFile!FileFollowsItsMachine

\* What was earned is in the account, asked for or paid, and the average stays
\* within its rounding of the scores (_credit, request, settle, fail, rate).
THEOREM CourierIsOwedInvariant == Spec => []CourierIsOwedWhatWasEarned
  <1>1. Init => AccountInv
    BY StartsOfTheParts, AccountInit
  <1>2. AccountInv /\ [Next]_vars => AccountInv'
    BY StepsOfTheParts, AccountStep
  <1>3. AccountInv => CourierIsOwedWhatWasEarned
    BY DEF AccountInv, CourierIsOwedWhatWasEarned
  <1>4. QED
    BY <1>1, <1>2, <1>3, PTL DEF Spec

\* An establishment customers know had no gap when it was put in service, but
\* where its row, zone, market or settings changed between the judgement of a
\* request and its write, and only requests that cross part its flag from its
\* status or leave its machine (transition_to, save, perform_update, duplicate).
THEOREM KitchensAreKnownAndCompleteAlways == Spec => KitchensAreKnownAndComplete
  <1> DEFINE Inv == /\ part # "copies" => EstablishmentInv(Opened)
                    /\ part = "copies" => EstablishmentInv(Copied)
             Machine == /\ part = "restaurant" => Restaurants(Opened)!StatusFollows
                        /\ part = "copies" => Restaurants(Copied)!StatusFollows
  <1>1. Init => Inv
    BY StartsOfTheParts, EstablishmentInit
  <1>2. Inv /\ [Next]_vars => Inv' /\ [Machine]_vars
    <2> SUFFICES ASSUME Inv, [Next]_vars PROVE Inv' /\ Machine
      OBVIOUS
    <2>1. CASE part = "copies"
      <3>1. EstablishmentInv(Copied)' /\ Restaurants(Copied)!StatusFollows
        BY <2>1, StepsOfTheParts, EstablishmentStep DEF Restaurants!StatusFollows, Follows
      <3>2. QED
        BY <2>1, <3>1, StepsOfTheParts
    <2>2. CASE part # "copies"
      <3>1. EstablishmentInv(Opened)' /\ Restaurants(Opened)!StatusFollows
        BY <2>2, StepsOfTheParts, EstablishmentStep DEF Restaurants!StatusFollows, Follows
      <3>2. QED
        BY <2>2, <3>1, StepsOfTheParts
    <2>3. QED
      BY <2>1, <2>2
  <1>3. Inv => /\ part = "copies" => Restaurants(Copied)!KnownKitchenWasComplete
               /\ part = "restaurant" => Restaurants(Opened)!KnownKitchenWasComplete
               /\ part = "restaurant" => Restaurants(Opened)!FlagPartsOnlyWhenCrossed
    BY DEF EstablishmentInv
  <1>4. QED
    BY <1>1, <1>2, <1>3, PTL DEF Spec, KitchensAreKnownAndComplete

\* Through whatever chain of requests and changes of rights, every view of the
\* API keeps each account to its own rows, the clerk to their perimeter and the
\* rows of the brand to the head office, and who is told of a row may open it
\* (scoping.py, permissions.py, the views, receivers.py).
THEOREM EachToTheirOwnRowsAlways == Spec => EachToTheirOwnRows
  <1> DEFINE Inv == part = "routes" => RoutesInv
  <1>1. Init => Inv
    BY StartsOfTheParts, RoutesInit
  <1>2. Inv /\ [Next]_vars => /\ Inv'
                             /\ [Routes!InThePerimeter]_(Routes!vars) /\ [Routes!ByTheHeadOffice]_(Routes!vars)
                             /\ [Routes!OnOnesOwnRows]_(Routes!vars) /\ [Routes!NothingByReaders]_(Routes!vars)
    <2> SUFFICES ASSUME Inv, [Next]_vars
                 PROVE  /\ Inv'
                        /\ [Routes!InThePerimeter]_(Routes!vars) /\ [Routes!ByTheHeadOffice]_(Routes!vars)
                        /\ [Routes!OnOnesOwnRows]_(Routes!vars) /\ [Routes!NothingByReaders]_(Routes!vars)
      OBVIOUS
    <2>1. CASE part = "routes"
      <3>1. RoutesInv /\ [Routes!NextAnnounced]_(Routes!vars)
        BY <2>1, StepsOfTheParts
      <3>2. RoutesInv'
        BY <3>1, RoutesStep
      <3>3. Routes!InThePerimeter /\ Routes!ByTheHeadOffice /\ Routes!OnOnesOwnRows /\ Routes!NothingByReaders
        BY <3>1, RoutesKeepThePerimeter, RoutesKeepTheBrand, RoutesKeepToTheirOwn, RoutesKeepToReading
      <3>4. QED
        BY <3>2, <3>3
    <2>2. CASE part # "routes"
      BY <2>2, StepsOfTheParts
    <2>3. QED
      BY <2>1, <2>2
  <1>3. Inv => (part = "routes" => Routes!WhoeverIsToldCanOpenIt)
    BY ToldMayOpen
  <1>4. QED
    BY <1>1, <1>2, <1>3, PTL
    DEF Spec, EachToTheirOwnRows, Routes!WritesStayInThePerimeter, Routes!OnlyTheHeadOfficeWritesTheBrand,
      Routes!OthersRowsAreClosed, Routes!ReadersWriteNothing

\* A customer may order exactly in service, and a closed kitchen announces the
\* first instant of service to come (is_open_at, closure_at, next_opening).
THEOREM OrderableInServiceInvariant == Spec => []OrderableInService
  <1>1. Init => HoursInv
    BY StartsOfTheParts, HoursInit
  <1>2. HoursInv /\ [Next]_vars => HoursInv'
    BY StepsOfTheParts, HoursStep
  <1>3. HoursInv => OrderableInService
    BY DEF HoursInv, OrderableInService
  <1>4. QED
    BY <1>1, <1>2, <1>3, PTL DEF Spec

\* The kitchen that was found has a zone that covers the address, of its own
\* or of its city, it is the nearest one that takes orders but for the cut of
\* the candidates, and its delivery is quoted (_desservantes, resolve_zone,
\* _cuisine_pour_le_point, check_delivery).
THEOREM FoundKitchenServesInvariant == Spec => []FoundKitchenServes
  <1> DEFINE Inv == /\ part # "crowd" => CoverageInv(Mapped)
                    /\ part = "crowd" => CoverageInv(Crowded)
  <1>1. Init => Inv
    BY StartsOfTheParts, CoverageInit
  <1>2. Inv /\ [Next]_vars => Inv'
    <2> SUFFICES ASSUME Inv, [Next]_vars PROVE Inv'
      OBVIOUS
    <2>1. CASE part = "crowd"
      <3>1. CoverageInv(Crowded)'
        BY <2>1, StepsOfTheParts, CoverageStep
      <3>2. QED
        BY <2>1, <3>1, StepsOfTheParts
    <2>2. CASE part # "crowd"
      <3>1. CoverageInv(Mapped)'
        BY <2>2, StepsOfTheParts, CoverageStep
      <3>2. QED
        BY <2>2, <3>1, StepsOfTheParts
    <2>3. QED
      BY <2>1, <2>2
  <1>3. Inv => FoundKitchenServes
    <2> SUFFICES ASSUME Inv PROVE FoundKitchenServes
      OBVIOUS
    <2>1. CASE part = "crowd"
      BY <2>1, CoverageInvImplies DEF FoundKitchenServes
    <2>2. CASE part # "crowd"
      BY <2>2, CoverageInvImplies DEF FoundKitchenServes
    <2>3. QED
      BY <2>1, <2>2
  <1>4. QED
    BY <1>1, <1>2, <1>3, PTL DEF Spec

\* A total is not negative, the courier is paid the course, and the shares,
\* equal or stated, are positive and the total to the last unit (quote, discount,
\* Money.allocate, SplitService._allocate).
THEOREM AmountsAddInvariant == Spec => []AmountsAdd
  <1>1. Init => AmountsInv
    BY StartsOfTheParts, AmountsInit
  <1>2. AmountsInv /\ [Next]_vars => AmountsInv'
    BY StepsOfTheParts, AmountsStep
  <1>3. AmountsInv => AmountsAdd
    BY DEF AmountsInv, AmountsAdd
  <1>4. QED
    BY <1>1, <1>2, <1>3, PTL DEF Spec

=============================================================================
