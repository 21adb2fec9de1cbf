---------------------------- MODULE PeopleProofs ----------------------------
(***************************************************************************)
(* Theorems about People, for every value of its constants that its        *)
(* assumptions admit.  A section per component gives its inductive         *)
(* invariant; the last one composes them: a step of People is a step of    *)
(* one component and leaves the variables of the others alone, so that     *)
(* each invariant holds in every behaviour of the whole.                   *)
(***************************************************************************)
EXTENDS People, Integers, FiniteSetTheorems, SumTheorems, TLAPS

-----------------------------------------------------------------------------
(* Codes *)

\* What a code has been through: it is compared once per failed attempt, and
\* once when it works, which leaves room for that comparison while it is live.
CodesInv ==
  /\ codes_accoun \in [Code -> Accounts!VerificationCode]
  /\ compared \in [Code -> Nat] /\ worked \in [Code -> {0, 1}]
  /\ \A c \in Code :
       /\ compared[c] = codes_accoun[c].attempts + worked[c]
       /\ compared[c] <= ACCOUNT_VERIFICATION_MAX_ATTEMPTS
       /\ codes_accoun[c].live => worked[c] = 0 /\ codes_accoun[c].attempts < ACCOUNT_VERIFICATION_MAX_ATTEMPTS
       /\ ~ codes_accoun[c].issued => ~ codes_accoun[c].live /\ worked[c] = 0 /\ codes_accoun[c].attempts = 0
  /\ \A c, d \in Code : codes_accoun[c].live /\ codes_accoun[d].live /\ codes_accoun[c].purpose = codes_accoun[d].purpose => c = d

LEMMA CodesInit == Accounts!Init => CodesInv
  BY AccountsAssumption DEF Accounts!Init, CodesInv, Accounts!VerificationCode, Accounts!VerificationPurpose

LEMMA CodesAtRest ==
  ASSUME CodesInv, UNCHANGED <<codes_accoun, compared, worked>>
  PROVE  CodesInv'
  BY DEF CodesInv

\* A new code is the only live one of its purpose.
LEMMA CodeIssued ==
  ASSUME CodesInv, NEW purpose \in Accounts!VerificationPurpose, Accounts!issue(purpose), UNCHANGED <<compared, worked>>
  PROVE  CodesInv'
  <1>1. CASE UNCHANGED codes_accoun
    BY <1>1, CodesAtRest
  <1>2. CASE \E c \in Code :
               /\ ~ codes_accoun[c].issued
               /\ codes_accoun' = [d \in Code |->
                    IF d = c
                    THEN [purpose |-> purpose, issued |-> TRUE, live |-> TRUE, expired |-> FALSE, attempts |-> 0]
                    ELSE IF d \in Accounts!Live(purpose) THEN [codes_accoun[d] EXCEPT !.live = FALSE] ELSE codes_accoun[d]]
    <2>1. PICK c \in Code :
               /\ ~ codes_accoun[c].issued
               /\ codes_accoun' = [d \in Code |->
                    IF d = c
                    THEN [purpose |-> purpose, issued |-> TRUE, live |-> TRUE, expired |-> FALSE, attempts |-> 0]
                    ELSE IF d \in Accounts!Live(purpose) THEN [codes_accoun[d] EXCEPT !.live = FALSE] ELSE codes_accoun[d]]
      BY <1>2
    <2>2. codes_accoun'[c] = [purpose |-> purpose, issued |-> TRUE, live |-> TRUE, expired |-> FALSE, attempts |-> 0]
      BY <2>1
    <2>3. \A d \in Code \ {c} :
            /\ codes_accoun'[d] \in Accounts!VerificationCode
            /\ codes_accoun'[d].attempts = codes_accoun[d].attempts /\ codes_accoun'[d].purpose = codes_accoun[d].purpose
            /\ codes_accoun'[d].issued = codes_accoun[d].issued
            /\ codes_accoun'[d].live => codes_accoun[d].live /\ codes_accoun[d].purpose # purpose
      <3> SUFFICES ASSUME NEW d \in Code \ {c}
                   PROVE  /\ codes_accoun'[d] \in Accounts!VerificationCode
                          /\ codes_accoun'[d].attempts = codes_accoun[d].attempts /\ codes_accoun'[d].purpose = codes_accoun[d].purpose
                          /\ codes_accoun'[d].issued = codes_accoun[d].issued
                          /\ codes_accoun'[d].live => codes_accoun[d].live /\ codes_accoun[d].purpose # purpose
        OBVIOUS
      <3>1. codes_accoun[d] \in Accounts!VerificationCode
        BY DEF CodesInv
      <3>2. codes_accoun'[d] = IF d \in Accounts!Live(purpose) THEN [codes_accoun[d] EXCEPT !.live = FALSE] ELSE codes_accoun[d]
        BY <2>1
      <3>3. CASE d \in Accounts!Live(purpose)
        BY <3>1, <3>2, <3>3 DEF Accounts!VerificationCode
      <3>4. CASE d \notin Accounts!Live(purpose)
        BY <3>1, <3>2, <3>4 DEF Accounts!Live
      <3>5. QED
        BY <3>3, <3>4
    <2>4. codes_accoun' \in [Code -> Accounts!VerificationCode]
      <3>1. codes_accoun'[c] \in Accounts!VerificationCode
        BY <2>2, AccountsAssumption DEF Accounts!VerificationCode
      <3>2. QED
        BY <2>1, <2>3, <3>1
    <2>6. /\ codes_accoun'[c].attempts = 0 /\ codes_accoun'[c].live /\ codes_accoun'[c].purpose = purpose /\ codes_accoun'[c].issued
          /\ codes_accoun[c].attempts = 0 /\ worked[c] = 0 /\ compared[c] = 0
      BY <2>1, <2>2 DEF CodesInv
    <2>7. \A d \in Code :
            /\ compared'[d] = codes_accoun'[d].attempts + worked'[d]
            /\ compared'[d] <= ACCOUNT_VERIFICATION_MAX_ATTEMPTS
            /\ codes_accoun'[d].live => worked'[d] = 0 /\ codes_accoun'[d].attempts < ACCOUNT_VERIFICATION_MAX_ATTEMPTS
            /\ ~ codes_accoun'[d].issued => ~ codes_accoun'[d].live /\ worked'[d] = 0 /\ codes_accoun'[d].attempts = 0
      <3> TAKE d \in Code
      <3>1. CASE d = c
        BY <2>6, <3>1, AccountsAssumption
      <3>2. CASE d # c
        BY <2>3, <3>2 DEF CodesInv
      <3>3. QED
        BY <3>1, <3>2
    <2>8. \A d, e \in Code : codes_accoun'[d].live /\ codes_accoun'[e].live /\ codes_accoun'[d].purpose = codes_accoun'[e].purpose => d = e
      BY <2>3, <2>6 DEF CodesInv
    <2>9. compared' \in [Code -> Nat] /\ worked' \in [Code -> {0, 1}]
      BY DEF CodesInv
    <2>10. QED
      BY <2>4, <2>7, <2>8, <2>9 DEF CodesInv
  <1>3. QED
    BY <1>1, <1>2 DEF Accounts!issue

\* A row of a code is written where it was live: it stays of its purpose, and
\* nothing is made live.
LEMMA CodeWritten ==
  ASSUME CodesInv, NEW c \in Code, codes_accoun[c].live,
         NEW row \in Accounts!VerificationCode, codes_accoun' = [codes_accoun EXCEPT ![c] = row],
         row.purpose = codes_accoun[c].purpose, row.issued,
         compared' \in [Code -> Nat], worked' \in [Code -> {0, 1}],
         \A d \in Code \ {c} : compared'[d] = compared[d] /\ worked'[d] = worked[d],
         compared'[c] = row.attempts + worked'[c],
         compared'[c] <= ACCOUNT_VERIFICATION_MAX_ATTEMPTS,
         row.live => worked'[c] = 0 /\ row.attempts < ACCOUNT_VERIFICATION_MAX_ATTEMPTS
  PROVE  CodesInv'
  <1>1. codes_accoun' \in [Code -> Accounts!VerificationCode] /\ codes_accoun'[c] = row /\ \A d \in Code \ {c} : codes_accoun'[d] = codes_accoun[d]
    BY DEF CodesInv
  <1>2. \A d \in Code :
          /\ compared'[d] = codes_accoun'[d].attempts + worked'[d]
          /\ compared'[d] <= ACCOUNT_VERIFICATION_MAX_ATTEMPTS
          /\ codes_accoun'[d].live => worked'[d] = 0 /\ codes_accoun'[d].attempts < ACCOUNT_VERIFICATION_MAX_ATTEMPTS
          /\ ~ codes_accoun'[d].issued => ~ codes_accoun'[d].live /\ worked'[d] = 0 /\ codes_accoun'[d].attempts = 0
    <2> TAKE d \in Code
    <2>1. CASE d = c
      BY <1>1, <2>1
    <2>2. CASE d # c
      BY <1>1, <2>2 DEF CodesInv
    <2>3. QED
      BY <2>1, <2>2
  <1>3. \A d, e \in Code : codes_accoun'[d].live /\ codes_accoun'[e].live /\ codes_accoun'[d].purpose = codes_accoun'[e].purpose => d = e
    BY <1>1 DEF CodesInv
  <1>4. QED
    BY <1>1, <1>2, <1>3 DEF CodesInv

LEMMA CodeExpires ==
  ASSUME CodesInv, NEW c \in Code, Accounts!code_expires(c)
  PROVE  CodesInv'
  <1> DEFINE row == [codes_accoun[c] EXCEPT !.expired = TRUE]
  <1>1. codes_accoun[c] \in Accounts!VerificationCode /\ codes_accoun[c].live /\ codes_accoun' = [codes_accoun EXCEPT ![c] = row]
        /\ UNCHANGED <<compared, worked>>
    BY DEF Accounts!code_expires, CodesInv
  <1>2. /\ row \in Accounts!VerificationCode
        /\ row.issued = codes_accoun[c].issued /\ row.live = codes_accoun[c].live
        /\ row.purpose = codes_accoun[c].purpose /\ row.attempts = codes_accoun[c].attempts
    BY <1>1 DEF Accounts!VerificationCode
  <1> HIDE DEF row
  <1>4. row.issued
    BY <1>1, <1>2 DEF CodesInv
  <1>5. QED
    BY <1>1, <1>2, <1>4, CodeWritten DEF CodesInv

LEMMA WrongGuess ==
  ASSUME CodesInv, NEW purpose \in Accounts!VerificationPurpose, Accounts!wrong_guess(purpose)
  PROVE  CodesInv'
  <1>1. PICK c \in Accounts!Usable(purpose) :
          Accounts!fails(c) /\ compared' = [compared EXCEPT ![c] = @ + 1] /\ UNCHANGED worked
    BY DEF Accounts!wrong_guess
  <1> DEFINE more == codes_accoun[c].attempts + 1
             row == [codes_accoun[c] EXCEPT !.attempts = more, !.live = more < ACCOUNT_VERIFICATION_MAX_ATTEMPTS]
  <1>2. c \in Code /\ codes_accoun[c].live /\ codes_accoun[c] \in Accounts!VerificationCode
    BY DEF Accounts!Usable, Accounts!Live, CodesInv
  <1>3. codes_accoun' = [codes_accoun EXCEPT ![c] = row]
    BY <1>1, <1>2 DEF Accounts!fails, CodesInv
  <1>4. /\ worked[c] = 0 /\ codes_accoun[c].attempts < ACCOUNT_VERIFICATION_MAX_ATTEMPTS
        /\ compared[c] = codes_accoun[c].attempts /\ codes_accoun[c].issued
        /\ codes_accoun[c].attempts \in Nat
    BY <1>2, AccountsAssumption DEF CodesInv, Accounts!VerificationCode
  <1>5. more \in 0 .. ACCOUNT_VERIFICATION_MAX_ATTEMPTS /\ more \in Nat
    BY <1>4, AccountsAssumption
  <1> HIDE DEF more
  <1>6. (more < ACCOUNT_VERIFICATION_MAX_ATTEMPTS) \in BOOLEAN
    BY <1>5, AccountsAssumption
  <1>7. row \in Accounts!VerificationCode
    BY <1>2, <1>5, <1>6 DEF Accounts!VerificationCode
  <1>8. /\ row.issued = codes_accoun[c].issued /\ row.purpose = codes_accoun[c].purpose /\ row.attempts = more
        /\ row.live = (more < ACCOUNT_VERIFICATION_MAX_ATTEMPTS)
    BY <1>2 DEF Accounts!VerificationCode
  <1> HIDE DEF row
  <1>9. compared' \in [Code -> Nat] /\ compared'[c] = more /\ \A d \in Code \ {c} : compared'[d] = compared[d]
    BY <1>1, <1>2, <1>4 DEF CodesInv, more
  <1>10. worked' \in [Code -> {0, 1}] /\ worked'[c] = 0 /\ \A d \in Code \ {c} : worked'[d] = worked[d]
    BY <1>1, <1>2, <1>4 DEF CodesInv
  <1>11. compared'[c] = row.attempts + worked'[c] /\ compared'[c] <= ACCOUNT_VERIFICATION_MAX_ATTEMPTS
    BY <1>5, <1>8, <1>9, <1>10
  <1>12. QED
    BY <1>2, <1>3, <1>4, <1>7, <1>8, <1>9, <1>10, <1>11, CodeWritten

LEMMA Consumed ==
  ASSUME CodesInv, NEW purpose \in Accounts!VerificationPurpose, Accounts!consume(purpose)
  PROVE  CodesInv'
  <1>1. PICK c \in Accounts!Usable(purpose) :
          /\ codes_accoun' = [codes_accoun EXCEPT ![c].live = FALSE]
          /\ compared' = [compared EXCEPT ![c] = @ + 1]
          /\ worked' = [worked EXCEPT ![c] = @ + 1]
    BY DEF Accounts!consume
  <1> DEFINE row == [codes_accoun[c] EXCEPT !.live = FALSE]
  <1>2. c \in Code /\ codes_accoun[c].live /\ codes_accoun[c] \in Accounts!VerificationCode
    BY DEF Accounts!Usable, Accounts!Live, CodesInv
  <1>3. codes_accoun' = [codes_accoun EXCEPT ![c] = row]
    BY <1>1, <1>2 DEF CodesInv
  <1>4. /\ row \in Accounts!VerificationCode
        /\ ~ row.live /\ row.issued = codes_accoun[c].issued
        /\ row.purpose = codes_accoun[c].purpose /\ row.attempts = codes_accoun[c].attempts
    BY <1>2 DEF Accounts!VerificationCode
  <1>6. /\ worked[c] = 0 /\ codes_accoun[c].attempts < ACCOUNT_VERIFICATION_MAX_ATTEMPTS
        /\ compared[c] = codes_accoun[c].attempts /\ codes_accoun[c].issued
        /\ codes_accoun[c].attempts \in Nat
    BY <1>2, AccountsAssumption DEF CodesInv, Accounts!VerificationCode
  <1>7. ~ row.live /\ row.issued /\ row.purpose = codes_accoun[c].purpose /\ row.attempts = codes_accoun[c].attempts
    BY <1>4, <1>6
  <1> HIDE DEF row
  <1>8. /\ compared' \in [Code -> Nat] /\ compared'[c] = codes_accoun[c].attempts + 1
        /\ \A d \in Code \ {c} : compared'[d] = compared[d]
    BY <1>1, <1>2, <1>6 DEF CodesInv
  <1>9. /\ worked' \in [Code -> {0, 1}] /\ worked'[c] = 1
        /\ \A d \in Code \ {c} : worked'[d] = worked[d]
    BY <1>1, <1>2, <1>6 DEF CodesInv
  <1>10. compared'[c] = row.attempts + worked'[c] /\ compared'[c] <= ACCOUNT_VERIFICATION_MAX_ATTEMPTS
    BY <1>6, <1>7, <1>8, <1>9, AccountsAssumption
  <1>11. QED
    BY <1>2, <1>3, <1>4, <1>7, <1>8, <1>9, <1>10, CodeWritten

LEMMA CodesStep ==
  ASSUME CodesInv, [Accounts!Next]_(Accounts!vars)
  PROVE  CodesInv'
  <1>1. ASSUME Accounts!register \/ Accounts!resend \/ Accounts!reset_request PROVE CodesInv'
    BY <1>1, CodeIssued DEF Accounts!register, Accounts!resend, Accounts!reset_request, Accounts!VerificationPurpose
  <1>2. ASSUME NEW c \in Code, Accounts!code_expires(c) PROVE CodesInv'
    BY <1>2, CodeExpires
  <1>3. ASSUME NEW purpose \in Accounts!VerificationPurpose, Accounts!wrong_guess(purpose) PROVE CodesInv'
    BY <1>3, WrongGuess
  <1>4. ASSUME NEW s \in Session, Accounts!confirm_account(s) PROVE CodesInv'
    BY <1>4, Consumed DEF Accounts!confirm_account, Accounts!VerificationPurpose
  <1>5. ASSUME Accounts!reset_password PROVE CodesInv'
    BY <1>5, Consumed DEF Accounts!reset_password, Accounts!VerificationPurpose
  <1>6. ASSUME NEW s \in Session,
               \/ Accounts!login(s) \/ Accounts!issue_tokens(s) \/ Accounts!logout(s)
               \/ Accounts!change_password(s) \/ Accounts!password_changed(s) \/ Accounts!password_reset(s)
        PROVE  CodesInv'
    BY <1>6, CodesAtRest DEF Accounts!login, Accounts!issue_tokens, Accounts!logout, Accounts!change_password, Accounts!password_changed, Accounts!password_reset
  <1>7. ASSUME Accounts!block \/ Accounts!sessions_closed \/ Accounts!unblock \/ Accounts!me_reads \/ Accounts!patch \/ UNCHANGED Accounts!vars PROVE CodesInv'
    BY <1>7, CodesAtRest DEF Accounts!block, Accounts!sessions_closed, Accounts!unblock, Accounts!me_reads, Accounts!patch, Accounts!vars
  <1>8. QED
    BY <1>1, <1>2, <1>3, <1>4, <1>5, <1>6, <1>7 DEF Accounts!Next

\* The cardinality the component counts with is the one of the theorems.
LEMMA AccountsCount == \A S : Accounts!Cardinality(S) = Cardinality(S)
  BY DEF Accounts!Cardinality, Cardinality

LEMMA CodesInvImplies == CodesInv => Accounts!CodesCannotBeGuessed
  <1> SUFFICES ASSUME CodesInv PROVE Accounts!CodesCannotBeGuessed
    OBVIOUS
  <1>1. ASSUME NEW purpose \in Accounts!VerificationPurpose PROVE Cardinality(Accounts!Live(purpose)) <= 1
    <2>1. CASE Accounts!Live(purpose) = {}
      <3>1. Cardinality(Accounts!Live(purpose)) = 0
        BY <2>1, FS_EmptySet
      <3>2. QED
        BY <3>1
    <2>2. CASE Accounts!Live(purpose) # {}
      <3>1. PICK c \in Accounts!Live(purpose) : TRUE
        BY <2>2
      <3>2. Accounts!Live(purpose) = {c}
        BY <3>1 DEF Accounts!Live, CodesInv
      <3>3. Cardinality(Accounts!Live(purpose)) = 1
        BY <3>2, FS_Singleton
      <3>4. QED
        BY <3>3
    <2>3. QED
      BY <2>1, <2>2
  <1>2. \A c \in Code : codes_accoun[c] \in Accounts!VerificationCode /\ worked[c] <= 1 /\ compared[c] <= ACCOUNT_VERIFICATION_MAX_ATTEMPTS
    BY DEF CodesInv
  <1>3. QED
    BY <1>1, <1>2, AccountsCount DEF Accounts!CodesCannotBeGuessed

-----------------------------------------------------------------------------
(* Sessions *)

AccountRow == [verified : BOOLEAN, active : BOOLEAN, secret : 0 .. MaxSecret]

AccountTypes ==
  /\ account_accoun \in AccountRow /\ profile_accoun \in AccountRow
  /\ opening \in [Session -> 0 .. MaxSecret]
  /\ sessions \in [Session -> Accounts!OutstandingToken]
  /\ revoking \in [{"change", "reset", "block"} -> [listed : SUBSET Session, busy : BOOLEAN]]
  /\ rewritten \in BOOLEAN

\* A session the property is about.
Guarded(s) == sessions[s].status = "live" /\ ~ sessions[s].late /\ ~ rewritten

\* An account nobody has registered yet.
Unregistered ==
  /\ \A s \in Session : sessions[s].status = "none" /\ opening[s] = 0
  /\ \A k \in {"change", "reset", "block"} : ~ revoking[k].busy
  /\ \A c \in Code : ~ codes_accoun[c].live

\* A change or a reset under way holds the password, alone, and has listed
\* every session that was opened with it in time.
RevocationHoldsThePassword ==
  /\ ~ (revoking["change"].busy /\ revoking["reset"].busy)
  /\ \A k \in Accounts!PasswordRevocation : revoking[k].busy =>
       /\ account_accoun.secret + 1 \in 0 .. MaxSecret
       /\ \A s \in Session : Guarded(s) => s \in revoking[k].listed

SessionsInv ==
  /\ AccountTypes
  /\ account_accoun.secret = 0 => Unregistered
  /\ profile_accoun # Accounts!NoProfile => profile_accoun.secret > 0
  /\ RevocationHoldsThePassword
  /\ \A s \in Session : Guarded(s) => sessions[s].secret = account_accoun.secret

LEMMA SessionsInit == Accounts!Init => SessionsInv
  <1> SUFFICES ASSUME Accounts!Init PROVE SessionsInv
    OBVIOUS
  <1> USE AccountsAssumption DEF Accounts!Init
  <1>1. AccountTypes
    <2>1. account_accoun \in AccountRow /\ profile_accoun \in AccountRow
      BY DEF AccountRow, Accounts!NoProfile
    <2>2. opening \in [Session -> 0 .. MaxSecret]
      OBVIOUS
    <2>3. [status |-> "none", secret |-> 0, late |-> FALSE] \in Accounts!OutstandingToken
      BY DEF Accounts!OutstandingToken
    <2>4. Accounts!Idle \in [listed : SUBSET Session, busy : BOOLEAN]
      BY DEF Accounts!Idle
    <2>5. sessions \in [Session -> Accounts!OutstandingToken]
      BY <2>3
    <2>6. revoking \in [{"change", "reset", "block"} -> [listed : SUBSET Session, busy : BOOLEAN]]
      BY <2>4
    <2>7. rewritten \in BOOLEAN
      OBVIOUS
    <2>8. QED
      BY <2>1, <2>2, <2>5, <2>6, <2>7 DEF AccountTypes
  <1>2. Unregistered
    BY DEF Unregistered, Accounts!Idle
  <1>3. RevocationHoldsThePassword
    BY DEF RevocationHoldsThePassword, Accounts!PasswordRevocation, Accounts!Idle
  <1>4. QED
    BY <1>1, <1>2, <1>3 DEF SessionsInv, Guarded

\* No step but issue, of an account that is registered, makes a code live.
LEMMA CodesDoNotRevive ==
  ASSUME account_accoun.secret = 0, Unregistered, [Accounts!Next]_(Accounts!vars), ~ Accounts!register
  PROVE  \A c \in Code : ~ codes_accoun'[c].live
  <1> USE DEF Unregistered
  <1>1. \A purpose \in Accounts!VerificationPurpose : Accounts!Usable(purpose) = {}
    BY DEF Accounts!Usable, Accounts!Live
  <1>2. \A purpose \in Accounts!VerificationPurpose : ~ Accounts!consume(purpose) /\ ~ Accounts!wrong_guess(purpose)
    BY <1>1 DEF Accounts!consume, Accounts!wrong_guess
  <1>3. \A c \in Code : ~ Accounts!code_expires(c)
    BY DEF Accounts!code_expires
  <1>4. ~ Accounts!resend /\ ~ Accounts!reset_request /\ ~ Accounts!reset_password /\ \A s \in Session : ~ Accounts!confirm_account(s)
    BY <1>2 DEF Accounts!resend, Accounts!reset_request, Accounts!reset_password, Accounts!confirm_account, Accounts!VerificationPurpose
  <1>5. UNCHANGED codes_accoun
    BY <1>2, <1>3, <1>4 DEF Accounts!Next, Accounts!login, Accounts!issue_tokens, Accounts!logout, Accounts!change_password, Accounts!password_changed, Accounts!password_reset,
       Accounts!block, Accounts!sessions_closed, Accounts!unblock, Accounts!me_reads, Accounts!patch, Accounts!vars
  <1>6. QED
    BY <1>5

\* A step that keeps the password, opens no session in time, and lists none
\* for a new one.
LEMMA PasswordStays ==
  ASSUME SessionsInv,
         account_accoun' \in AccountRow, account_accoun'.secret = account_accoun.secret,
         profile_accoun' \in AccountRow, profile_accoun' # Accounts!NoProfile => profile_accoun'.secret > 0,
         opening' \in [Session -> 0 .. MaxSecret],
         sessions' \in [Session -> Accounts!OutstandingToken],
         revoking' \in [{"change", "reset", "block"} -> [listed : SUBSET Session, busy : BOOLEAN]],
         UNCHANGED rewritten,
         \A k \in Accounts!PasswordRevocation : revoking'[k] = revoking[k],
         \A s \in Session : Guarded(s)' =>
           \/ Guarded(s) /\ sessions'[s].secret = sessions[s].secret
           \/ sessions'[s].secret = account_accoun.secret /\ Accounts!PasswordIsFree,
         account_accoun.secret = 0 => Unregistered'
  PROVE  SessionsInv'
  <1> USE DEF SessionsInv
  <1>1. AccountTypes'
    BY DEF AccountTypes
  <1>2. RevocationHoldsThePassword'
    BY DEF RevocationHoldsThePassword, Accounts!PasswordRevocation, Accounts!PasswordIsFree
  <1>3. \A s \in Session : Guarded(s)' => sessions'[s].secret = account_accoun'.secret
    OBVIOUS
  <1>4. QED
    BY <1>1, <1>2, <1>3

\* A change or a reset begins: the list it makes holds every session there is.
LEMMA PasswordIsTaken ==
  ASSUME SessionsInv, NEW k \in Accounts!PasswordRevocation, Accounts!PasswordIsFree,
         account_accoun.secret > 0, account_accoun.secret < MaxSecret,
         revoking' = [revoking EXCEPT ![k] = [listed |-> Accounts!Listed, busy |-> TRUE]],
         UNCHANGED <<account_accoun, opening, sessions, profile_accoun, rewritten>>
  PROVE  SessionsInv'
  <1> USE AccountsAssumption DEF SessionsInv
  <1>1. [listed |-> Accounts!Listed, busy |-> TRUE] \in [listed : SUBSET Session, busy : BOOLEAN]
    BY DEF Accounts!Listed
  <1>2. AccountTypes'
    BY <1>1 DEF AccountTypes
  <1>3. /\ revoking'[k] = [listed |-> Accounts!Listed, busy |-> TRUE]
        /\ \A j \in Accounts!PasswordRevocation \ {k} : revoking'[j] = revoking[j]
    BY DEF AccountTypes, Accounts!PasswordRevocation
  <1>4. RevocationHoldsThePassword'
    <2>1. account_accoun.secret + 1 \in 0 .. MaxSecret
      BY DEF AccountTypes, AccountRow
    <2>2. \A s \in Session : Guarded(s)' => s \in Accounts!Listed
      BY DEF Guarded, Accounts!Listed
    <2>3. \A j \in Accounts!PasswordRevocation \ {k} : ~ revoking'[j].busy
      BY <1>3 DEF Accounts!PasswordIsFree
    <2>4. QED
      BY <1>3, <2>1, <2>2, <2>3 DEF RevocationHoldsThePassword, Accounts!PasswordRevocation
  <1>5. \A s \in Session : Guarded(s)' => sessions'[s].secret = account_accoun'.secret
    BY DEF Guarded
  <1>6. account_accoun'.secret # 0
    BY DEF AccountTypes, AccountRow
  <1>7. QED
    BY <1>2, <1>4, <1>5, <1>6

\* ... and commits: what was listed is closed, and what was not is not guarded.
LEMMA PasswordIsReplaced ==
  ASSUME SessionsInv, NEW k \in Accounts!PasswordRevocation, revoking[k].busy,
         account_accoun' \in AccountRow, account_accoun'.secret = account_accoun.secret + 1,
         revoking' = [revoking EXCEPT ![k] = Accounts!Idle],
         opening' \in [Session -> 0 .. MaxSecret],
         sessions' \in [Session -> Accounts!OutstandingToken],
         \A s \in Session : Guarded(s)' =>
           \/ sessions'[s].secret = account_accoun.secret + 1
           \/ Guarded(s) /\ s \notin revoking[k].listed,
         UNCHANGED <<profile_accoun, rewritten>>
  PROVE  SessionsInv'
  <1> USE AccountsAssumption DEF SessionsInv
  <1>1. Accounts!Idle \in [listed : SUBSET Session, busy : BOOLEAN] /\ ~ Accounts!Idle.busy
    BY DEF Accounts!Idle
  <1>2. AccountTypes'
    BY <1>1 DEF AccountTypes
  <1>3. /\ revoking'[k] = Accounts!Idle
        /\ \A j \in Accounts!PasswordRevocation \ {k} : revoking'[j] = revoking[j]
    BY DEF AccountTypes, Accounts!PasswordRevocation
  <1>4. \A j \in Accounts!PasswordRevocation : ~ revoking'[j].busy
    BY <1>1, <1>3 DEF RevocationHoldsThePassword, Accounts!PasswordRevocation
  <1>5. RevocationHoldsThePassword'
    BY <1>4 DEF RevocationHoldsThePassword, Accounts!PasswordRevocation
  <1>6. \A s \in Session : Guarded(s)' => sessions'[s].secret = account_accoun'.secret
    BY DEF RevocationHoldsThePassword
  <1>7. account_accoun'.secret # 0
    BY DEF AccountTypes, AccountRow
  <1>8. QED
    BY <1>2, <1>5, <1>6, <1>7

\* A row of the account written by one of its fields.
LEMMA AccountWritten ==
  ASSUME account_accoun \in AccountRow
  PROVE  /\ \A b \in BOOLEAN : /\ [account_accoun EXCEPT !.verified = b] \in AccountRow
                              /\ [account_accoun EXCEPT !.verified = b].secret = account_accoun.secret
                              /\ [account_accoun EXCEPT !.active = b] \in AccountRow
                              /\ [account_accoun EXCEPT !.active = b].secret = account_accoun.secret
         /\ \A n \in 0 .. MaxSecret : /\ [account_accoun EXCEPT !.secret = n] \in AccountRow
                                     /\ [account_accoun EXCEPT !.secret = n].secret = n
         /\ \A n \in 0 .. MaxSecret, b \in BOOLEAN :
              /\ [account_accoun EXCEPT !.secret = n, !.verified = b] \in AccountRow
              /\ [account_accoun EXCEPT !.secret = n, !.verified = b].secret = n
  BY DEF AccountRow

\* A session that is closed keeps what it rests on.
LEMMA SessionClosed ==
  ASSUME NEW r \in Accounts!OutstandingToken
  PROVE  /\ [r EXCEPT !.status = "revoked"] \in Accounts!OutstandingToken
         /\ [r EXCEPT !.status = "revoked"].status = "revoked"
  BY DEF Accounts!OutstandingToken

LEMMA Revoked ==
  ASSUME AccountTypes, NEW found
  PROVE  /\ Accounts!revoke_all_sessions(found) \in [Session -> Accounts!OutstandingToken]
         /\ \A s \in Session : IF s \in found THEN Accounts!revoke_all_sessions(found)[s].status = "revoked"
                                ELSE Accounts!revoke_all_sessions(found)[s] = sessions[s]
  BY SessionClosed DEF AccountTypes, Accounts!revoke_all_sessions

LEMMA SessionsStep ==
  ASSUME SessionsInv, [Accounts!Next]_(Accounts!vars)
  PROVE  SessionsInv'
  <1> USE AccountsAssumption
  <1>0. /\ AccountTypes
        /\ account_accoun.secret \in 0 .. MaxSecret /\ account_accoun.secret \in Nat
        /\ \A k \in Accounts!PasswordRevocation : k \in {"change", "reset", "block"}
    BY DEF SessionsInv, AccountTypes, AccountRow, Accounts!PasswordRevocation
  <1>one. 1 \in 0 .. MaxSecret
    OBVIOUS
  <1>1. ASSUME Accounts!register PROVE SessionsInv'
    <2>1. Unregistered /\ account_accoun.secret = 0
      BY <1>1 DEF Accounts!register, SessionsInv
    <2>2. /\ account_accoun' = [account_accoun EXCEPT !.secret = 1]
          /\ sessions' = [sessions EXCEPT ![1] = [status |-> "live", secret |-> 1, late |-> FALSE]]
          /\ UNCHANGED <<opening, revoking, profile_accoun, rewritten>>
      BY <1>1 DEF Accounts!register
    <2>3. account_accoun' \in AccountRow /\ account_accoun'.secret = 1
      BY <1>0, <1>one, <2>2, AccountWritten DEF AccountTypes
    <2>4. [status |-> "live", secret |-> 1, late |-> FALSE] \in Accounts!OutstandingToken
      BY DEF Accounts!OutstandingToken
    <2>5. AccountTypes'
      BY <1>0, <2>2, <2>3, <2>4 DEF AccountTypes
    <2>6. \A s \in Session : Guarded(s)' => sessions'[s].secret = 1
      BY <1>0, <2>1, <2>2 DEF Guarded, Unregistered, AccountTypes
    <2>7. RevocationHoldsThePassword'
      BY <2>1, <2>2 DEF Unregistered, RevocationHoldsThePassword, Accounts!PasswordRevocation
    <2>8. QED
      BY <2>2, <2>3, <2>5, <2>6, <2>7 DEF SessionsInv
  <1>2. ASSUME [Accounts!Next]_(Accounts!vars), UNCHANGED <<account_accoun, opening, sessions, revoking, profile_accoun, rewritten>> PROVE SessionsInv'
    <2>1. account_accoun.secret = 0 => Unregistered'
      <3> SUFFICES ASSUME account_accoun.secret = 0 PROVE Unregistered'
        OBVIOUS
      <3>1. ASSUME Accounts!register PROVE FALSE
        <4>1. account_accoun' = [account_accoun EXCEPT !.secret = 1]
          BY <3>1 DEF Accounts!register
        <4>2. account_accoun'.secret = 1
          BY <1>0, <1>one, <4>1, AccountWritten DEF AccountTypes
        <4>3. QED
          BY <1>2, <4>2
      <3>2. Unregistered
        BY DEF SessionsInv
      <3>3. QED
        BY <1>2, <3>1, <3>2, CodesDoNotRevive DEF Unregistered
    <2>2. \A s \in Session : Guarded(s)' = Guarded(s)
      BY <1>2 DEF Guarded
    <2>3. QED
      BY <1>0, <1>2, <2>1, <2>2, PasswordStays DEF SessionsInv, AccountTypes
  <1>3. ASSUME Accounts!resend \/ Accounts!reset_request \/ (\E c \in Code : Accounts!code_expires(c))
               \/ (\E purpose \in Accounts!VerificationPurpose : Accounts!wrong_guess(purpose)) \/ UNCHANGED Accounts!vars
        PROVE  SessionsInv'
    <2>1. UNCHANGED <<account_accoun, opening, sessions, revoking, profile_accoun, rewritten>>
      BY <1>3 DEF Accounts!resend, Accounts!reset_request, Accounts!code_expires, Accounts!wrong_guess, Accounts!vars
    <2>2. QED
      BY <1>2, <2>1
  \* A proof is made of the password or of a code: the account is registered.
  <1>4. ASSUME NEW s \in Session, Accounts!login(s) \/ Accounts!confirm_account(s) PROVE SessionsInv'
    <2>1. /\ account_accoun' \in AccountRow /\ account_accoun'.secret = account_accoun.secret
          /\ opening' = [opening EXCEPT ![s] = account_accoun.secret]
          /\ UNCHANGED <<sessions, revoking, profile_accoun, rewritten>>
      BY <1>0, <1>4, AccountWritten DEF Accounts!login, Accounts!confirm_account, AccountTypes
    <2>2. account_accoun.secret # 0
      <3>1. CASE Accounts!login(s)
        BY <1>0, <3>1 DEF Accounts!login
      <3>2. CASE Accounts!confirm_account(s)
        <4>1. PICK c \in Accounts!Usable("account_verification") : TRUE
          BY <3>2 DEF Accounts!confirm_account, Accounts!consume
        <4>2. c \in Code /\ codes_accoun[c].live
          BY <4>1 DEF Accounts!Usable, Accounts!Live
        <4>3. QED
          BY <4>2 DEF SessionsInv, Unregistered
      <3>3. QED
        BY <1>4, <3>1, <3>2
    <2>3. opening' \in [Session -> 0 .. MaxSecret]
      BY <1>0, <2>1 DEF AccountTypes
    <2>4. \A t \in Session : Guarded(t)' = Guarded(t)
      BY <2>1 DEF Guarded
    <2>5. QED
      BY <1>0, <2>1, <2>2, <2>3, <2>4, PasswordStays DEF SessionsInv, AccountTypes
  <1>5. ASSUME NEW s \in Session, Accounts!issue_tokens(s) PROVE SessionsInv'
    <2> DEFINE late == opening[s] # account_accoun.secret \/ \E k \in DOMAIN revoking : revoking[k].busy
    <2>1. /\ opening[s] > 0 /\ opening' = [opening EXCEPT ![s] = 0]
          /\ sessions' = [sessions EXCEPT ![s] = [status |-> "live", secret |-> opening[s], late |-> late]]
          /\ UNCHANGED <<account_accoun, revoking, profile_accoun, rewritten>>
      BY <1>5 DEF Accounts!issue_tokens
    <2>2. account_accoun.secret # 0
      BY <1>0, <2>1 DEF SessionsInv, Unregistered, AccountTypes
    <2>3. ~ late => opening[s] = account_accoun.secret /\ Accounts!PasswordIsFree
      BY <1>0 DEF Accounts!PasswordIsFree, AccountTypes
    <2>4. late \in BOOLEAN
      OBVIOUS
    <2> HIDE DEF late
    <2>5. [status |-> "live", secret |-> opening[s], late |-> late] \in Accounts!OutstandingToken
      BY <1>0, <2>4 DEF Accounts!OutstandingToken, AccountTypes
    <2>6. sessions' \in [Session -> Accounts!OutstandingToken] /\ opening' \in [Session -> 0 .. MaxSecret]
      BY <1>0, <2>1, <2>5 DEF AccountTypes
    <2>7. /\ sessions'[s] = [status |-> "live", secret |-> opening[s], late |-> late]
          /\ \A t \in Session \ {s} : sessions'[t] = sessions[t]
      BY <1>0, <2>1 DEF AccountTypes
    <2>8. ASSUME NEW t \in Session, Guarded(t)'
          PROVE  \/ Guarded(t) /\ sessions'[t].secret = sessions[t].secret
                 \/ sessions'[t].secret = account_accoun.secret /\ Accounts!PasswordIsFree
      <3>1. CASE t = s
        <4>1. ~ sessions'[s].late
          BY <2>8, <3>1 DEF Guarded
        <4>2. ~ late /\ sessions'[s].secret = opening[s]
          BY <2>7, <4>1
        <4>3. QED
          BY <2>3, <3>1, <4>2
      <3>2. CASE t # s
        BY <2>1, <2>7, <2>8, <3>2 DEF Guarded
      <3>3. QED
        BY <3>1, <3>2
    <2>9. QED
      BY <1>0, <2>1, <2>2, <2>6, <2>8, PasswordStays DEF SessionsInv, AccountTypes
  <1>6. ASSUME NEW s \in Session, Accounts!logout(s) PROVE SessionsInv'
    <2>1. /\ sessions[s].status = "live"
          /\ sessions' = [sessions EXCEPT ![s].status = "revoked"]
          /\ UNCHANGED <<account_accoun, opening, revoking, profile_accoun, rewritten, codes_accoun>>
      BY <1>6 DEF Accounts!logout
    <2>2. /\ sessions' \in [Session -> Accounts!OutstandingToken]
          /\ sessions'[s].status = "revoked"
          /\ \A t \in Session \ {s} : sessions'[t] = sessions[t]
      BY <1>0, <2>1, SessionClosed DEF AccountTypes
    <2>3. account_accoun.secret # 0
      BY <2>1 DEF SessionsInv, Unregistered
    <2>4. \A t \in Session : Guarded(t)' => Guarded(t) /\ sessions'[t].secret = sessions[t].secret
      BY <2>1, <2>2 DEF Guarded
    <2>5. QED
      BY <1>0, <2>1, <2>2, <2>3, <2>4, PasswordStays DEF SessionsInv, AccountTypes
  <1>7. ASSUME NEW s \in Session, Accounts!change_password(s) PROVE SessionsInv'
    <2>1. account_accoun.secret # 0
      BY <1>7 DEF Accounts!change_password, SessionsInv, Unregistered
    <2>2. QED
      BY <1>0, <1>7, <2>1, PasswordIsTaken DEF Accounts!change_password, Accounts!PasswordRevocation
  <1>8. ASSUME Accounts!reset_password PROVE SessionsInv'
    <2>1. account_accoun.secret # 0
      <3>1. PICK c \in Accounts!Usable("password_reset") : TRUE
        BY <1>8 DEF Accounts!reset_password, Accounts!consume
      <3>2. c \in Code /\ codes_accoun[c].live
        BY <3>1 DEF Accounts!Usable, Accounts!Live
      <3>3. QED
        BY <3>2 DEF SessionsInv, Unregistered
    <2>2. QED
      BY <1>0, <1>8, <2>1, PasswordIsTaken DEF Accounts!reset_password, Accounts!PasswordRevocation
  <1>9. ASSUME NEW s \in Session, Accounts!password_changed(s) PROVE SessionsInv'
    <2> DEFINE found == revoking["change"].listed
               new == [status |-> "live", secret |-> account_accoun.secret + 1, late |-> FALSE]
    <2>1. /\ revoking["change"].busy
          /\ account_accoun' = [account_accoun EXCEPT !.secret = account_accoun.secret + 1]
          /\ sessions' = [Accounts!revoke_all_sessions(found) EXCEPT ![s] = new]
          /\ revoking' = [revoking EXCEPT !["change"] = Accounts!Idle]
          /\ UNCHANGED <<opening, profile_accoun, rewritten>>
      BY <1>9 DEF Accounts!password_changed
    <2>2. account_accoun.secret + 1 \in 0 .. MaxSecret
      BY <2>1 DEF SessionsInv, RevocationHoldsThePassword, Accounts!PasswordRevocation
    <2>3. account_accoun' \in AccountRow /\ account_accoun'.secret = account_accoun.secret + 1
      BY <1>0, <2>1, <2>2, AccountWritten DEF AccountTypes
    <2>4. new \in Accounts!OutstandingToken /\ new.secret = account_accoun.secret + 1
      BY <2>2 DEF Accounts!OutstandingToken
    <2> HIDE DEF found, new
    <2>5. /\ sessions' \in [Session -> Accounts!OutstandingToken]
          /\ sessions'[s] = new
          /\ \A t \in Session \ {s} : sessions'[t] = Accounts!revoke_all_sessions(found)[t]
      BY <1>0, <2>1, <2>4, Revoked
    <2>6. \A t \in Session \ {s} : sessions'[t].status = "revoked" \/ (t \notin found /\ sessions'[t] = sessions[t])
      BY <1>0, <2>5, Revoked
    <2>7. \A t \in Session : Guarded(t)' =>
           \/ sessions'[t].secret = account_accoun.secret + 1
           \/ Guarded(t) /\ t \notin revoking["change"].listed
      BY <2>1, <2>4, <2>5, <2>6 DEF Guarded, found
    <2>8. QED
      BY <1>0, <2>1, <2>3, <2>5, <2>7, PasswordIsReplaced DEF AccountTypes, Accounts!PasswordRevocation
  <1>10. ASSUME NEW s \in Session, Accounts!password_reset(s) PROVE SessionsInv'
    <2> DEFINE found == revoking["reset"].listed
    <2>1. /\ revoking["reset"].busy
          /\ account_accoun' = [account_accoun EXCEPT !.secret = account_accoun.secret + 1, !.verified = TRUE]
          /\ opening' = [opening EXCEPT ![s] = account_accoun.secret + 1]
          /\ sessions' = Accounts!revoke_all_sessions(found)
          /\ revoking' = [revoking EXCEPT !["reset"] = Accounts!Idle]
          /\ UNCHANGED <<profile_accoun, rewritten>>
      BY <1>10 DEF Accounts!password_reset
    <2>2. account_accoun.secret + 1 \in 0 .. MaxSecret
      BY <2>1 DEF SessionsInv, RevocationHoldsThePassword, Accounts!PasswordRevocation
    <2>3. account_accoun' \in AccountRow /\ account_accoun'.secret = account_accoun.secret + 1
      BY <1>0, <2>1, <2>2, AccountWritten DEF AccountTypes
    <2>4. opening' \in [Session -> 0 .. MaxSecret]
      BY <1>0, <2>1, <2>2 DEF AccountTypes
    <2> HIDE DEF found
    <2>5. sessions' \in [Session -> Accounts!OutstandingToken]
      BY <1>0, <2>1, Revoked
    <2>6. \A t \in Session : sessions'[t].status = "revoked" \/ (t \notin found /\ sessions'[t] = sessions[t])
      BY <1>0, <2>1, Revoked
    <2>7. \A t \in Session : Guarded(t)' => Guarded(t) /\ t \notin revoking["reset"].listed
      BY <2>1, <2>6 DEF Guarded, found
    <2>8. QED
      BY <1>0, <2>1, <2>3, <2>4, <2>5, <2>7, PasswordIsReplaced DEF AccountTypes, Accounts!PasswordRevocation
  <1>11. ASSUME Accounts!block \/ Accounts!sessions_closed PROVE SessionsInv'
    <2>1. /\ account_accoun' \in AccountRow /\ account_accoun'.secret = account_accoun.secret
          /\ UNCHANGED <<opening, profile_accoun, rewritten, codes_accoun>>
      BY <1>0, <1>11, AccountWritten DEF Accounts!block, Accounts!sessions_closed, AccountTypes
    <2>2. \E row \in [listed : SUBSET Session, busy : BOOLEAN] : revoking' = [revoking EXCEPT !["block"] = row]
      <3>1. [listed |-> Accounts!Listed, busy |-> TRUE] \in [listed : SUBSET Session, busy : BOOLEAN]
        BY DEF Accounts!Listed
      <3>2. Accounts!Idle \in [listed : SUBSET Session, busy : BOOLEAN]
        BY DEF Accounts!Idle
      <3>3. QED
        BY <1>11, <3>1, <3>2 DEF Accounts!block, Accounts!sessions_closed
    <2>3. /\ revoking' \in [{"change", "reset", "block"} -> [listed : SUBSET Session, busy : BOOLEAN]]
          /\ \A k \in Accounts!PasswordRevocation : revoking'[k] = revoking[k]
      BY <1>0, <2>2 DEF AccountTypes, Accounts!PasswordRevocation
    <2>4. /\ sessions' \in [Session -> Accounts!OutstandingToken]
          /\ \A t \in Session : sessions'[t] = sessions[t] \/ sessions'[t].status = "revoked"
      BY <1>0, <1>11, Revoked DEF Accounts!block, Accounts!sessions_closed, AccountTypes
    <2>5. \A t \in Session : Guarded(t)' => Guarded(t) /\ sessions'[t].secret = sessions[t].secret
      BY <2>1, <2>4 DEF Guarded
    <2>6. account_accoun.secret = 0 => Unregistered'
      <3>1. CASE Accounts!block
        BY <1>0, <3>1 DEF Accounts!block
      <3>2. CASE Accounts!sessions_closed
        BY <3>2 DEF Accounts!sessions_closed, SessionsInv, Unregistered
      <3>3. QED
        BY <1>11, <3>1, <3>2
    <2>7. QED
      BY <1>0, <2>1, <2>3, <2>4, <2>5, <2>6, PasswordStays DEF SessionsInv, AccountTypes
  <1>12. ASSUME Accounts!unblock \/ Accounts!me_reads PROVE SessionsInv'
    <2>1. /\ account_accoun' \in AccountRow /\ account_accoun'.secret = account_accoun.secret
          /\ UNCHANGED <<opening, sessions, revoking, rewritten, codes_accoun>>
      BY <1>0, <1>12, AccountWritten DEF Accounts!unblock, Accounts!me_reads, AccountTypes
    <2>2. profile_accoun' \in AccountRow /\ (profile_accoun' # Accounts!NoProfile => profile_accoun'.secret > 0)
      <3>1. CASE Accounts!unblock
        BY <1>0, <3>1 DEF Accounts!unblock, SessionsInv, AccountTypes
      <3>2. CASE Accounts!me_reads
        <4>1. account_accoun.secret # 0
          BY <3>2 DEF Accounts!me_reads, SessionsInv, Unregistered
        <4>2. QED
          BY <1>0, <3>2, <4>1 DEF Accounts!me_reads, AccountTypes
      <3>3. QED
        BY <1>12, <3>1, <3>2
    <2>3. account_accoun.secret = 0 => Unregistered'
      BY <2>1 DEF SessionsInv, Unregistered
    <2>4. \A t \in Session : Guarded(t)' = Guarded(t)
      BY <2>1 DEF Guarded
    <2>5. QED
      BY <1>0, <2>1, <2>2, <2>3, <2>4, PasswordStays DEF SessionsInv, AccountTypes
  \* The former row is put back: what it changes is not guarded any more.
  <1>13. ASSUME Accounts!patch PROVE SessionsInv'
    <2>1. /\ profile_accoun # Accounts!NoProfile /\ Accounts!PasswordIsFree /\ account_accoun' = profile_accoun
          /\ rewritten' = (rewritten \/ account_accoun # profile_accoun) /\ profile_accoun' = Accounts!NoProfile
          /\ UNCHANGED <<opening, sessions, revoking>>
      BY <1>13 DEF Accounts!patch
    <2>2. profile_accoun \in AccountRow /\ profile_accoun.secret > 0 /\ profile_accoun.secret # 0
      BY <1>0, <2>1 DEF SessionsInv, AccountTypes, AccountRow
    <2>3. Accounts!NoProfile \in AccountRow
      BY DEF Accounts!NoProfile, AccountRow
    <2>4. rewritten' \in BOOLEAN
      BY <2>1
    <2>5. AccountTypes'
      BY <1>0, <2>1, <2>2, <2>3, <2>4 DEF AccountTypes
    <2>6. RevocationHoldsThePassword'
      BY <2>1 DEF RevocationHoldsThePassword, Accounts!PasswordIsFree, Accounts!PasswordRevocation
    <2>7. ASSUME NEW s \in Session, Guarded(s)' PROVE sessions'[s].secret = account_accoun'.secret
      <3>1. ~ rewritten'
        BY <2>7 DEF Guarded
      <3>2. ~ rewritten /\ account_accoun = profile_accoun
        BY <2>1, <3>1
      <3>3. Guarded(s)
        BY <2>1, <2>7, <3>2 DEF Guarded
      <3>4. QED
        BY <2>1, <3>2, <3>3 DEF SessionsInv
    <2>8. QED
      BY <2>1, <2>2, <2>5, <2>6, <2>7 DEF SessionsInv
  <1>14. QED
    BY <1>1, <1>3, <1>4, <1>5, <1>6, <1>7, <1>8, <1>9, <1>10, <1>11, <1>12, <1>13 DEF Accounts!Next

LEMMA SessionsInvImplies == SessionsInv => Accounts!SessionsFollowPassword
  BY DEF SessionsInv, AccountTypes, Guarded, Accounts!SessionsFollowPassword

-----------------------------------------------------------------------------
(* Points *)

\* Beside the property: what the task has read was a balance, and an order is
\* credited once.
PointsInv ==
  /\ account_points \in Points!PointsAccount
  /\ ledger \in Int /\ crossed_points \in Int /\ reading \in Int
  /\ codes_points \in Nat /\ adjusted \in Nat
  /\ credited \in [EarningOrder -> {0, 1}]
  /\ Points!RewardsAreCovered
  /\ Points!LedgerExplainsBalance

\* One more order is worth its points once more.
LEMMA OneMoreOrder ==
  ASSUME credited \in [EarningOrder -> {0, 1}], NEW o \in EarningOrder, credited[o] = 0,
         credited' = [credited EXCEPT ![o] = @ + 1]
  PROVE  /\ credited' \in [EarningOrder -> {0, 1}]
         /\ Cardinality({p \in EarningOrder : credited'[p] > 0}) = Cardinality({p \in EarningOrder : credited[p] > 0}) + 1
         /\ Cardinality({p \in EarningOrder : credited[p] > 0}) \in Nat
  <1> DEFINE Before == {p \in EarningOrder : credited[p] > 0}
             After  == {p \in EarningOrder : credited'[p] > 0}
  <1>1. After = Before \cup {o} /\ o \notin Before
    OBVIOUS
  <1>2. IsFiniteSet(Before)
    BY PointsAssumption, FS_Subset
  <1> HIDE DEF Before, After
  <1>3. Cardinality(After) = Cardinality(Before) + 1 /\ Cardinality(Before) \in Nat
    BY <1>1, <1>2, FS_AddElement, FS_CardinalityType
  <1>4. credited' \in [EarningOrder -> {0, 1}]
    OBVIOUS
  <1>5. QED
    BY <1>3, <1>4 DEF Before, After

\* The cardinality the component counts with is the one of the theorems.
LEMMA PointsCount == \A S : Points!Cardinality(S) = Cardinality(S)
  BY DEF Points!Cardinality, Cardinality

LEMMA PointsInvInit == Points!Init => PointsInv
  <1> SUFFICES ASSUME Points!Init PROVE PointsInv
    OBVIOUS
  <1>1. {o \in EarningOrder : credited[o] > 0} = {}
    BY DEF Points!Init
  <1>2. Cardinality({o \in EarningOrder : credited[o] > 0}) = 0
    BY <1>1, FS_EmptySet
  <1>3. Points!RewardsAreCovered
    BY <1>2, PointsAssumption, PointsCount DEF Points!Init, Points!RewardsAreCovered, Points!PointsAccount
  <1>4. QED
    BY <1>3 DEF Points!Init, PointsInv, Points!LedgerExplainsBalance, Points!PointsAccount

LEMMA PointsInvStep ==
  ASSUME PointsInv, [Points!Next]_(Points!vars)
  PROVE  PointsInv'
  <1> DEFINE Orders == Cardinality({o \in EarningOrder : credited[o] > 0})
  <1>0. /\ account_points \in Points!PointsAccount
        /\ account_points.spent = Cost * codes_points
        /\ account_points.balance + account_points.spent <= account_points.earned
        /\ account_points.earned = adjusted + Worth * Orders
        /\ account_points.balance = ledger - crossed_points
    BY PointsCount DEF PointsInv, Points!RewardsAreCovered, Points!LedgerExplainsBalance
  <1>1. account_points.balance \in Nat /\ account_points.earned \in Nat /\ account_points.spent \in Nat
    BY <1>0 DEF Points!PointsAccount
  <1> USE PointsAssumption, PointsCount
  <1>2. ASSUME NEW o \in EarningOrder, Points!earn(o) PROVE PointsInv'
    <2>1. /\ credited' \in [EarningOrder -> {0, 1}]
          /\ Orders' = Orders + 1 /\ Orders \in Nat
      BY <1>2, OneMoreOrder DEF Points!earn, PointsInv
    <2>2. /\ account_points' = [account_points EXCEPT !.balance = @ + Worth, !.earned = @ + Worth]
          /\ ledger' = ledger + Worth
          /\ UNCHANGED <<codes_points, adjusted, expiries, reading, crossed_points>>
      BY <1>2 DEF Points!earn, Points!_move
    <2>3. /\ account_points' \in Points!PointsAccount
          /\ account_points'.balance = account_points.balance + Worth
          /\ account_points'.earned = account_points.earned + Worth
          /\ account_points'.spent = account_points.spent
      <3>1. account_points' = [balance |-> account_points.balance + Worth, earned |-> account_points.earned + Worth, spent |-> account_points.spent]
        BY <1>0, <1>1, <2>2 DEF Points!PointsAccount
      <3>2. account_points.balance + Worth \in Nat /\ account_points.earned + Worth \in Nat /\ account_points.spent \in Nat
        BY <1>1
      <3>3. QED
        BY <3>1, <3>2 DEF Points!PointsAccount
    <2> HIDE DEF Orders
    <2>4. Worth * (Orders + 1) = Worth * Orders + Worth /\ Worth * Orders \in Nat
      BY <2>1
    <2>5. account_points'.earned = adjusted' + Worth * Orders'
      BY <1>0, <1>1, <2>1, <2>2, <2>3, <2>4 DEF PointsInv
    <2>6. Points!RewardsAreCovered'
      BY <1>0, <1>1, <2>2, <2>3, <2>5 DEF Points!RewardsAreCovered, Orders
    <2>7. Points!LedgerExplainsBalance' /\ ledger' \in Int
      BY <1>0, <1>1, <2>2, <2>3 DEF Points!LedgerExplainsBalance, PointsInv
    <2>8. QED
      BY <2>1, <2>2, <2>3, <2>6, <2>7 DEF PointsInv
  <1>3. ASSUME Points!adjust PROVE PointsInv'
    <2>1. /\ account_points' = [account_points EXCEPT !.balance = @ + 1, !.earned = @ + 1]
          /\ ledger' = ledger + 1 /\ adjusted' = adjusted + 1
          /\ UNCHANGED <<credited, codes_points, expiries, reading, crossed_points>>
      BY <1>3 DEF Points!adjust, Points!_move
    <2>2. /\ account_points' \in Points!PointsAccount
          /\ account_points'.balance = account_points.balance + 1
          /\ account_points'.earned = account_points.earned + 1
          /\ account_points'.spent = account_points.spent
      <3>1. account_points' = [balance |-> account_points.balance + 1, earned |-> account_points.earned + 1, spent |-> account_points.spent]
        BY <1>0, <1>1, <2>1 DEF Points!PointsAccount
      <3>2. account_points.balance + 1 \in Nat /\ account_points.earned + 1 \in Nat /\ account_points.spent \in Nat
        BY <1>1
      <3>3. QED
        BY <3>1, <3>2 DEF Points!PointsAccount
    <2>3. Orders' = Orders /\ Orders \in Nat
      <3>1. IsFiniteSet({o \in EarningOrder : credited[o] > 0})
        BY FS_Subset
      <3>2. QED
        BY <2>1, <3>1, FS_CardinalityType
    <2> HIDE DEF Orders
    <2>4. account_points'.earned = adjusted' + Worth * Orders'
      BY <1>0, <1>1, <2>1, <2>2, <2>3 DEF PointsInv
    <2>5. Points!RewardsAreCovered'
      BY <1>0, <1>1, <2>1, <2>2, <2>4 DEF Points!RewardsAreCovered, Orders
    <2>6. QED
      BY <1>0, <1>1, <2>1, <2>2, <2>5 DEF PointsInv, Points!LedgerExplainsBalance
  <1>4. ASSUME Points!redeem PROVE PointsInv'
    <2>1. /\ account_points.balance >= Cost
          /\ account_points' = [account_points EXCEPT !.balance = @ - Cost, !.spent = @ + Cost]
          /\ ledger' = ledger - Cost /\ codes_points' = codes_points + 1
          /\ UNCHANGED <<credited, adjusted, expiries, reading, crossed_points>>
      BY <1>4 DEF Points!redeem, Points!_spend, Points!_mint_code
    <2>2. /\ account_points' \in Points!PointsAccount
          /\ account_points'.balance = account_points.balance - Cost
          /\ account_points'.earned = account_points.earned
          /\ account_points'.spent = account_points.spent + Cost
      <3>1. account_points' = [balance |-> account_points.balance - Cost, earned |-> account_points.earned, spent |-> account_points.spent + Cost]
        BY <1>0, <1>1, <2>1 DEF Points!PointsAccount
      <3>2. account_points.balance - Cost \in Nat /\ account_points.earned \in Nat /\ account_points.spent + Cost \in Nat
        BY <1>1, <2>1
      <3>3. QED
        BY <3>1, <3>2 DEF Points!PointsAccount
    <2>3. account_points'.spent = Cost * codes_points'
      <3>1. codes_points \in Nat /\ Cost * (codes_points + 1) = Cost * codes_points + Cost
        BY DEF PointsInv
      <3>2. QED
        BY <1>0, <2>1, <2>2, <3>1
    <2>4. Points!RewardsAreCovered'
      BY <1>0, <1>1, <2>1, <2>2, <2>3 DEF Points!RewardsAreCovered
    <2>5. QED
      BY <1>0, <1>1, <2>1, <2>2, <2>4 DEF PointsInv, Points!LedgerExplainsBalance
  <1>5. ASSUME Points!falls_inactive \/ Points!expire_points \/ UNCHANGED Points!vars PROVE PointsInv'
    <2>1. UNCHANGED <<account_points, ledger, credited, codes_points, adjusted, crossed_points>>
      BY <1>5 DEF Points!falls_inactive, Points!expire_points, Points!vars
    <2>2. reading' \in Int
      BY <1>1, <1>5 DEF Points!falls_inactive, Points!expire_points, Points!vars, PointsInv
    <2>3. Points!RewardsAreCovered' /\ Points!LedgerExplainsBalance'
      BY <2>1 DEF PointsInv, Points!RewardsAreCovered, Points!LedgerExplainsBalance
    <2>4. QED
      BY <2>1, <2>2, <2>3 DEF PointsInv
  <1>6. ASSUME Points!expire_inactive PROVE PointsInv'
    <2>1. /\ account_points' = [account_points EXCEPT !.balance = reading - reading]
          /\ ledger' = ledger - reading
          /\ crossed_points' = crossed_points + (account_points.balance - reading) /\ reading' = -1
          /\ UNCHANGED <<credited, codes_points, adjusted>>
      BY <1>6 DEF Points!expire_inactive
    <2>2. /\ account_points' \in Points!PointsAccount
          /\ account_points'.balance = 0
          /\ account_points'.earned = account_points.earned
          /\ account_points'.spent = account_points.spent
      BY <1>0, <1>1, <2>1 DEF Points!PointsAccount, PointsInv
    <2>3. Points!RewardsAreCovered'
      BY <1>0, <1>1, <2>1, <2>2 DEF Points!RewardsAreCovered
    <2>4. QED
      BY <1>0, <1>1, <2>1, <2>2, <2>3 DEF PointsInv, Points!LedgerExplainsBalance
  <1>7. QED
    BY <1>2, <1>3, <1>4, <1>5, <1>6 DEF Points!Next

-----------------------------------------------------------------------------
(* Gamification *)

GameTypes ==
  /\ worth \in [Order -> {0, 1}]
  /\ created_in \in SUBSET Order /\ delivered \in SUBSET Order
  /\ deliveries \in [Order -> Nat]
  /\ account_gamifi \in Order \cup {Gamification!NoOne}
  /\ lifetime_earned \in Nat /\ prizes \in Nat
  /\ progress \in [Achievement -> Nat] /\ rewards \in [Achievement -> Nat]
  /\ unlocked \in SUBSET Achievement
  /\ badge \in BOOLEAN /\ completed \in BOOLEAN

\* A transaction at work has counted no order that is not delivered, its own
\* apart; those worth a point take the account one after the other.
AtWork ==
  \A o \in Order : Gamification!Running(o) =>
    /\ o \notin delivered
    /\ deliveries[o] <= Cardinality(delivered) + 1
    /\ worth[o] > 0 => account_gamifi = o

AllWorthAPoint == \A o \in delivered : worth[o] > 0

\* While every delivered order was worth a point, nobody's count is stale.
CountsAreFresh ==
  AllWorthAPoint =>
    /\ \A o \in Order : Gamification!Running(o) /\ worth[o] > 0 => deliveries[o] = Cardinality(delivered) + 1
    /\ \A a \in Achievement :
         /\ progress[a] = Gamification!Least(Cardinality(delivered), condition_value[a])
         /\ a \in unlocked <=> Cardinality(delivered) >= condition_value[a]

GameInv == GameTypes /\ AtWork /\ CountsAreFresh /\ Gamification!RewardedOnceForWhatWasReached

LEMMA DeliveredIsFinite ==
  ASSUME GameTypes
  PROVE  /\ Cardinality(delivered) \in Nat
         /\ \A S \in SUBSET Order : IsFiniteSet(S) /\ Cardinality(S) \in Nat
         /\ \A S \in SUBSET Achievement : Cardinality(S) \in Nat
         /\ \A o \in Order \ delivered : Cardinality(delivered \cup {o}) = Cardinality(delivered) + 1
  <1>1. \A S \in SUBSET Order : IsFiniteSet(S) /\ Cardinality(S) \in Nat
    BY GamificationAssumption, FS_Subset, FS_CardinalityType
  <1>2. \A S \in SUBSET Achievement : Cardinality(S) \in Nat
    BY GamificationAssumption, FS_Subset, FS_CardinalityType
  <1>3. delivered \in SUBSET Order
    BY DEF GameTypes
  <1>4. \A o \in Order \ delivered : Cardinality(delivered \cup {o}) = Cardinality(delivered) + 1
    BY <1>1, <1>3, FS_AddElement
  <1>5. QED
    BY <1>1, <1>2, <1>3, <1>4

\* The cardinality the component counts with is the one of the theorems.
LEMMA GameCount == \A S : Gamification!Cardinality(S) = Cardinality(S)
  BY DEF Gamification!Cardinality, Cardinality

LEMMA GameInit == Gamification!Init => GameInv
  <1> SUFFICES ASSUME Gamification!Init PROVE GameInv
    OBVIOUS
  <1> USE GamificationAssumption, GameCount
  <1>1. Cardinality(delivered) = 0 /\ Cardinality(delivered \cap created_in) = 0
    <2>1. delivered = {} /\ delivered \cap created_in = {}
      BY DEF Gamification!Init
    <2>2. QED
      BY <2>1, FS_EmptySet
  <1>2. GameTypes /\ AtWork
    BY DEF Gamification!Init, GameTypes, AtWork, Gamification!Running
  <1>3. \A a \in Achievement :
          /\ progress[a] = Gamification!Least(Cardinality(delivered), condition_value[a])
          /\ a \in unlocked <=> Cardinality(delivered) >= condition_value[a]
    BY <1>1 DEF Gamification!Init, Gamification!Least
  <1>4. CountsAreFresh
    BY <1>3 DEF CountsAreFresh, Gamification!Init, Gamification!Running
  <1>5. Gamification!RewardedOnceForWhatWasReached
    BY <1>3 DEF Gamification!Init, Gamification!RewardedOnceForWhatWasReached
  <1>6. QED
    BY <1>2, <1>4, <1>5 DEF GameInv

\* What the property says of the rewards, apart from the last conjunct, is
\* about these only.
LEMMA RewardsAtRest ==
  ASSUME GameInv, GameTypes', AtWork', CountsAreFresh',
         UNCHANGED <<delivered, lifetime_earned, unlocked, rewards, badge, completed, prizes>>,
         delivered \cap created_in' = delivered \cap created_in
  PROVE  GameInv'
  <1>1. \/ ~ ((\A o \in Order : ~Gamification!Running(o)) /\ (\A o \in delivered : worth[o] > 0))'
        \/ \A a \in Achievement :
             progress'[a] = Gamification!Least(Cardinality(delivered), condition_value[a])
               /\ (a \in unlocked <=> Cardinality(delivered) >= condition_value[a])
    BY DEF CountsAreFresh, AllWorthAPoint
  <1>2. Gamification!RewardedOnceForWhatWasReached'
    BY <1>1, GameCount DEF GameInv, Gamification!RewardedOnceForWhatWasReached
  <1>3. QED
    BY <1>2 DEF GameInv

\* An order is at the door: one worth a point finds the account free.
LEMMA Delivering ==
  ASSUME GameInv, NEW o \in Order, NEW points \in {0, 1}, NEW in_window \in BOOLEAN,
         Gamification!on_order_delivered(o, points, in_window)
  PROVE  GameInv'
  <1>1. /\ ~ Gamification!Running(o) /\ o \notin delivered
        /\ worth' = [worth EXCEPT ![o] = points]
        /\ created_in' = IF in_window THEN created_in \cup {o} ELSE created_in \ {o}
        /\ deliveries' = [deliveries EXCEPT ![o] = Cardinality(delivered) + 1]
        /\ UNCHANGED <<open, delivered, lifetime_earned, progress, unlocked, rewards, badge, completed, prizes>>
    BY GameCount DEF Gamification!on_order_delivered
  <1>2. IF points = 0 THEN account_gamifi' = account_gamifi ELSE account_gamifi = Gamification!NoOne /\ account_gamifi' = o
    BY DEF Gamification!on_order_delivered, Gamification!earn
  <1>3. GameTypes /\ Cardinality(delivered) \in Nat
    BY DeliveredIsFinite DEF GameInv
  <1>4. GameTypes'
    BY <1>1, <1>2, <1>3 DEF GameTypes
  <1>5. \A p \in Order : /\ worth'[p] = IF p = o THEN points ELSE worth[p]
                         /\ deliveries'[p] = IF p = o THEN Cardinality(delivered) + 1 ELSE deliveries[p]
    BY <1>1, <1>3 DEF GameTypes
  <1>6. AtWork'
    <2> SUFFICES ASSUME NEW p \in Order, Gamification!Running(p)'
                 PROVE  /\ p \notin delivered
                        /\ deliveries'[p] <= Cardinality(delivered) + 1
                        /\ worth'[p] > 0 => account_gamifi' = p
      BY <1>1 DEF AtWork
    <2>1. CASE p = o
      BY <1>1, <1>2, <1>3, <1>5, <2>1
    <2>2. CASE p # o
      <3>1. Gamification!Running(p)
        BY <1>5, <2>2 DEF Gamification!Running
      <3>2. /\ p \notin delivered /\ deliveries[p] <= Cardinality(delivered) + 1
            /\ worth[p] > 0 => account_gamifi = p
        BY <3>1 DEF GameInv, AtWork
      <3>3. p # Gamification!NoOne
        BY GamificationAssumption
      <3>4. QED
        BY <1>2, <1>5, <2>2, <3>2, <3>3
    <2>3. QED
      BY <2>1, <2>2
  <1>7. CountsAreFresh'
    <2>1. AllWorthAPoint' = AllWorthAPoint
      BY <1>1, <1>5, <1>3 DEF AllWorthAPoint, GameTypes
    <2>2. ASSUME AllWorthAPoint, NEW p \in Order, Gamification!Running(p)', worth'[p] > 0
          PROVE  deliveries'[p] = Cardinality(delivered) + 1
      BY <1>5, <2>2 DEF GameInv, CountsAreFresh, Gamification!Running
    <2>3. QED
      BY <1>1, <2>1, <2>2 DEF GameInv, CountsAreFresh
  <1>8. delivered \cap created_in' = delivered \cap created_in
    BY <1>1
  <1>9. QED
    BY <1>1, <1>4, <1>6, <1>7, <1>8, RewardsAtRest

\* A transaction commits: what it counted is not more than what there is, and
\* is all there is if every order was worth a point.
LEMMA Commits ==
  ASSUME GameInv, NEW o \in Order, Gamification!commits(o)
  PROVE  GameInv'
  <1> DEFINE n == deliveries[o]
             d == Cardinality(delivered)
             now == {a \in Achievement : n >= condition_value[a]} \ unlocked
             done == open /\ Cardinality((delivered \cup {o}) \cap created_in) >= target_value
             earned == lifetime_earned + worth[o] + Cardinality({a \in Achievement : rewards'[a] > rewards[a]})
  <1> USE GamificationAssumption, GameCount
  <1>1. /\ Gamification!Running(o)
        /\ progress' = [a \in Achievement |-> Gamification!Least(n, condition_value[a])]
        /\ unlocked' = unlocked \cup now
        /\ rewards' = [a \in Achievement |-> rewards[a] + (IF a \in now THEN 1 ELSE 0)]
        /\ completed' = (completed \/ done)
        /\ prizes' = prizes + (IF done /\ ~completed THEN 1 ELSE 0)
    BY DEF Gamification!commits, Gamification!_check_achievements, Gamification!_check_challenges, Gamification!_stats_in_window
  <1>2. /\ badge' = (badge \/ (earned > 0 /\ earned >= points_required))
        /\ lifetime_earned' = earned + (prizes' - prizes)
        /\ delivered' = delivered \cup {o}
        /\ deliveries' = [deliveries EXCEPT ![o] = 0]
        /\ account_gamifi' = IF account_gamifi = o THEN Gamification!NoOne ELSE account_gamifi
        /\ UNCHANGED <<worth, created_in, open>>
    BY DEF Gamification!commits, Gamification!_check_badges
  <1>3. /\ GameTypes /\ d \in Nat
        /\ o \notin delivered /\ n \in Nat /\ n <= d + 1
        /\ worth[o] > 0 => account_gamifi = o
    BY <1>1, DeliveredIsFinite DEF GameInv, AtWork, GameTypes
  <1>4. Cardinality(delivered') = d + 1
    BY <1>2, <1>3, DeliveredIsFinite
  <1>5. /\ earned \in Nat /\ earned >= lifetime_earned
        /\ lifetime_earned' \in Nat /\ lifetime_earned' >= earned /\ prizes' \in Nat
    <2>1. Cardinality({a \in Achievement : rewards'[a] > rewards[a]}) \in Nat
      BY <1>3, DeliveredIsFinite
    <2>2. lifetime_earned \in Nat /\ worth[o] \in Nat /\ prizes \in Nat
      BY <1>3 DEF GameTypes
    <2>3. prizes' \in Nat /\ prizes' - prizes \in Nat
      BY <1>1, <2>2
    <2>4. earned \in Nat /\ earned >= lifetime_earned
      BY <2>1, <2>2
    <2> HIDE DEF earned
    <2>5. QED
      BY <1>2, <2>3, <2>4
  <1> HIDE DEF earned
  <1>6. GameTypes'
    <2>1. progress' \in [Achievement -> Nat] /\ rewards' \in [Achievement -> Nat]
      BY <1>1, <1>3 DEF GameTypes, Gamification!Least
    <2>2. badge' \in BOOLEAN /\ completed' \in BOOLEAN
      BY <1>1, <1>2
    <2>3. deliveries' \in [Order -> Nat] /\ account_gamifi' \in Order \cup {Gamification!NoOne}
      BY <1>2, <1>3 DEF GameTypes
    <2>4. unlocked' \in SUBSET Achievement /\ delivered' \in SUBSET Order
      BY <1>1, <1>2, <1>3 DEF GameTypes
    <2>5. QED
      BY <1>2, <1>3, <1>5, <2>1, <2>2, <2>3, <2>4 DEF GameTypes
  <1>7. \A p \in Order : Gamification!Running(p)' => p # o /\ Gamification!Running(p) /\ deliveries'[p] = deliveries[p]
    BY <1>2, <1>3 DEF GameTypes, Gamification!Running
  <1>8. AtWork'
    <2> SUFFICES ASSUME NEW p \in Order, Gamification!Running(p)'
                 PROVE  /\ p \notin delivered'
                        /\ deliveries'[p] <= Cardinality(delivered') + 1
                        /\ worth'[p] > 0 => account_gamifi' = p
      BY DEF AtWork
    <2>1. /\ p # o /\ deliveries'[p] = deliveries[p] /\ p \notin delivered
          /\ deliveries[p] <= d + 1 /\ deliveries[p] \in Nat
          /\ worth[p] > 0 => account_gamifi = p
      BY <1>3, <1>7 DEF GameInv, AtWork, GameTypes
    <2>2. QED
      BY <1>2, <1>3, <1>4, <2>1
  <1>9. AllWorthAPoint' => AllWorthAPoint /\ worth[o] > 0
    BY <1>2 DEF AllWorthAPoint
  <1>10. AllWorthAPoint' =>
           \A a \in Achievement :
             /\ progress'[a] = Gamification!Least(Cardinality(delivered'), condition_value[a])
             /\ a \in unlocked' <=> Cardinality(delivered') >= condition_value[a]
    <2> SUFFICES ASSUME AllWorthAPoint', NEW a \in Achievement
                 PROVE  /\ progress'[a] = Gamification!Least(Cardinality(delivered'), condition_value[a])
                        /\ a \in unlocked' <=> Cardinality(delivered') >= condition_value[a]
      OBVIOUS
    <2>1. n = d + 1
      BY <1>1, <1>9 DEF GameInv, CountsAreFresh
    <2>2. a \in unlocked <=> d >= condition_value[a]
      BY <1>9 DEF GameInv, CountsAreFresh
    <2>3. condition_value[a] \in Nat
      OBVIOUS
    <2>4. a \in unlocked' <=> (a \in unlocked \/ n >= condition_value[a])
      BY <1>1
    <2>5. QED
      BY <1>1, <1>3, <1>4, <2>1, <2>2, <2>3, <2>4
  <1>11. CountsAreFresh'
    <2>1. ASSUME AllWorthAPoint', NEW p \in Order, Gamification!Running(p)', worth'[p] > 0
          PROVE  FALSE
      <3>1. p # o /\ account_gamifi = p /\ account_gamifi = o
        BY <1>2, <1>3, <1>7, <1>9, <2>1 DEF GameInv, AtWork
      <3>2. QED
        BY <3>1
    <2>2. QED
      BY <1>10, <2>1 DEF CountsAreFresh
  <1>12. Gamification!RewardedOnceForWhatWasReached'
    <2>1. \A a \in Achievement : rewards'[a] = IF a \in unlocked' THEN 1 ELSE 0
      BY <1>1, GameCount DEF GameInv, Gamification!RewardedOnceForWhatWasReached
    <2>2. \A a \in unlocked' : Cardinality(delivered') >= condition_value[a]
      <3> SUFFICES ASSUME NEW a \in unlocked' PROVE d + 1 >= condition_value[a]
        BY <1>4
      <3>1. a \in Achievement /\ condition_value[a] \in Nat
        BY <1>6 DEF GameTypes
      <3>2. a \in unlocked => d >= condition_value[a]
        BY DEF GameInv, Gamification!RewardedOnceForWhatWasReached
      <3>3. a \in unlocked \/ n >= condition_value[a]
        BY <1>1
      <3>4. QED
        BY <1>3, <3>1, <3>2, <3>3
    <2>3. prizes' = IF completed' THEN 1 ELSE 0
      <3>1. prizes = IF completed THEN 1 ELSE 0
        BY DEF GameInv, Gamification!RewardedOnceForWhatWasReached
      <3>2. CASE completed
        <4>1. prizes' = 1 + 0 /\ completed'
          BY <1>1, <3>1, <3>2
        <4>2. QED
          BY <4>1
      <3>3. CASE ~ completed /\ done
        <4>1. prizes' = 0 + 1 /\ completed'
          BY <1>1, <3>1, <3>3
        <4>2. QED
          BY <4>1
      <3>4. CASE ~ completed /\ ~ done
        <4>1. prizes' = 0 + 0 /\ ~ completed'
          BY <1>1, <3>1, <3>4
        <4>2. QED
          BY <4>1
      <3>5. QED
        BY <3>2, <3>3, <3>4
    <2>4. completed' => Cardinality(delivered' \cap created_in') >= target_value
      <3>1. CASE done
        BY <1>2, <3>1
      <3>2. CASE completed
        <4>1. Cardinality(delivered \cap created_in) >= target_value
          BY <3>2 DEF GameInv, Gamification!RewardedOnceForWhatWasReached
        <4>2. /\ IsFiniteSet((delivered \cup {o}) \cap created_in)
              /\ Cardinality((delivered \cup {o}) \cap created_in) \in Nat
              /\ Cardinality(delivered \cap created_in) \in Nat
          <5>1. (delivered \cup {o}) \cap created_in \in SUBSET Order /\ delivered \cap created_in \in SUBSET Order
            BY <1>3 DEF GameTypes
          <5>2. QED
            BY <1>3, <5>1, DeliveredIsFinite
        <4>3. Cardinality(delivered \cap created_in) <= Cardinality((delivered \cup {o}) \cap created_in)
          BY <4>2, FS_Subset
        <4>4. QED
          BY <1>2, <4>1, <4>2, <4>3
      <3>3. QED
        BY <1>1, <3>1, <3>2
    <2>5. badge' => lifetime_earned' >= points_required
      <3>1. badge => lifetime_earned >= points_required
        BY DEF GameInv, Gamification!RewardedOnceForWhatWasReached
      <3>2. lifetime_earned \in Nat
        BY <1>3 DEF GameTypes
      <3>3. badge' => badge \/ earned >= points_required
        BY <1>2
      <3>4. lifetime_earned' >= lifetime_earned /\ lifetime_earned' >= earned
        BY <1>5, <3>2
      <3>5. QED
        BY <1>5, <3>1, <3>2, <3>3, <3>4
    <2>6. QED
      BY <1>10, <2>1, <2>2, <2>3, <2>4, <2>5 DEF Gamification!RewardedOnceForWhatWasReached, AllWorthAPoint
  <1>13. QED
    BY <1>6, <1>8, <1>11, <1>12 DEF GameInv

LEMMA RollsBack ==
  ASSUME GameInv, NEW o \in Order, Gamification!rolls_back(o)
  PROVE  GameInv'
  <1>1. /\ deliveries' = [deliveries EXCEPT ![o] = 0]
        /\ account_gamifi' = IF account_gamifi = o THEN Gamification!NoOne ELSE account_gamifi
        /\ UNCHANGED <<worth, created_in, open, delivered, lifetime_earned, progress, unlocked, rewards, badge,
                       completed, prizes>>
    BY DEF Gamification!rolls_back
  <1>2. GameTypes'
    BY <1>1 DEF GameInv, GameTypes
  <1>3. \A p \in Order : Gamification!Running(p)' => p # o /\ Gamification!Running(p) /\ deliveries'[p] = deliveries[p]
    BY <1>1 DEF GameInv, GameTypes, Gamification!Running
  <1>4. AtWork'
    BY <1>1, <1>3 DEF GameInv, AtWork
  <1>5. CountsAreFresh'
    BY <1>1, <1>3 DEF GameInv, CountsAreFresh, AllWorthAPoint
  <1>6. QED
    BY <1>1, <1>2, <1>4, <1>5, RewardsAtRest

LEMMA GameStep ==
  ASSUME GameInv, [Gamification!Next]_(Gamification!vars)
  PROVE  GameInv'
  <1>1. CASE Gamification!window_ends \/ UNCHANGED Gamification!vars
    <2>1. UNCHANGED <<worth, created_in, delivered, deliveries, account_gamifi, lifetime_earned, progress,
                      unlocked, rewards, badge, completed, prizes>>
      BY <1>1 DEF Gamification!window_ends, Gamification!vars
    <2>2. GameTypes' /\ AtWork' /\ CountsAreFresh'
      BY <2>1 DEF GameInv, GameTypes, AtWork, CountsAreFresh, AllWorthAPoint, Gamification!Running
    <2>3. QED
      BY <2>1, <2>2, RewardsAtRest
  <1>2. QED
    BY <1>1, Delivering, Commits, RollsBack DEF Gamification!Next

-----------------------------------------------------------------------------
(* Subscriptions *)

SubsTypes ==
  /\ now_subscr \in 1 .. LastPeriod
  /\ sstatus \in [Sub -> {"none"} \cup DOMAIN Subscriptions!SUBSCRIPTION_TRANSITIONS]
  /\ ends \in [Sub -> 0 .. LastPeriod + Period]
  /\ pay \in [Payment -> Subscriptions!SubscriptionPayment]
  /\ due_subscr \in SUBSET Sub /\ overdue \in SUBSET Sub
  /\ \A s \in overdue : sstatus[s] # "none"

\* A request that waits for its answer is one of a subscription there is.
RequestsAreOfASubscription ==
  \A p \in Payment : pay[p].status = "processing" => pay[p].of \in Sub /\ sstatus[pay[p].of] # "none"

RequestsAreAlone ==
  \A p, q \in Payment :
    pay[p].status = "processing" /\ pay[q].status = "processing" /\ pay[p].of = pay[q].of => p = q

\* Nobody opens a request for what the task has listed, the task apart.
ListedHasNoRequest ==
  \A s \in due_subscr : sstatus[s] # "none" /\ \A p \in Payment : ~ (pay[p].status = "processing" /\ pay[p].of = s)

ActiveIsPaid ==
  \A s \in Sub : sstatus[s] = "active" =>
    \E p \in Payment : pay[p].status = "completed" /\ pay[p].of = s /\ pay[p].until = ends[s]

SubsInv ==
  /\ SubsTypes
  /\ RequestsAreOfASubscription
  /\ RequestsAreAlone
  /\ ListedHasNoRequest
  /\ ActiveIsPaid

LEMMA SubsInit == Subscriptions!Init => SubsInv
  <1> SUFFICES ASSUME Subscriptions!Init PROVE SubsInv
    OBVIOUS
  <1> USE SubscriptionsAssumption DEF Subscriptions!Init
  <1>1. SubsTypes
    BY DEF SubsTypes, Subscriptions!SubscriptionPayment, Subscriptions!SUBSCRIPTION_TRANSITIONS
  <1>2. QED
    BY <1>1 DEF SubsInv, RequestsAreOfASubscription, RequestsAreAlone, ListedHasNoRequest, ActiveIsPaid

\* A request is opened for a subscription that has none open.
LEMMA ARequestIsOpened ==
  ASSUME SubsInv, NEW s \in Sub, NEW p \in Payment, Subscriptions!_charge(s, p),
         \A q \in Payment : ~ (pay[q].status = "processing" /\ pay[q].of = s),
         sstatus' \in [Sub -> {"none"} \cup DOMAIN Subscriptions!SUBSCRIPTION_TRANSITIONS],
         sstatus'[s] # "none",
         \A t \in Sub : t # s => sstatus'[t] = sstatus[t],
         sstatus'[s] = "active" => sstatus[s] = "active",
         due_subscr' \in SUBSET due_subscr, s \notin due_subscr', UNCHANGED <<now_subscr, ends, overdue>>
  PROVE  SubsInv'
  <1> USE DEF SubsInv
  <1>1. /\ pay[p].status = "none"
        /\ pay' \in [Payment -> Subscriptions!SubscriptionPayment]
        /\ pay'[p] = [status |-> "processing", of |-> s, until |-> now_subscr + Period]
        /\ \A q \in Payment : q # p => pay'[q] = pay[q]
    <2>1. now_subscr + Period \in 0 .. LastPeriod + Period
      BY SubscriptionsAssumption DEF SubsTypes
    <2>2. [status |-> "processing", of |-> s, until |-> now_subscr + Period] \in Subscriptions!SubscriptionPayment
      BY <2>1 DEF Subscriptions!SubscriptionPayment
    <2>3. QED
      BY <2>2 DEF Subscriptions!_charge, SubsTypes
  <1>2. SubsTypes'
    BY <1>1 DEF SubsTypes
  <1>3. RequestsAreOfASubscription'
    <2> SUFFICES ASSUME NEW q \in Payment, pay'[q].status = "processing"
                 PROVE  pay'[q].of \in Sub /\ sstatus'[pay'[q].of] # "none"
      BY DEF RequestsAreOfASubscription
    <2>1. CASE q = p
      BY <1>1, <2>1
    <2>2. CASE q # p
      BY <1>1, <2>2 DEF RequestsAreOfASubscription
    <2>3. QED
      BY <2>1, <2>2
  <1>4. RequestsAreAlone'
    BY <1>1 DEF RequestsAreAlone
  <1>5. ListedHasNoRequest'
    <2> SUFFICES ASSUME NEW t \in due_subscr', NEW q \in Payment
                 PROVE  sstatus'[t] # "none" /\ ~ (pay'[q].status = "processing" /\ pay'[q].of = t)
      BY <1>1 DEF ListedHasNoRequest, SubsTypes, Subscriptions!_charge
    <2>1. t \in due_subscr /\ t \in Sub /\ t # s
      BY DEF SubsTypes
    <2>2. CASE q = p
      BY <1>1, <2>1, <2>2 DEF ListedHasNoRequest
    <2>3. CASE q # p
      BY <1>1, <2>1, <2>3 DEF ListedHasNoRequest
    <2>4. QED
      BY <2>2, <2>3
  <1>6. ActiveIsPaid'
    <2> SUFFICES ASSUME NEW t \in Sub, sstatus'[t] = "active"
                 PROVE  \E q \in Payment : pay'[q].status = "completed" /\ pay'[q].of = t /\ pay'[q].until = ends[t]
      BY DEF ActiveIsPaid
    <2>1. sstatus[t] = "active"
      OBVIOUS
    <2>2. PICK q \in Payment : pay[q].status = "completed" /\ pay[q].of = t /\ pay[q].until = ends[t]
      BY <2>1 DEF ActiveIsPaid
    <2>3. q # p
      BY <1>1, <2>2
    <2>4. QED
      BY <1>1, <2>2, <2>3
  <1>7. QED
    BY <1>2, <1>3, <1>4, <1>5, <1>6

\* A subscription is closed, or nothing of it moves: no request is concerned.
LEMMA ASubscriptionIsClosed ==
  ASSUME SubsInv, UNCHANGED <<now_subscr, ends, pay, due_subscr>>, overdue' \in SUBSET overdue,
         NEW s \in Sub, NEW target \in {"cancelled", "expired"},
         sstatus[s] # "none",
         sstatus' = [sstatus EXCEPT ![s] = target]
  PROVE  SubsInv'
  <1> USE DEF SubsInv
  <1>1. /\ sstatus' \in [Sub -> {"none"} \cup DOMAIN Subscriptions!SUBSCRIPTION_TRANSITIONS]
        /\ sstatus'[s] = target
        /\ \A t \in Sub : t # s => sstatus'[t] = sstatus[t]
    BY DEF SubsTypes, Subscriptions!SUBSCRIPTION_TRANSITIONS
  <1>2. SubsTypes' /\ RequestsAreAlone'
    BY <1>1 DEF SubsTypes, RequestsAreAlone
  <1>3. RequestsAreOfASubscription'
    BY <1>1 DEF RequestsAreOfASubscription
  <1>4. ListedHasNoRequest'
    BY <1>1 DEF ListedHasNoRequest, SubsTypes
  <1>5. ActiveIsPaid'
    BY <1>1 DEF ActiveIsPaid
  <1>6. QED
    BY <1>2, <1>3, <1>4, <1>5

LEMMA Notified ==
  ASSUME SubsInv, NEW p \in Payment, NEW verdict \in {"completed", "failed"}, Subscriptions!notified(p, verdict)
  PROVE  SubsInv'
  <1> DEFINE s == pay[p].of
             opens == verdict = "completed" /\ sstatus[s] \in {"pending", "active"}
  <1> USE DEF SubsInv
  <1>1. /\ s \in Sub /\ sstatus[s] # "none" /\ pay[p].status = "processing"
        /\ UNCHANGED <<now_subscr, due_subscr, overdue>>
    BY DEF Subscriptions!notified, RequestsAreOfASubscription
  <1>2. /\ pay' \in [Payment -> Subscriptions!SubscriptionPayment]
        /\ pay'[p].status = verdict /\ pay'[p].of = s /\ pay'[p].until = pay[p].until
        /\ \A q \in Payment : q # p => pay'[q] = pay[q]
    <2>1. pay' = [pay EXCEPT ![p].status = verdict]
      BY DEF Subscriptions!notified
    <2>2. pay[p] \in Subscriptions!SubscriptionPayment
      BY DEF SubsTypes
    <2>3. [pay[p] EXCEPT !.status = verdict] = [status |-> verdict, of |-> pay[p].of, until |-> pay[p].until]
      BY <2>2 DEF Subscriptions!SubscriptionPayment
    <2>4. [pay[p] EXCEPT !.status = verdict] \in Subscriptions!SubscriptionPayment
      BY <2>2, <2>3 DEF Subscriptions!SubscriptionPayment
    <2>5. pay'[p] = [pay[p] EXCEPT !.status = verdict] /\ \A q \in Payment : q # p => pay'[q] = pay[q]
      BY <2>1 DEF SubsTypes
    <2>6. pay' \in [Payment -> Subscriptions!SubscriptionPayment]
      BY <2>1, <2>4, <2>5 DEF SubsTypes
    <2>7. QED
      BY <2>3, <2>5, <2>6
  <1>3. /\ sstatus' = [sstatus EXCEPT ![s] = IF opens THEN "active" ELSE @]
        /\ ends' = [ends EXCEPT ![s] = IF opens THEN pay[p].until ELSE @]
    BY DEF Subscriptions!notified, Subscriptions!on_payment_settled
  <1>4. pay[p].until \in 0 .. LastPeriod + Period
    BY DEF SubsTypes, Subscriptions!SubscriptionPayment
  <1> HIDE DEF s, opens
  <1>5. /\ sstatus' \in [Sub -> {"none"} \cup DOMAIN Subscriptions!SUBSCRIPTION_TRANSITIONS]
        /\ sstatus'[s] = IF opens THEN "active" ELSE sstatus[s]
        /\ \A t \in Sub : t # s => sstatus'[t] = sstatus[t] /\ ends'[t] = ends[t]
        /\ ends' \in [Sub -> 0 .. LastPeriod + Period]
        /\ ends'[s] = IF opens THEN pay[p].until ELSE ends[s]
    BY <1>1, <1>3, <1>4 DEF SubsTypes, Subscriptions!SUBSCRIPTION_TRANSITIONS
  <1>6. SubsTypes'
    BY <1>1, <1>2, <1>5 DEF SubsTypes
  <1>7. RequestsAreAlone'
    BY <1>2 DEF RequestsAreAlone
  <1>8. RequestsAreOfASubscription'
    <2> SUFFICES ASSUME NEW q \in Payment, pay'[q].status = "processing"
                 PROVE  pay'[q].of \in Sub /\ sstatus'[pay'[q].of] # "none"
      BY DEF RequestsAreOfASubscription
    <2>1. q # p /\ pay'[q] = pay[q]
      BY <1>2
    <2>2. pay[q].of \in Sub /\ sstatus[pay[q].of] # "none"
      BY <2>1 DEF RequestsAreOfASubscription
    <2>3. QED
      BY <1>1, <1>5, <2>1, <2>2
  <1>9. ListedHasNoRequest'
    <2> SUFFICES ASSUME NEW t \in due_subscr
                 PROVE  sstatus'[t] # "none" /\ \A q \in Payment : ~ (pay'[q].status = "processing" /\ pay'[q].of = t)
      BY <1>1 DEF ListedHasNoRequest
    <2>1. t \in Sub /\ sstatus[t] # "none" /\ \A q \in Payment : ~ (pay[q].status = "processing" /\ pay[q].of = t)
      BY DEF ListedHasNoRequest, SubsTypes
    <2>2. QED
      BY <1>1, <1>2, <1>5, <2>1
  <1>10. ActiveIsPaid'
    <2> SUFFICES ASSUME NEW t \in Sub, sstatus'[t] = "active"
                 PROVE  \E q \in Payment : pay'[q].status = "completed" /\ pay'[q].of = t /\ pay'[q].until = ends'[t]
      BY DEF ActiveIsPaid
    <2>1. CASE t = s /\ opens
      BY <1>2, <1>5, <2>1 DEF opens
    <2>2. CASE ~ (t = s /\ opens)
      <3>1. sstatus[t] = "active" /\ ends'[t] = ends[t]
        BY <1>5, <2>2
      <3>2. PICK q \in Payment : pay[q].status = "completed" /\ pay[q].of = t /\ pay[q].until = ends[t]
        BY <3>1 DEF ActiveIsPaid
      <3>3. q # p
        BY <1>1, <3>2
      <3>4. QED
        BY <1>2, <3>1, <3>2, <3>3
    <2>3. QED
      BY <2>1, <2>2
  <1>11. QED
    BY <1>6, <1>7, <1>8, <1>9, <1>10

LEMMA SubsStep ==
  ASSUME SubsInv, [Subscriptions!Next]_(Subscriptions!vars)
  PROVE  SubsInv'
  <1> USE DEF SubsInv
  <1>1. ASSUME NEW s \in Sub, Subscriptions!cancel(s) PROVE SubsInv'
    BY <1>1, ASubscriptionIsClosed DEF Subscriptions!cancel, SubsTypes
  <1>2. ASSUME NEW s \in Sub, Subscriptions!expire(s) PROVE SubsInv'
    <2>1. CASE sstatus' = sstatus
      BY <1>2, <2>1 DEF Subscriptions!expire, SubsTypes, RequestsAreOfASubscription, RequestsAreAlone, ListedHasNoRequest, ActiveIsPaid
    <2>2. CASE sstatus' # sstatus
      <3>1. /\ Subscriptions!can(Subscriptions!SUBSCRIPTION_TRANSITIONS, sstatus[s], "expired")
            /\ sstatus' = [sstatus EXCEPT ![s] = "expired"]
        BY <1>2, <2>2 DEF Subscriptions!expire, SubsTypes
      <3>2. sstatus[s] # "none"
        BY <1>2 DEF Subscriptions!expire, SubsTypes
      <3>3. QED
        BY <1>2, <3>1, <3>2, ASubscriptionIsClosed DEF Subscriptions!expire, SubsTypes
    <2>3. QED
      BY <2>1, <2>2
  <1>3. ASSUME NEW s \in Sub, Subscriptions!charge_raises(s) PROVE SubsInv'
    BY <1>3 DEF Subscriptions!charge_raises, SubsTypes, RequestsAreOfASubscription, RequestsAreAlone, ListedHasNoRequest, ActiveIsPaid
  <1>4. ASSUME NEW s \in Sub, NEW p \in Payment, Subscriptions!subscribe(s, p) PROVE SubsInv'
    <2>1. /\ \A q \in Payment : ~ (pay[q].status = "processing" /\ pay[q].of = s)
          /\ s \notin due_subscr
      BY <1>4 DEF Subscriptions!subscribe, RequestsAreOfASubscription, ListedHasNoRequest
    <2>2. /\ sstatus' \in [Sub -> {"none"} \cup DOMAIN Subscriptions!SUBSCRIPTION_TRANSITIONS]
          /\ sstatus'[s] = "pending"
          /\ \A t \in Sub : t # s => sstatus'[t] = sstatus[t]
      BY <1>4 DEF Subscriptions!subscribe, SubsTypes, Subscriptions!SUBSCRIPTION_TRANSITIONS
    <2>3. Subscriptions!_charge(s, p) /\ UNCHANGED <<now_subscr, ends, due_subscr, overdue>>
      BY <1>4 DEF Subscriptions!subscribe
    <2>4. QED
      BY <2>1, <2>2, <2>3, ARequestIsOpened
  <1>5. ASSUME NEW s \in Sub, NEW p \in Payment, Subscriptions!renew(s, p) PROVE SubsInv'
    <2>1. Subscriptions!_charge(s, p) /\ UNCHANGED <<now_subscr, sstatus, ends, overdue>> /\ due_subscr' = due_subscr \ {s} /\ s \in due_subscr
      BY <1>5 DEF Subscriptions!renew
    <2>2. sstatus[s] # "none" /\ \A q \in Payment : ~ (pay[q].status = "processing" /\ pay[q].of = s)
      BY <2>1 DEF ListedHasNoRequest
    <2>3. QED
      BY <2>1, <2>2, ARequestIsOpened DEF SubsTypes
  <1>6. ASSUME NEW p \in Payment, NEW verdict \in {"completed", "failed"}, Subscriptions!notified(p, verdict) PROVE SubsInv'
    BY <1>6, Notified
  <1>7. ASSUME Subscriptions!renew_due \/ Subscriptions!tick \/ UNCHANGED Subscriptions!vars PROVE SubsInv'
    <2>1. UNCHANGED <<sstatus, ends, pay, due_subscr>> /\ now_subscr' \in 1 .. LastPeriod
          /\ overdue' \in SUBSET Sub /\ \A s \in overdue' : sstatus[s] # "none"
      BY <1>7, SubscriptionsAssumption DEF Subscriptions!renew_due, Subscriptions!tick, Subscriptions!vars, SubsTypes
    <2>2. QED
      BY <2>1 DEF SubsTypes, RequestsAreOfASubscription, RequestsAreAlone, ListedHasNoRequest, ActiveIsPaid
  <1>8. ASSUME Subscriptions!renew_subscriptions PROVE SubsInv'
    <2>1. UNCHANGED <<now_subscr, sstatus, ends, pay, overdue>> /\ due_subscr' = Subscriptions!due_for_renewal
      BY <1>8 DEF Subscriptions!renew_subscriptions
    <2>2. ListedHasNoRequest' /\ due_subscr' \in SUBSET Sub
      BY <2>1 DEF Subscriptions!due_for_renewal, Subscriptions!Opened, ListedHasNoRequest
    <2>3. QED
      BY <2>1, <2>2 DEF SubsTypes, RequestsAreOfASubscription, RequestsAreAlone, ActiveIsPaid
  <1>9. QED
    BY <1>1, <1>2, <1>3, <1>4, <1>5, <1>6, <1>7, <1>8 DEF Subscriptions!Next

\* The cardinality the component counts with is the one of the theorems.
LEMMA SubsCount == \A S : Subscriptions!Cardinality(S) = Cardinality(S)
  BY DEF Subscriptions!Cardinality, Cardinality

LEMMA SubsInvImplies == SubsInv => Subscriptions!PeriodIsPaid /\ Subscriptions!OneRequestAtATime
  <1> SUFFICES ASSUME SubsInv PROVE Subscriptions!PeriodIsPaid /\ Subscriptions!OneRequestAtATime
    OBVIOUS
  <1>1. Subscriptions!PeriodIsPaid
    BY DEF SubsInv, SubsTypes, ActiveIsPaid, Subscriptions!PeriodIsPaid
  <1>2. ASSUME NEW s \in Sub PROVE Cardinality(Subscriptions!Opened(s)) <= 1
    <2>1. CASE Subscriptions!Opened(s) = {}
      <3>1. Cardinality(Subscriptions!Opened(s)) = 0
        BY <2>1, FS_EmptySet
      <3>2. QED
        BY <3>1
    <2>2. CASE Subscriptions!Opened(s) # {}
      <3>1. PICK p \in Subscriptions!Opened(s) : TRUE
        BY <2>2
      <3>2. Subscriptions!Opened(s) = {p}
        BY <3>1 DEF Subscriptions!Opened, SubsInv, RequestsAreAlone
      <3>3. Cardinality(Subscriptions!Opened(s)) = 1
        BY <3>2, FS_Singleton
      <3>4. QED
        BY <3>3
    <2>3. QED
      BY <2>1, <2>2
  <1>3. QED
    BY <1>1, <1>2, SubsCount DEF Subscriptions!OneRequestAtATime

-----------------------------------------------------------------------------
(* The payment gateway *)

InvoiceState == {"none"} \cup DOMAIN Gateway!STATUS_MAP
TransactionStatus == {"none"} \cup DOMAIN Gateway!PAYMENT_TRANSITIONS

\* What a body is until the provider has answered, and what it is after.
Body   == [step : {"authentic"}, token : Txn, claim : Claim]
Answer == [step : {"parsed"}, token : Txn, brut : DOMAIN Gateway!STATUS_MAP, amount : Gateway!Stated]

RowsAreTyped ==
  /\ status \in [Txn -> TransactionStatus]
  /\ invoice \in [Txn -> [state : InvoiceState, amount : Gateway!Stated]]
  /\ post_gatewa \in [Worker -> {Gateway!Idle} \cup Body \cup Answer]

\* An end the provider has stated is still that of the invoice when it is
\* applied, however late: an invoice that has ended does not move any more.
\* The amount was that of the invoice and is so still.
AnswersAreTrue ==
  \A w \in Worker : post_gatewa[w] \in Answer =>
    /\ invoice[post_gatewa[w].token].state # "none"
    /\ invoice[post_gatewa[w].token].amount = post_gatewa[w].amount
    /\ post_gatewa[w].brut # "pending" => invoice[post_gatewa[w].token].state = post_gatewa[w].brut

GatewayInv == RowsAreTyped /\ AnswersAreTrue /\ Gateway!SettledAsTheProviderSays

-----------------------------------------------------------------------------
\* The three kinds of post are told apart by their step.
LEMMA PostsByStep ==
  /\ \A p \in Body : p.step = "authentic" /\ p.token \in Txn
  /\ \A p \in Answer : p.step = "parsed"
  /\ Gateway!Idle.step = "idle"
  BY DEF Body, Answer, Gateway!Idle

LEMMA GatewayInvInit == Gateway!Init => GatewayInv
  <1> SUFFICES ASSUME Gateway!Init PROVE GatewayInv
    OBVIOUS
  <1> USE DEF Gateway!Init
  <1>1. RowsAreTyped
    BY DEF RowsAreTyped, TransactionStatus, InvoiceState, Gateway!NoInvoice, Gateway!Stated
  <1>2. AnswersAreTrue
    BY PostsByStep DEF AnswersAreTrue
  <1>3. Gateway!SettledAsTheProviderSays
    BY DEF Gateway!SettledAsTheProviderSays
  <1>4. QED
    BY <1>1, <1>2, <1>3 DEF GatewayInv

\* A step after which each worker holds what it held, or nothing, or a body,
\* while the invoices stay as they are, leaves every answer true.
LEMMA AnswersStayTrue ==
  ASSUME AnswersAreTrue, UNCHANGED invoice,
         \A w \in Worker : post_gatewa'[w] = post_gatewa[w] \/ post_gatewa'[w] \notin Answer
  PROVE  AnswersAreTrue'
  BY DEF AnswersAreTrue

LEMMA ProviderMoves ==
  ASSUME GatewayInv, NEW t \in Txn, NEW s \in {"completed", "failed", "cancelled"},
         Gateway!provider_moves(t, s)
  PROVE  GatewayInv'
  <1> USE DEF Gateway!provider_moves
  <1>1. RowsAreTyped'
    BY DEF GatewayInv, RowsAreTyped, InvoiceState, Gateway!STATUS_MAP
  <1>2. AnswersAreTrue'
    BY DEF GatewayInv, RowsAreTyped, AnswersAreTrue, Answer
  <1>3. Gateway!SettledAsTheProviderSays'
    BY DEF GatewayInv, RowsAreTyped, Gateway!SettledAsTheProviderSays
  <1>4. QED
    BY <1>1, <1>2, <1>3 DEF GatewayInv

LEMMA OpenCheckout ==
  ASSUME GatewayInv, NEW t \in Txn, NEW amount \in Gateway!Stated, NEW answered \in BOOLEAN,
         Gateway!open_checkout(t, amount, answered)
  PROVE  GatewayInv'
  <1> USE DEF Gateway!open_checkout
  <1>1. RowsAreTyped'
    BY DEF GatewayInv, RowsAreTyped, InvoiceState, TransactionStatus, Gateway!STATUS_MAP, Gateway!PAYMENT_TRANSITIONS
  <1>2. AnswersAreTrue'
    BY DEF GatewayInv, RowsAreTyped, AnswersAreTrue, Answer, Gateway!NoInvoice
  <1>3. Gateway!SettledAsTheProviderSays'
    BY DEF GatewayInv, RowsAreTyped, Gateway!SettledAsTheProviderSays
  <1>4. QED
    BY <1>1, <1>2, <1>3 DEF GatewayInv

LEMMA Authenticate ==
  ASSUME GatewayInv, NEW t \in Txn, NEW w \in Worker, NEW claim \in Claim,
         Gateway!authenticate(w, t, claim)
  PROVE  GatewayInv'
  <1> DEFINE body == [step |-> "authentic", token |-> t, claim |-> claim]
  <1>1. body \in Body
    BY DEF Body
  <1>2. RowsAreTyped'
    BY <1>1 DEF Gateway!authenticate, GatewayInv, RowsAreTyped
  <1>3. AnswersAreTrue'
    <2>1. body \notin Answer
      BY PostsByStep
    <2>2. QED
      BY <2>1, AnswersStayTrue DEF Gateway!authenticate, GatewayInv, RowsAreTyped
  <1>4. Gateway!SettledAsTheProviderSays'
    BY DEF Gateway!authenticate, GatewayInv, Gateway!SettledAsTheProviderSays
  <1>5. QED
    BY <1>2, <1>3, <1>4 DEF GatewayInv

LEMMA Parse ==
  ASSUME GatewayInv, NEW w \in Worker, Gateway!parse(w)
  PROVE  GatewayInv'
  <1> DEFINE t == post_gatewa[w].token
             answer == [step |-> "parsed", token |-> t, brut |-> invoice[t].state,
                        amount |-> invoice[t].amount]
  <1>1. t \in Txn
    BY PostsByStep DEF Gateway!parse, GatewayInv, RowsAreTyped
  <1>2. invoice[t].state \in DOMAIN Gateway!STATUS_MAP /\ invoice[t].amount \in Gateway!Stated
    BY <1>1 DEF Gateway!parse, GatewayInv, RowsAreTyped, InvoiceState
  <1>3. answer \in Answer
    BY <1>1, <1>2 DEF Answer
  <1>4. post_gatewa' = [post_gatewa EXCEPT ![w] = answer] /\ UNCHANGED <<status, invoice>>
    BY DEF Gateway!parse
  <1>5. RowsAreTyped'
    BY <1>3, <1>4 DEF GatewayInv, RowsAreTyped
  <1>6. AnswersAreTrue'
    <2>1. invoice[t].state # "none"
      BY DEF Gateway!parse
    <2>2. post_gatewa'[w] = answer /\ \A v \in Worker \ {w} : post_gatewa'[v] = post_gatewa[v]
      BY <1>4 DEF GatewayInv, RowsAreTyped
    <2>3. QED
      BY <1>4, <2>1, <2>2 DEF GatewayInv, AnswersAreTrue
  <1>7. Gateway!SettledAsTheProviderSays'
    BY <1>4 DEF GatewayInv, Gateway!SettledAsTheProviderSays
  <1>8. QED
    BY <1>5, <1>6, <1>7 DEF GatewayInv

\* A worker that has done with a notification holds nothing.
LEMMA Forgotten ==
  ASSUME GatewayInv, NEW w \in Worker, post_gatewa' = [post_gatewa EXCEPT ![w] = Gateway!Idle], UNCHANGED invoice
  PROVE  AnswersAreTrue' /\ post_gatewa' \in [Worker -> {Gateway!Idle} \cup Body \cup Answer]
  <1>1. Gateway!Idle \notin Answer
    BY PostsByStep
  <1>2. QED
    BY <1>1, AnswersStayTrue DEF GatewayInv, RowsAreTyped

LEMMA ConfirmFails ==
  ASSUME GatewayInv, NEW w \in Worker, Gateway!_confirm_fails(w)
  PROVE  GatewayInv'
  BY Forgotten DEF Gateway!_confirm_fails, GatewayInv, RowsAreTyped, Gateway!SettledAsTheProviderSays

LEMMA HandleWebhook ==
  ASSUME GatewayInv, NEW w \in Worker, NEW applied \in BOOLEAN, Gateway!handle_webhook(w, applied)
  PROVE  GatewayInv'
  <1> DEFINE p == post_gatewa[w]
             t == p.token
             target == Gateway!STATUS_MAP[p.brut]
  <1>1. p \in Answer
    BY PostsByStep DEF Gateway!handle_webhook, GatewayInv, RowsAreTyped
  <1>2. t \in Txn /\ p.brut \in DOMAIN Gateway!STATUS_MAP /\ p.amount \in Gateway!Stated
    BY <1>1 DEF Answer
  <1>3. AnswersAreTrue' /\ post_gatewa' \in [Worker -> {Gateway!Idle} \cup Body \cup Answer]
    BY Forgotten DEF Gateway!handle_webhook
  <1>4. CASE applied /\ Gateway!Applies(w)
    <2>1. status' = [status EXCEPT ![t] = target] /\ UNCHANGED invoice
      BY <1>4 DEF Gateway!handle_webhook
    <2>2. target \in {"processing", "completed", "failed"}
      BY <1>2 DEF Gateway!STATUS_MAP
    <2>3. RowsAreTyped'
      BY <1>2, <1>3, <2>1, <2>2 DEF GatewayInv, RowsAreTyped, TransactionStatus, Gateway!PAYMENT_TRANSITIONS
    <2>4. target = "completed" => invoice[t].state = "completed" /\ invoice[t].amount \in {0, Billed}
      <3>1. target = "completed" => p.brut = "completed" /\ p.amount \in {0, Billed}
        BY <1>2, <1>4 DEF Gateway!STATUS_MAP, Gateway!Applies
      <3>2. QED
        BY <1>1, <3>1 DEF GatewayInv, AnswersAreTrue
    <2>5. target = "failed" => invoice[t].state \in {"failed", "cancelled"}
      <3>1. target = "failed" => p.brut \in {"failed", "cancelled"}
        BY <1>2 DEF Gateway!STATUS_MAP
      <3>2. QED
        BY <1>1, <3>1 DEF GatewayInv, AnswersAreTrue
    <2>6. Gateway!SettledAsTheProviderSays'
      BY <1>2, <2>1, <2>4, <2>5 DEF GatewayInv, RowsAreTyped, Gateway!SettledAsTheProviderSays
    <2>7. QED
      BY <1>3, <2>3, <2>6 DEF GatewayInv
  <1>5. CASE ~ (applied /\ Gateway!Applies(w))
    BY <1>3, <1>5 DEF Gateway!handle_webhook, GatewayInv, RowsAreTyped, Gateway!SettledAsTheProviderSays
  <1>6. QED
    BY <1>4, <1>5

LEMMA GatewayInvStep ==
  ASSUME GatewayInv, [Gateway!Next]_(Gateway!vars)
  PROVE  GatewayInv'
  <1>1. CASE UNCHANGED Gateway!vars
    BY <1>1 DEF Gateway!vars, GatewayInv, RowsAreTyped, AnswersAreTrue, Gateway!SettledAsTheProviderSays
  <1>2. CASE Gateway!Next
    BY <1>2, ProviderMoves, OpenCheckout, Authenticate, Parse, ConfirmFails, HandleWebhook DEF Gateway!Next
  <1>3. QED
    BY <1>1, <1>2

-----------------------------------------------------------------------------
(* Group carts *)

GroupCartStatus == {"none"} \cup DOMAIN GroupCarts!GROUP_CART_TRANSITIONS

\* The order is the cart, and the status is a declared one: a status outside
\* the machine would have transitions nothing is known of.
CartInv == gstatus \in GroupCartStatus /\ GroupCarts!OrderIsTheCart

\* No transition leaves a confirmed cart, and only confirm leads to it.
LEMMA OnlyConfirmConfirms ==
  ASSUME gstatus \in GroupCartStatus, NEW target, GroupCarts!_transition(target),
         target \in {"locked", "cancelled", "expired"}
  PROVE  gstatus # "confirmed" /\ gstatus' # "confirmed" /\ gstatus' \in GroupCartStatus
  BY DEF GroupCarts!_transition, GroupCarts!can, GroupCarts!is_noop, GroupCarts!GROUP_CART_TRANSITIONS, GroupCartStatus

\* A step that leaves the status, the lines and the orders alone keeps the
\* invariant.
LEMMA CartAtRest ==
  ASSUME CartInv, UNCHANGED <<gstatus, lines, ordered>>
  PROVE  CartInv'
  BY DEF CartInv, GroupCarts!OrderIsTheCart, GroupCartStatus

\* Lines are changed while the cart is open only: no order was made of them.
LEMMA OpenCartHasNoOrder ==
  ASSUME CartInv, GroupCarts!_assert_contributable, UNCHANGED <<gstatus, ordered>>
  PROVE  CartInv'
  BY DEF CartInv, GroupCarts!OrderIsTheCart, GroupCartStatus, GroupCarts!_assert_contributable

LEMMA CartInvInit == GroupCarts!Init => CartInv
  BY DEF GroupCarts!Init, CartInv, GroupCarts!OrderIsTheCart, GroupCartStatus

LEMMA CartInvStep ==
  ASSUME CartInv, [GroupCarts!Next]_(GroupCarts!vars)
  PROVE  CartInv'
  <1>1. ASSUME NEW u \in Guest, GroupCarts!open(u) PROVE CartInv'
    BY <1>1 DEF GroupCarts!open, CartInv, GroupCarts!OrderIsTheCart, GroupCartStatus, GroupCarts!GROUP_CART_TRANSITIONS
  <1>2. ASSUME NEW u \in Guest, GroupCarts!join(u) PROVE CartInv'
    BY <1>2, CartAtRest DEF GroupCarts!join
  <1>3. ASSUME NEW target \in {"locked", "cancelled", "expired"}, GroupCarts!_transition(target) PROVE CartInv'
    <2>1. gstatus # "confirmed" /\ gstatus' # "confirmed" /\ gstatus' \in GroupCartStatus
      BY <1>3, OnlyConfirmConfirms DEF CartInv
    <2>2. UNCHANGED ordered
      BY <1>3 DEF GroupCarts!_transition
    <2>3. QED
      BY <2>1, <2>2 DEF CartInv, GroupCarts!OrderIsTheCart, GroupCartStatus
  <1>4. ASSUME NEW u \in Guest, GroupCarts!confirm(u) PROVE CartInv'
    <2>1. ordered = <<>>
      BY <1>4 DEF GroupCarts!confirm, CartInv, GroupCarts!OrderIsTheCart
    <2>2. ordered' = <<lines'>>
      BY <1>4, <2>1 DEF GroupCarts!confirm
    <2>3. QED
      BY <1>4, <2>2 DEF GroupCarts!confirm, CartInv, GroupCarts!OrderIsTheCart, GroupCartStatus, GroupCarts!GROUP_CART_TRANSITIONS
  <1>5. ASSUME NEW u \in Guest, NEW d \in Dish, NEW q \in GroupCarts!QuantitySerializer, GroupCarts!add_line(u, d, q)
        PROVE  CartInv'
    BY <1>5, OpenCartHasNoOrder DEF GroupCarts!add_line
  <1>6. ASSUME NEW r \in GroupCarts!LineRequest, GroupCarts!_line(r) \/ GroupCarts!refused(r) PROVE CartInv'
    BY <1>6, CartAtRest DEF GroupCarts!_line, GroupCarts!refused
  <1>7. ASSUME NEW r \in GroupCarts!LineRequest, GroupCarts!set_quantity(r) \/ GroupCarts!remove_line(r) PROVE CartInv'
    BY <1>7, OpenCartHasNoOrder DEF GroupCarts!set_quantity, GroupCarts!remove_line
  <1>8. ASSUME GroupCarts!closes_at \/ GroupCarts!expire_group_carts PROVE CartInv'
    BY <1>8, CartAtRest DEF GroupCarts!closes_at, GroupCarts!expire_group_carts
  <1>9. ASSUME GroupCarts!expire_due PROVE CartInv'
    BY <1>9, <1>3, CartAtRest DEF GroupCarts!expire_due
  <1>10. ASSUME UNCHANGED GroupCarts!vars PROVE CartInv'
    BY <1>10, CartAtRest DEF GroupCarts!vars
  <1>11. QED
    BY <1>1, <1>2, <1>3, <1>4, <1>5, <1>6, <1>7, <1>8, <1>9, <1>10 DEF GroupCarts!Next, GroupCarts!lock, GroupCarts!cancel

-----------------------------------------------------------------------------
(* Social groups and posts *)

\* What a request holds of what it has read.
SocialRequests ==
  {Social!Idle} \cup [op : {"join"}, user : Friend, existing : {"none", "active", "left"}]
         \cup [op : {"leave"}, user : Friend]
         \cup [op : {"like"}, user : Friend, like : Nat]
         \cup [op : {"comment"}]

Commenting == {q \in SocialRequest : request_social[q].op = "comment"}

SocialTypes ==
  /\ member \in [Friend -> {"none", "active", "left"}] /\ member_count \in Nat
  /\ like \in [Friend -> Nat] /\ likes_count \in Nat
  /\ comments \in Nat /\ comments_count \in Nat /\ rows_social \in Nat
  /\ request_social \in [SocialRequest -> SocialRequests]

\* A comment that is not counted yet will be, by the request that inserted it.
SocialInv ==
  /\ SocialTypes
  /\ Cardinality(Social!Active) <= member_count
  /\ member_count <= max_members
  /\ likes_count <= Cardinality(Social!Likers)
  /\ comments_count + Cardinality(Commenting) <= comments

LEMMA SocialSets ==
  /\ \A S \in SUBSET Friend : IsFiniteSet(S) /\ Cardinality(S) \in Nat
  /\ \A S \in SUBSET SocialRequest : IsFiniteSet(S) /\ Cardinality(S) \in Nat
  BY SocialAssumption, FS_Subset, FS_CardinalityType

LEMMA SocialRequestsByOp ==
  ASSUME NEW r \in SocialRequests
  PROVE  /\ r.op = "join" => r.user \in Friend
         /\ r.op = "leave" => r.user \in Friend
         /\ r.op = "like" => r.user \in Friend /\ r.like \in Nat
  BY DEF SocialRequests, Social!Idle

LEMMA RequestEnds ==
  ASSUME SocialTypes, NEW q \in SocialRequest, Social!Ends(q)
  PROVE  /\ request_social' \in [SocialRequest -> SocialRequests]
         /\ Cardinality(Commenting') = IF q \in Commenting THEN Cardinality(Commenting) - 1 ELSE Cardinality(Commenting)
         /\ Cardinality(Commenting) \in Nat /\ Cardinality(Commenting') \in Nat
  <1>1. Commenting' = Commenting \ {q} /\ request_social' \in [SocialRequest -> SocialRequests]
    BY DEF Social!Ends, Commenting, SocialTypes, SocialRequests, Social!Idle
  <1>2. IsFiniteSet(Commenting) /\ Commenting \in SUBSET SocialRequest /\ Commenting' \in SUBSET SocialRequest
    BY SocialSets DEF Commenting
  <1>3. QED
    BY <1>1, <1>2, SocialSets, FS_RemoveElement

LEMMA RequestReads ==
  ASSUME SocialTypes, NEW q \in SocialRequest, NEW r \in SocialRequests, Social!Reads(q, r)
  PROVE  /\ request_social' \in [SocialRequest -> SocialRequests]
         /\ Cardinality(Commenting') = IF r.op = "comment" THEN Cardinality(Commenting) + 1 ELSE Cardinality(Commenting)
         /\ Cardinality(Commenting) \in Nat /\ Cardinality(Commenting') \in Nat
  <1>1. /\ Commenting' = IF r.op = "comment" THEN Commenting \cup {q} ELSE Commenting
        /\ request_social' \in [SocialRequest -> SocialRequests]
        /\ q \notin Commenting
    BY DEF Social!Reads, Commenting, SocialTypes, Social!Idle
  <1>2. IsFiniteSet(Commenting) /\ Commenting \in SUBSET SocialRequest /\ Commenting' \in SUBSET SocialRequest
    BY SocialSets DEF Commenting
  <1>3. QED
    BY <1>1, <1>2, SocialSets, FS_AddElement

LEMMA SocialInit == Social!Init => SocialInv
  <1> SUFFICES ASSUME Social!Init PROVE SocialInv
    OBVIOUS
  <1> USE SocialAssumption DEF Social!Init
  <1>1. SocialTypes
    BY DEF SocialTypes, SocialRequests
  <1>2. Social!Likers = {} /\ Commenting = {} /\ Social!Active \in SUBSET {Creator}
    BY DEF Social!Likers, Commenting, Social!Active, Social!Idle
  <1>3. Cardinality(Social!Likers) = 0 /\ Cardinality(Commenting) = 0 /\ Cardinality(Social!Active) <= 1
    <2>1. IsFiniteSet({Creator}) /\ Cardinality({Creator}) = 1
      BY FS_Singleton
    <2>2. Cardinality(Social!Active) <= Cardinality({Creator})
      BY <1>2, <2>1, FS_Subset
    <2>3. QED
      BY <1>2, <2>1, <2>2, FS_EmptySet
  <1>4. QED
    BY <1>1, <1>3 DEF SocialInv

\* A membership that begins takes a place, one that ends gives a place back.
LEMMA MemberMoves ==
  ASSUME SocialTypes, NEW u \in Friend, NEW m \in {"active", "left"},
         member' = [member EXCEPT ![u] = m]
  PROVE  /\ member' \in [Friend -> {"none", "active", "left"}]
         /\ Cardinality(Social!Active) \in Nat
         /\ m = "active" => Cardinality(Social!Active') <= Cardinality(Social!Active) + 1
         /\ m = "left" /\ member[u] = "active" => Cardinality(Social!Active') = Cardinality(Social!Active) - 1 /\ Cardinality(Social!Active') \in Nat
  <1>1. /\ member' \in [Friend -> {"none", "active", "left"}]
        /\ Social!Active' = IF m = "active" THEN Social!Active \cup {u} ELSE Social!Active \ {u}
        /\ member[u] = "active" <=> u \in Social!Active
    BY DEF SocialTypes, Social!Active
  <1>2. Social!Active \in SUBSET Friend /\ Social!Active' \in SUBSET Friend
    BY DEF Social!Active
  <1>3. QED
    BY <1>1, <1>2, SocialSets, FS_AddElement, FS_RemoveElement

LEMMA LikeMoves ==
  ASSUME SocialTypes, NEW u \in Friend, NEW n \in Nat,
         like' = [like EXCEPT ![u] = n]
  PROVE  /\ like' \in [Friend -> Nat]
         /\ Cardinality(Social!Likers) \in Nat /\ Cardinality(Social!Likers') \in Nat
         /\ n # 0 /\ like[u] = 0 => Cardinality(Social!Likers') = Cardinality(Social!Likers) + 1
         /\ Cardinality(Social!Likers) <= Cardinality(Social!Likers') + 1
  <1>1. /\ like' \in [Friend -> Nat]
        /\ Social!Likers' = IF n = 0 THEN Social!Likers \ {u} ELSE Social!Likers \cup {u}
        /\ like[u] = 0 <=> u \notin Social!Likers
    BY DEF SocialTypes, Social!Likers
  <1>2. Social!Likers \in SUBSET Friend /\ Social!Likers' \in SUBSET Friend
    BY DEF Social!Likers
  <1>3. QED
    BY <1>1, <1>2, SocialSets, FS_AddElement, FS_RemoveElement

LEMMA SocialStep ==
  ASSUME SocialInv, [Social!Next]_(Social!vars)
  PROVE  SocialInv'
  <1> USE SocialAssumption DEF SocialInv
  <1>0. SocialTypes
    OBVIOUS
  \* A step of the requests alone, or of the text of the feed.
  <1>1. ASSUME request_social' \in [SocialRequest -> SocialRequests],
               Cardinality(Commenting') <= Cardinality(Commenting), Cardinality(Commenting) \in Nat, Cardinality(Commenting') \in Nat,
               UNCHANGED <<member, member_count, like, likes_count, comments, comments_count, rows_social>>
        PROVE  SocialInv'
    <2>1. Social!Active' = Social!Active /\ Social!Likers' = Social!Likers
      BY <1>1 DEF Social!Active, Social!Likers
    <2>2. SocialTypes'
      BY <1>1 DEF SocialTypes
    <2>3. comments_count' + Cardinality(Commenting') <= comments'
      BY <1>1 DEF SocialTypes
    <2>4. QED
      BY <1>1, <2>1, <2>2, <2>3
  <1>2. ASSUME NEW q \in SocialRequest, NEW u \in Friend, Social!join(q, u) \/ Social!leave(q, u) \/ Social!toggle_like(q, u)
        PROVE  SocialInv'
    <2>1. PICK r \in SocialRequests : r.op # "comment" /\ Social!Reads(q, r)
      <3>1. CASE Social!join(q, u)
        BY <3>1 DEF Social!join, SocialRequests, SocialTypes
      <3>2. CASE Social!leave(q, u)
        BY <3>2 DEF Social!leave, SocialRequests
      <3>3. CASE Social!toggle_like(q, u)
        BY <3>3 DEF Social!toggle_like, SocialRequests, SocialTypes
      <3>4. QED
        BY <1>2, <3>1, <3>2, <3>3
    <2>2. UNCHANGED <<member, member_count, like, likes_count, comments, comments_count, rows_social>>
      BY <1>2 DEF Social!join, Social!leave, Social!toggle_like, Social!group, Social!feed
    <2>3. QED
      BY <1>1, <2>1, <2>2, RequestReads
  <1>3. ASSUME NEW q \in SocialRequest, Social!request_lost(q) PROVE SocialInv'
    <2>1. Social!Ends(q) /\ UNCHANGED <<member, member_count, like, likes_count, comments, comments_count, rows_social>>
      BY <1>3 DEF Social!request_lost, Social!group, Social!feed
    <2>2. QED
      BY <1>1, <2>1, RequestEnds
  <1>4. ASSUME NEW q \in SocialRequest, Social!joined(q) PROVE SocialInv'
    <2>1. request_social[q].op = "join" /\ Social!Ends(q) /\ request_social[q].user \in Friend
          /\ UNCHANGED <<like, likes_count, comments, comments_count, rows_social>>
      BY <1>4, SocialRequestsByOp DEF Social!joined, Social!feed, SocialTypes
    <2>2. CASE UNCHANGED Social!group
      BY <1>1, <2>1, <2>2, RequestEnds DEF Social!group
    <2>3. CASE ~ UNCHANGED Social!group
      <3>1. /\ member_count < max_members /\ member_count' = member_count + 1
            /\ member' = [member EXCEPT ![request_social[q].user] = "active"]
        BY <1>4, <2>3 DEF Social!joined
      <3>2. /\ member' \in [Friend -> {"none", "active", "left"}]
            /\ Cardinality(Social!Active) \in Nat /\ Cardinality(Social!Active') <= Cardinality(Social!Active) + 1
        BY <2>1, <3>1, MemberMoves
      <3>3. Cardinality(Social!Active') \in Nat
        BY SocialSets DEF Social!Active
      <3>4. Cardinality(Social!Active') <= member_count' /\ member_count' <= max_members /\ member_count' \in Nat
        BY <3>1, <3>2, <3>3 DEF SocialTypes
      <3>5. Social!Likers' = Social!Likers /\ q \notin Commenting
        BY <2>1 DEF Social!Likers, Commenting
      <3>6. request_social' \in [SocialRequest -> SocialRequests] /\ Cardinality(Commenting') = Cardinality(Commenting)
        BY <2>1, <3>5, RequestEnds
      <3>7. SocialTypes'
        BY <2>1, <3>2, <3>4, <3>6 DEF SocialTypes
      <3>8. QED
        BY <2>1, <3>4, <3>5, <3>6, <3>7
    <2>4. QED
      BY <2>2, <2>3
  <1>5. ASSUME NEW q \in SocialRequest, Social!left(q) PROVE SocialInv'
    <2>1. request_social[q].op = "leave" /\ Social!Ends(q) /\ request_social[q].user \in Friend
          /\ UNCHANGED <<like, likes_count, comments, comments_count, rows_social>>
      BY <1>5, SocialRequestsByOp DEF Social!left, Social!feed, SocialTypes
    <2>2. CASE UNCHANGED Social!group
      BY <1>1, <2>1, <2>2, RequestEnds DEF Social!group
    <2>3. CASE ~ UNCHANGED Social!group
      <3>1. /\ member[request_social[q].user] = "active" /\ member_count' = member_count - 1
            /\ member' = [member EXCEPT ![request_social[q].user] = "left"]
        BY <1>5, <2>3 DEF Social!left
      <3>2. /\ member' \in [Friend -> {"none", "active", "left"}]
            /\ Cardinality(Social!Active) \in Nat /\ Cardinality(Social!Active') = Cardinality(Social!Active) - 1
            /\ Cardinality(Social!Active') \in Nat
        BY <2>1, <3>1, MemberMoves
      <3>4. Cardinality(Social!Active') <= member_count' /\ member_count' <= max_members /\ member_count' \in Nat
        BY <3>1, <3>2 DEF SocialTypes
      <3>5. Social!Likers' = Social!Likers /\ q \notin Commenting
        BY <2>1 DEF Social!Likers, Commenting
      <3>6. request_social' \in [SocialRequest -> SocialRequests] /\ Cardinality(Commenting') = Cardinality(Commenting)
        BY <2>1, <3>5, RequestEnds
      <3>7. SocialTypes'
        BY <2>1, <3>2, <3>4, <3>6 DEF SocialTypes
      <3>8. QED
        BY <2>1, <3>4, <3>5, <3>6, <3>7
    <2>4. QED
      BY <2>2, <2>3
  <1>6. ASSUME NEW q \in SocialRequest, Social!toggled(q) PROVE SocialInv'
    <2>1. request_social[q].op = "like" /\ Social!Ends(q) /\ request_social[q].user \in Friend
          /\ UNCHANGED <<member, member_count, comments, comments_count>>
      BY <1>6, SocialRequestsByOp DEF Social!toggled, Social!group, SocialTypes
    <2>2. CASE UNCHANGED <<like, rows_social, likes_count>>
      BY <1>1, <2>1, <2>2, RequestEnds
    <2>3. CASE ~ UNCHANGED <<like, rows_social, likes_count>>
      <3>1. /\ like[request_social[q].user] = 0 /\ rows_social' = rows_social + 1 /\ likes_count' = likes_count + 1
            /\ like' = [like EXCEPT ![request_social[q].user] = rows_social + 1]
        BY <1>6, <2>3 DEF Social!toggled
      <3>2. rows_social + 1 \in Nat /\ rows_social + 1 # 0 /\ likes_count + 1 \in Nat
        BY DEF SocialTypes
      <3>3. /\ like' \in [Friend -> Nat]
            /\ Cardinality(Social!Likers) \in Nat /\ Cardinality(Social!Likers') = Cardinality(Social!Likers) + 1
        BY <2>1, <3>1, <3>2, LikeMoves
      <3>4. likes_count' <= Cardinality(Social!Likers')
        BY <3>1, <3>3 DEF SocialTypes
      <3>5. Social!Active' = Social!Active /\ q \notin Commenting
        BY <2>1 DEF Social!Active, Commenting
      <3>6. request_social' \in [SocialRequest -> SocialRequests] /\ Cardinality(Commenting') = Cardinality(Commenting)
        BY <2>1, <3>5, RequestEnds
      <3>7. SocialTypes'
        BY <2>1, <3>1, <3>2, <3>3, <3>6 DEF SocialTypes
      <3>8. QED
        BY <2>1, <3>4, <3>5, <3>6, <3>7
    <2>4. QED
      BY <2>2, <2>3
  <1>7. ASSUME NEW q \in SocialRequest, Social!untoggled(q) PROVE SocialInv'
    <2>1. request_social[q].op = "like" /\ Social!Ends(q) /\ request_social[q].user \in Friend /\ request_social[q].like \in Nat
          /\ UNCHANGED <<member, member_count, comments, comments_count, rows_social>>
      BY <1>7, SocialRequestsByOp DEF Social!untoggled, Social!group, SocialTypes
    <2>2. CASE UNCHANGED <<like, likes_count>>
      BY <1>1, <2>1, <2>2, RequestEnds
    <2>3. CASE ~ UNCHANGED <<like, likes_count>>
      <3> DEFINE u == request_social[q].user
                 n == IF like[u] = request_social[q].like THEN 0 ELSE like[u]
      <3>1. /\ likes_count # 0 /\ likes_count' = likes_count - 1
            /\ like' = [like EXCEPT ![u] = n]
        BY <1>7, <2>3 DEF Social!untoggled
      <3>2. n \in Nat /\ likes_count - 1 \in Nat
        BY <2>1, <3>1 DEF SocialTypes
      <3> HIDE DEF n
      <3>3. /\ like' \in [Friend -> Nat]
            /\ Cardinality(Social!Likers) \in Nat /\ Cardinality(Social!Likers') \in Nat
            /\ Cardinality(Social!Likers) <= Cardinality(Social!Likers') + 1
        BY <2>1, <3>1, <3>2, LikeMoves
      <3>4. likes_count' <= Cardinality(Social!Likers')
        BY <3>1, <3>3 DEF SocialTypes
      <3>5. Social!Active' = Social!Active /\ q \notin Commenting
        BY <2>1 DEF Social!Active, Commenting
      <3>6. request_social' \in [SocialRequest -> SocialRequests] /\ Cardinality(Commenting') = Cardinality(Commenting)
        BY <2>1, <3>5, RequestEnds
      <3>7. SocialTypes'
        BY <2>1, <3>1, <3>2, <3>3, <3>6 DEF SocialTypes
      <3>8. QED
        BY <2>1, <3>4, <3>5, <3>6, <3>7
    <2>4. QED
      BY <2>2, <2>3
  <1>8. ASSUME NEW q \in SocialRequest, NEW u \in Friend, Social!add_comment(q, u) PROVE SocialInv'
    <2>1. /\ Social!Reads(q, [op |-> "comment"]) /\ comments' = comments + 1 /\ rows_social' = rows_social + 1
          /\ UNCHANGED <<member, member_count, like, likes_count, comments_count>>
      BY <1>8 DEF Social!add_comment, Social!group
    <2>2. [op |-> "comment"] \in SocialRequests /\ [op |-> "comment"].op = "comment"
      BY DEF SocialRequests
    <2>3. /\ request_social' \in [SocialRequest -> SocialRequests]
          /\ Cardinality(Commenting') = Cardinality(Commenting) + 1 /\ Cardinality(Commenting) \in Nat
      BY <2>1, <2>2, RequestReads
    <2>4. Social!Active' = Social!Active /\ Social!Likers' = Social!Likers
      BY <2>1 DEF Social!Active, Social!Likers
    <2>5. SocialTypes'
      BY <2>1, <2>3 DEF SocialTypes
    <2>6. comments_count' + Cardinality(Commenting') <= comments'
      BY <2>1, <2>3 DEF SocialTypes
    <2>7. QED
      BY <2>1, <2>4, <2>5, <2>6
  <1>9. ASSUME NEW q \in SocialRequest, Social!comment_counted(q) PROVE SocialInv'
    <2>1. /\ request_social[q].op = "comment" /\ Social!Ends(q) /\ comments_count' = comments_count + 1
          /\ UNCHANGED <<member, member_count, like, likes_count, comments, rows_social>>
      BY <1>9 DEF Social!comment_counted, Social!group
    <2>2. q \in Commenting
      BY <2>1 DEF Commenting
    <2>3. /\ request_social' \in [SocialRequest -> SocialRequests]
          /\ Cardinality(Commenting') = Cardinality(Commenting) - 1 /\ Cardinality(Commenting) \in Nat
      BY <2>1, <2>2, RequestEnds
    <2>4. Social!Active' = Social!Active /\ Social!Likers' = Social!Likers
      BY <2>1 DEF Social!Active, Social!Likers
    <2>5. SocialTypes'
      BY <2>1, <2>3 DEF SocialTypes
    <2>6. comments_count' + Cardinality(Commenting') <= comments'
      BY <2>1, <2>3 DEF SocialTypes
    <2>7. QED
      BY <2>1, <2>4, <2>5, <2>6
  <1>10. ASSUME (\E u \in Friend, in_group \in BOOLEAN : Social!create_post(u, in_group)) \/ UNCHANGED Social!vars PROVE SocialInv'
    <2>1. UNCHANGED <<member, member_count, like, likes_count, comments, comments_count, rows_social, request_social>>
      BY <1>10 DEF Social!create_post, Social!vars, Social!group
    <2>2. Commenting' = Commenting /\ Cardinality(Commenting) \in Nat
      BY <2>1, SocialSets DEF Commenting
    <2>3. QED
      BY <1>1, <2>1, <2>2 DEF SocialTypes
  <1>11. QED
    BY <1>2, <1>3, <1>4, <1>5, <1>6, <1>7, <1>8, <1>9, <1>10 DEF Social!Next

\* The cardinality the component counts with is the one of the theorems.
LEMMA SocialCount == \A S : Social!Cardinality(S) = Cardinality(S)
  BY DEF Social!Cardinality, Cardinality

LEMMA SocialInvImplies == SocialInv => Social!PlacesAndLikesAreReal
  <1> SUFFICES ASSUME SocialInv PROVE Social!PlacesAndLikesAreReal
    OBVIOUS
  <1>1. Cardinality(Commenting) \in Nat
    BY SocialSets DEF Commenting
  <1>2. comments_count <= comments
    BY <1>1 DEF SocialInv, SocialTypes
  <1>3. QED
    BY <1>2, SocialCount DEF SocialInv, Social!PlacesAndLikesAreReal

-----------------------------------------------------------------------------
(* Reviews *)

Rows == [rating : Nat, visible : BOOLEAN, verified : BOOLEAN]
Ratings == [average : Int, count : Nat]
Txs == [user : Reviewer, row : Rows, crossed : BOOLEAN, rating : Ratings]

\* The users who gave a review, in sight or not.
Given == {u \in Reviewer : review[u].rating # 0}

ReviewsTypes ==
  /\ review \in [Reviewer -> Rows]
  /\ shown \in Ratings
  /\ tx \in [ReviewRequest -> {Reviews!Idle} \cup Txs]
  /\ crossed_review \in BOOLEAN

\* A review that was given has stars.
Rated ==
  /\ \A u \in Reviewer : review[u] # Reviews!None => review[u].rating # 0
  /\ \A q \in Reviews!Running : tx[q].row.rating # 0

\* Only who has received the dish is called verified.
Verified ==
  /\ \A u \in Reviewer : review[u].verified => u \in purchased
  /\ \A q \in Reviews!Running : tx[q].row.verified => tx[q].user \in purchased

\* No rating counts more reviews than were given, the one being written
\* included.
Counted ==
  /\ shown.count <= Cardinality(Given)
  /\ \A q \in Reviews!Running : tx[q].rating.count <= Cardinality(Given \cup {tx[q].user})

\* Two writers have crossed each other; one that nobody crossed found what the
\* reviews will be once it has committed.
Reckoned ==
  /\ \A q, p \in Reviews!Running : q # p => tx[q].crossed
  /\ \A q \in Reviews!Running : ~ tx[q].crossed =>
       tx[q].rating = Reviews!refresh_rating([review EXCEPT ![tx[q].user] = tx[q].row])
  /\ ~ crossed_review => shown = Reviews!refresh_rating(review)

ReviewsInv == ReviewsTypes /\ Rated /\ Verified /\ Counted /\ Reckoned

\* The cardinality the component counts with is the one of the theorems.
LEMMA ReviewsCount == \A S : Reviews!Cardinality(S) = Cardinality(S)
  BY DEF Reviews!Cardinality, Cardinality

\* So is the sum.
LEMMA ReviewsSum == \A f, S : Reviews!SumFunctionOnSet(f, S) = SumFunctionOnSet(f, S)
  BY DEF Reviews!SumFunctionOnSet, SumFunctionOnSet, Reviews!FoldFunctionOnSet, FoldFunctionOnSet,
         Reviews!MapThenFoldSet, MapThenFoldSet

\* The rating of a dish, with that sum and that cardinality.
LEMMA RefreshIs ==
  ASSUME NEW rows
  PROVE  Reviews!refresh_rating(rows) =
           [average |-> IF Cardinality(Reviews!Visible(rows)) = 0 THEN 0
                        ELSE (200 * SumFunctionOnSet(Reviews!Stars(rows), Reviews!Visible(rows)) + Cardinality(Reviews!Visible(rows)))
                               \div (2 * Cardinality(Reviews!Visible(rows))),
            count |-> Cardinality(Reviews!Visible(rows))]
  BY ReviewsCount, ReviewsSum DEF Reviews!refresh_rating

LEMMA ReviewSets ==
  \A S \in SUBSET Reviewer : IsFiniteSet(S) /\ Cardinality(S) \in Nat
  BY ReviewsAssumption, FS_Subset, FS_CardinalityType

\* The mean of n numbers of stars, in hundredths and half up, is not beyond
\* the extremes.
LEMMA MeanBounds ==
  ASSUME NEW n \in Nat \ {0}, NEW sum \in Int, NEW a \in Int, NEW b \in Int,
         a * n <= sum, sum <= b * n
  PROVE  /\ (200 * sum + n) \div (2 * n) \in Int
         /\ 100 * a <= (200 * sum + n) \div (2 * n)
         /\ (200 * sum + n) \div (2 * n) <= 100 * b
  <1> DEFINE d == (200 * sum + n) \div (2 * n)
  <1>1. d \in Int
    OBVIOUS
  <1>2. 100 * a <= d
    OBVIOUS
  <1>3. d <= 100 * b
    OBVIOUS
  <1>4. QED
    BY <1>1, <1>2, <1>3

LEMMA RefreshIsBetween ==
  ASSUME NEW rows \in [Reviewer -> Rows]
  PROVE  /\ Reviews!refresh_rating(rows) \in Ratings
         /\ Reviews!refresh_rating(rows).count = Cardinality(Reviews!Visible(rows))
         /\ IF Reviews!Visible(rows) = {} THEN Reviews!refresh_rating(rows).average = 0
            ELSE /\ \E u \in Reviews!Visible(rows) : 100 * rows[u].rating <= Reviews!refresh_rating(rows).average
                 /\ \E u \in Reviews!Visible(rows) : 100 * rows[u].rating >= Reviews!refresh_rating(rows).average
  <1> DEFINE S == Reviews!Visible(rows)
             n == Cardinality(S)
             f == Reviews!Stars(rows)
             sum == SumFunctionOnSet(f, S)
  <1>1. S \in SUBSET Reviewer /\ IsFiniteSet(S) /\ n \in Nat
    BY ReviewSets DEF Reviews!Visible
  <1>2. \A u \in S : f[u] = rows[u].rating /\ f[u] \in Int
    BY <1>1 DEF Reviews!Stars, Rows
  <1> HIDE DEF f, S
  <1>3. sum \in Int
    BY <1>1, <1>2, SumType
  <1>4. CASE S = {}
    <2>1. n = 0
      BY <1>4, FS_EmptySet
    <2>2. Reviews!refresh_rating(rows) = [average |-> 0, count |-> 0]
      BY <2>1, RefreshIs DEF S
    <2>3. QED
      BY <1>4, <2>1, <2>2 DEF S, Ratings
  <1>5. CASE S # {}
    <2>1. n # 0
      BY <1>1, <1>5, FS_EmptySet
    <2>2. PICK u \in S : \A v \in S : f[u] <= f[v]
      BY <1>1, <1>2, <1>5, LeastExists
    <2>3. PICK w \in S : \A v \in S : f[v] <= f[w]
      BY <1>1, <1>2, <1>5, GreatestExists
    <2>4. f[u] * n <= sum /\ sum <= f[w] * n
      BY <1>1, <1>2, <2>2, <2>3, SumBounds
    <2> DEFINE d == (200 * sum + n) \div (2 * n)
    <2>5. Reviews!refresh_rating(rows) = [average |-> d, count |-> n]
      BY <2>1, RefreshIs DEF S, f
    <2>6. d \in Int /\ 100 * f[u] <= d /\ d <= 100 * f[w]
      <3> HIDE DEF n, sum
      <3>1. QED
        BY <1>1, <1>2, <1>3, <2>1, <2>4, MeanBounds
    <2> HIDE DEF d
    <2>7. Reviews!refresh_rating(rows).average = d /\ Reviews!refresh_rating(rows).count = n /\ Reviews!refresh_rating(rows) \in Ratings
      BY <1>1, <2>5, <2>6 DEF Ratings
    <2>8. 100 * rows[u].rating <= d /\ 100 * rows[w].rating >= d
      BY <1>2, <2>6
    <2>9. QED
      BY <1>5, <2>7, <2>8 DEF S
  <1>6. QED
    BY <1>4, <1>5

LEMMA ReviewsInit == Reviews!Init => ReviewsInv
  <1> SUFFICES ASSUME Reviews!Init PROVE ReviewsInv
    OBVIOUS
  <1>1. review \in [Reviewer -> Rows] /\ \A u \in Reviewer : review[u] = Reviews!None
    BY DEF Reviews!Init, Reviews!None, Rows
  <1>2. shown = [average |-> 0, count |-> 0] /\ shown \in Ratings
    BY DEF Reviews!Init, Ratings
  <1>3. Reviews!Running = {}
    BY DEF Reviews!Init, Reviews!Running
  <1>4. Reviews!Visible(review) = {}
    BY <1>1 DEF Reviews!Visible, Reviews!None
  <1>5. Reviews!refresh_rating(review) = shown
    <2>1. Cardinality(Reviews!Visible(review)) = 0
      BY <1>4, FS_EmptySet
    <2>2. QED
      BY <1>2, <2>1, RefreshIs
  <1>6. ReviewsTypes
    BY <1>1, <1>2 DEF Reviews!Init, ReviewsTypes
  <1>7. Rated /\ Verified
    BY <1>1, <1>3 DEF Rated, Verified, Reviews!None
  <1>8. Given \in SUBSET Reviewer
    BY DEF Given
  <1>9. Counted
    BY <1>2, <1>3, <1>8, ReviewSets DEF Counted
  <1>10. Reckoned
    BY <1>3, <1>5 DEF Reckoned
  <1>11. QED
    BY <1>6, <1>7, <1>9, <1>10 DEF ReviewsInv

\* What a request at work is.
LEMMA WriterIs ==
  ASSUME ReviewsTypes, NEW q \in Reviews!Running
  PROVE  q \in ReviewRequest /\ tx[q] \in Txs
  BY DEF ReviewsTypes, Reviews!Running

LEMMA NotIdle == \A t \in Txs : t # Reviews!Idle
  BY ReviewsAssumption DEF Txs, Reviews!Idle

\* The reviews in sight were given.
LEMMA VisibleIsGiven ==
  ASSUME ReviewsInv, NEW u \in Reviewer, NEW row \in Rows, row.rating # 0
  PROVE  /\ [review EXCEPT ![u] = row] \in [Reviewer -> Rows]
         /\ Reviews!Visible([review EXCEPT ![u] = row]) \subseteq Given \cup {u}
  <1>1. [review EXCEPT ![u] = row] \in [Reviewer -> Rows]
    BY DEF ReviewsInv, ReviewsTypes
  <1>2. Reviews!Visible([review EXCEPT ![u] = row]) \subseteq Given \cup {u}
    <2>1. \A v \in Reviewer : review[v].visible => v \in Given
      BY DEF Reviews!None, Given, ReviewsInv, ReviewsTypes, Rated
    <2>2. QED
      BY <2>1 DEF Reviews!Visible, ReviewsInv, ReviewsTypes
  <1>3. QED
    BY <1>1, <1>2

LEMMA Revised ==
  ASSUME NEW r \in Rows, NEW b \in BOOLEAN
  PROVE  /\ [r EXCEPT !.visible = b] \in Rows
         /\ [r EXCEPT !.visible = b].rating = r.rating
         /\ [r EXCEPT !.visible = b].verified => r.verified
  BY DEF Rows

LEMMA WritesStep ==
  ASSUME ReviewsInv, NEW q \in ReviewRequest, NEW u \in Reviewer, NEW row \in Rows, row.rating # 0,
         row.verified => u \in purchased, Reviews!Writes(q, u, row)
  PROVE  ReviewsInv'
  <1> USE DEF ReviewsInv
  <1> DEFINE rows == [review EXCEPT ![u] = row]
             t == [user |-> u, row |-> row, crossed |-> Reviews!Running # {}, rating |-> Reviews!refresh_rating(rows)]
  <1>1. /\ tx[q] = Reviews!Idle /\ UNCHANGED <<purchased, review, shown, crossed_review>>
        /\ tx' = [p \in ReviewRequest |-> IF p = q THEN t
                                   ELSE IF p \in Reviews!Running THEN [tx[p] EXCEPT !.crossed = TRUE] ELSE Reviews!Idle]
    BY DEF Reviews!Writes
  <1>2. /\ rows \in [Reviewer -> Rows] /\ Reviews!Visible(rows) \subseteq Given \cup {u}
        /\ Reviews!refresh_rating(rows) \in Ratings /\ Reviews!refresh_rating(rows).count = Cardinality(Reviews!Visible(rows))
    BY VisibleIsGiven, RefreshIsBetween
  <1> HIDE DEF rows
  <1>3. t \in Txs /\ t.user = u /\ t.row = row /\ t.rating = Reviews!refresh_rating(rows)
        /\ (~ t.crossed => Reviews!Running = {})
    BY <1>2 DEF Txs
  <1> HIDE DEF t
  <1>4. ASSUME NEW p \in Reviews!Running
        PROVE  /\ p # q /\ tx'[p] \in Txs /\ tx'[p].crossed
               /\ tx'[p].user = tx[p].user /\ tx'[p].row = tx[p].row /\ tx'[p].rating = tx[p].rating
    <2>1. p # q /\ p \in ReviewRequest /\ tx[p] \in Txs
      BY <1>1, WriterIs DEF Reviews!Running
    <2>2. tx'[p] = [tx[p] EXCEPT !.crossed = TRUE]
      BY <1>1, <2>1
    <2>3. tx'[p] \in Txs /\ tx'[p].user = tx[p].user /\ tx'[p].row = tx[p].row
          /\ tx'[p].rating = tx[p].rating
      BY <2>1, <2>2 DEF Txs
    <2>4. tx'[p].crossed = TRUE
      BY <2>1, <2>2 DEF Txs
    <2>5. QED
      BY <2>1, <2>3, <2>4
  <1>5. tx'[q] = t
    BY <1>1
  <1>6. Reviews!Running' = Reviews!Running \cup {q}
    <2>1. \A p \in ReviewRequest : p # q /\ p \notin Reviews!Running => tx'[p] = Reviews!Idle
      BY <1>1
    <2>2. \A p \in Reviews!Running \cup {q} : p \in ReviewRequest /\ tx'[p] # Reviews!Idle
      BY <1>3, <1>4, <1>5, NotIdle DEF Reviews!Running
    <2>3. QED
      BY <2>1, <2>2 DEF Reviews!Running
  <1>7. ReviewsTypes'
    <2>1. tx' \in [ReviewRequest -> {Reviews!Idle} \cup Txs]
      <3>1. \A p \in ReviewRequest : tx'[p] \in {Reviews!Idle} \cup Txs
        BY <1>1, <1>3, <1>4, <1>5
      <3>2. tx' = [p \in ReviewRequest |-> tx'[p]]
        BY <1>1
      <3>3. QED
        BY <3>1, <3>2
    <2>2. QED
      BY <1>1, <2>1 DEF ReviewsTypes
  <1>8. Rated' /\ Verified'
    <2>1. \A p \in Reviews!Running' : p \in Reviews!Running \/ p = q
      BY <1>6
    <2>2. \A p \in Reviews!Running' : tx'[p].row.rating # 0
      BY <1>3, <1>4, <1>5, <2>1 DEF Rated
    <2>3. \A p \in Reviews!Running' : tx'[p].row.verified => tx'[p].user \in purchased
      <3> SUFFICES ASSUME NEW p \in Reviews!Running', tx'[p].row.verified PROVE tx'[p].user \in purchased
        OBVIOUS
      <3>1. CASE p \in Reviews!Running
        BY <1>4, <3>1 DEF Verified
      <3>2. CASE p = q
        BY <1>3, <1>5, <3>2
      <3>3. QED
        BY <2>1, <3>1, <3>2
    <2>4. QED
      BY <1>1, <2>2, <2>3 DEF Rated, Verified
  <1>9. Counted'
    <2>1. Given' = Given
      BY <1>1 DEF Given
    <2>2. t.rating.count <= Cardinality(Given \cup {u})
      <3>1. Given \cup {u} \in SUBSET Reviewer
        BY DEF Given
      <3>2. QED
        BY <1>2, <1>3, <3>1, ReviewSets, FS_Subset
    <2>3. QED
      BY <1>1, <1>3, <1>4, <1>5, <1>6, <2>1, <2>2 DEF Counted
  <1>10. Reckoned'
    <2>1. \A p, r \in Reviews!Running' : p # r => tx'[p].crossed
      <3> SUFFICES ASSUME NEW p \in Reviews!Running', NEW r \in Reviews!Running', p # r PROVE tx'[p].crossed
        OBVIOUS
      <3>1. CASE p \in Reviews!Running
        BY <1>4, <3>1
      <3>2. CASE p = q
        BY <1>3, <1>5, <1>6, <3>2
      <3>3. QED
        BY <1>6, <3>1, <3>2
    <2>2. \A p \in Reviews!Running' : ~ tx'[p].crossed =>
            tx'[p].rating = Reviews!refresh_rating([review' EXCEPT ![tx'[p].user] = tx'[p].row])
      <3> SUFFICES ASSUME NEW p \in Reviews!Running', ~ tx'[p].crossed
                   PROVE  tx'[p].rating = Reviews!refresh_rating([review' EXCEPT ![tx'[p].user] = tx'[p].row])
        OBVIOUS
      <3>1. p = q
        BY <1>4, <1>6
      <3>2. QED
        BY <1>1, <1>3, <1>5, <3>1 DEF rows
    <2>3. ~ crossed_review' => shown' = Reviews!refresh_rating(review')
      BY <1>1 DEF Reckoned
    <2>4. Reckoned' = /\ \A p, r \in Reviews!Running' : p # r => tx'[p].crossed
                      /\ \A p \in Reviews!Running' : ~ tx'[p].crossed =>
                           tx'[p].rating = Reviews!refresh_rating([review' EXCEPT ![tx'[p].user] = tx'[p].row])
                      /\ ~ crossed_review' => shown' = Reviews!refresh_rating(review')
      BY DEF Reckoned
    <2>5. QED
      BY <2>1, <2>2, <2>3 DEF Reckoned
  <1>11. QED
    BY <1>7, <1>8, <1>9, <1>10

LEMMA EndsStep ==
  ASSUME ReviewsInv, NEW q \in Reviews!Running, tx' = [tx EXCEPT ![q] = Reviews!Idle], UNCHANGED purchased,
         \/ UNCHANGED <<review, shown, crossed_review>>
         \/ /\ review' = [review EXCEPT ![tx[q].user] = tx[q].row]
            /\ shown' = tx[q].rating /\ crossed_review' = tx[q].crossed
  PROVE  ReviewsInv'
  <1> USE DEF ReviewsInv
  <1> DEFINE t == tx[q]
  <1>1. t \in Txs /\ q \in ReviewRequest
    BY WriterIs
  <1>2. /\ Reviews!Running' = Reviews!Running \ {q}
        /\ \A p \in Reviews!Running \ {q} : tx'[p] = tx[p]
        /\ tx' \in [ReviewRequest -> {Reviews!Idle} \cup Txs]
    BY <1>1 DEF Reviews!Running, ReviewsTypes
  <1>3. CASE UNCHANGED <<review, shown, crossed_review>>
    <2>1. ReviewsTypes' /\ Rated' /\ Verified'
      BY <1>2, <1>3 DEF ReviewsTypes, Rated, Verified
    <2>2. Counted'
      BY <1>2, <1>3 DEF Counted, Given
    <2>3. Reckoned'
      BY <1>2, <1>3 DEF Reckoned
    <2>4. QED
      BY <2>1, <2>2, <2>3
  <1>4. CASE /\ review' = [review EXCEPT ![t.user] = t.row]
             /\ shown' = t.rating /\ crossed_review' = t.crossed
    <2>1. /\ t.user \in Reviewer /\ t.row \in Rows /\ t.rating \in Ratings /\ t.crossed \in BOOLEAN
          /\ t.row.rating # 0
      BY <1>1 DEF Txs, Rated
    <2>2. /\ review'[t.user] = t.row /\ \A u \in Reviewer : u # t.user => review'[u] = review[u]
          /\ review' \in [Reviewer -> Rows]
      BY <1>4, <2>1 DEF ReviewsTypes
    <2> HIDE DEF t
    <2>3. ReviewsTypes'
      BY <1>2, <1>4, <2>1, <2>2 DEF ReviewsTypes
    <2>4. Rated'
      BY <1>2, <2>1, <2>2 DEF Rated
    <2>5. Verified'
      BY <1>2, <2>1, <2>2 DEF Verified, t
    <2>6. Given' = Given \cup {t.user}
      BY <2>1, <2>2 DEF Given
    <2>7. Counted'
      <3>1. shown'.count <= Cardinality(Given')
        BY <1>4, <2>6 DEF Counted, t
      <3>2. ASSUME NEW p \in Reviews!Running \ {q}
            PROVE  tx[p].rating.count <= Cardinality(Given' \cup {tx[p].user})
        <4>1. tx[p].rating.count <= Cardinality(Given \cup {tx[p].user}) /\ tx[p] \in Txs
          BY WriterIs DEF Counted
        <4> DEFINE A == Given \cup {tx[p].user}
                   B == (Given \cup {t.user}) \cup {tx[p].user}
        <4>2. A \subseteq B /\ A \in SUBSET Reviewer /\ B \in SUBSET Reviewer
          BY <2>1, <4>1 DEF Given, Txs
        <4>3. Cardinality(A) <= Cardinality(B) /\ Cardinality(A) \in Nat /\ Cardinality(B) \in Nat
          BY <4>2, ReviewSets, FS_Subset
        <4>4. tx[p].rating.count \in Nat
          BY <4>1 DEF Txs, Ratings
        <4>5. QED
          BY <2>6, <4>1, <4>3, <4>4
      <3>3. QED
        BY <1>2, <3>1, <3>2 DEF Counted
    <2>8. Reckoned'
      <3>1. \A p \in Reviews!Running' : tx'[p].crossed
        BY <1>2 DEF Reckoned
      <3>2. ~ crossed_review' => shown' = Reviews!refresh_rating(review')
        BY <1>4 DEF Reckoned, t
      <3>3. QED
        BY <3>1, <3>2 DEF Reckoned
    <2>9. QED
      BY <2>3, <2>4, <2>5, <2>7, <2>8
  <1>5. QED
    BY <1>3, <1>4

LEMMA ReviewsStep ==
  ASSUME ReviewsInv, [Reviews!Next]_(Reviews!vars)
  PROVE  ReviewsInv'
  <1> USE DEF ReviewsInv
  <1>1. ASSUME NEW u \in Reviewer, Reviews!record_purchase(u) PROVE ReviewsInv'
    <2>1. purchased \subseteq purchased' /\ UNCHANGED <<review, shown, tx, crossed_review>>
      BY <1>1 DEF Reviews!record_purchase
    <2>2. Reviews!Running' = Reviews!Running
      BY <2>1 DEF Reviews!Running
    <2>3. QED
      BY <2>1, <2>2 DEF ReviewsTypes, Rated, Verified, Counted, Given, Reckoned
  <1>2. ASSUME NEW q \in ReviewRequest, NEW u \in Reviewer, NEW r \in Rating, Reviews!submit(q, u, r) PROVE ReviewsInv'
    <2> DEFINE row == [rating |-> r, visible |-> TRUE, verified |-> u \in purchased]
    <2>1. r \in Nat /\ r # 0
      BY ReviewsAssumption
    <2>2. row \in Rows /\ row.rating # 0
      BY <2>1 DEF Rows
    <2>5. row.verified => u \in purchased
      OBVIOUS
    <2>3. Reviews!Writes(q, u, row)
      BY <1>2 DEF Reviews!submit
    <2> HIDE DEF row
    <2>4. QED
      BY <2>2, <2>3, <2>5, WritesStep
  <1>3. ASSUME NEW q \in ReviewRequest, NEW u \in Reviewer, Reviews!hide(q, u) PROVE ReviewsInv'
    <2> DEFINE row == [review[u] EXCEPT !.visible = FALSE]
    <2>1. review[u] \in Rows /\ review[u].rating # 0 /\ (review[u].verified => u \in purchased)
      BY <1>3 DEF Reviews!hide, ReviewsTypes, Rated, Verified, Reviews!None
    <2>2. row \in Rows /\ row.rating # 0 /\ (row.verified => u \in purchased)
      BY <2>1, Revised
    <2>3. Reviews!Writes(q, u, row)
      BY <1>3 DEF Reviews!hide
    <2> HIDE DEF row
    <2>4. QED
      BY <2>2, <2>3, WritesStep
  <1>4. ASSUME NEW q \in ReviewRequest, NEW u \in Reviewer, Reviews!show(q, u) PROVE ReviewsInv'
    <2> DEFINE row == [review[u] EXCEPT !.visible = TRUE]
    <2>1. review[u] \in Rows /\ review[u].rating # 0 /\ (review[u].verified => u \in purchased)
      BY <1>4 DEF Reviews!show, ReviewsTypes, Rated, Verified, Reviews!None
    <2>2. row \in Rows /\ row.rating # 0 /\ (row.verified => u \in purchased)
      BY <2>1, Revised
    <2>3. Reviews!Writes(q, u, row)
      BY <1>4 DEF Reviews!show
    <2> HIDE DEF row
    <2>4. QED
      BY <2>2, <2>3, WritesStep
  <1>5. ASSUME NEW q \in ReviewRequest, Reviews!commits(q) PROVE ReviewsInv'
    BY <1>5, EndsStep DEF Reviews!commits
  <1>6. ASSUME NEW q \in ReviewRequest, Reviews!rolls_back(q) PROVE ReviewsInv'
    BY <1>6, EndsStep DEF Reviews!rolls_back
  <1>7. CASE UNCHANGED Reviews!vars
    <2>1. UNCHANGED <<purchased, review, shown, tx, crossed_review>>
      BY <1>7 DEF Reviews!vars
    <2>2. Reviews!Running' = Reviews!Running
      BY <2>1 DEF Reviews!Running
    <2>3. QED
      BY <2>1, <2>2 DEF ReviewsTypes, Rated, Verified, Counted, Given, Reckoned
  <1>8. QED
    BY <1>1, <1>2, <1>3, <1>4, <1>5, <1>6, <1>7 DEF Reviews!Next

LEMMA ReviewsInvImplies == ReviewsInv => Reviews!RatingHeals
  <1> SUFFICES ASSUME ReviewsInv PROVE Reviews!RatingHeals
    OBVIOUS
  <1>1. ~ crossed_review =>
          /\ shown.count = Cardinality(Reviews!Visible(review))
          /\ IF Reviews!Visible(review) = {} THEN shown.average = 0
             ELSE Reviews!Between(shown.average, Reviews!Visible(review))
    <2> SUFFICES ASSUME ~ crossed_review
                 PROVE  /\ shown.count = Cardinality(Reviews!Visible(review))
                        /\ IF Reviews!Visible(review) = {} THEN shown.average = 0
                           ELSE Reviews!Between(shown.average, Reviews!Visible(review))
      OBVIOUS
    <2>1. shown = Reviews!refresh_rating(review) /\ review \in [Reviewer -> Rows]
      BY DEF ReviewsInv, ReviewsTypes, Reckoned
    <2>2. QED
      BY <2>1, RefreshIsBetween DEF Reviews!Between
  <1>2. shown.count <= Cardinality({u \in Reviewer : review[u] # Reviews!None})
    <2>1. Given \subseteq {u \in Reviewer : review[u] # Reviews!None} /\ {u \in Reviewer : review[u] # Reviews!None} \in SUBSET Reviewer
      BY DEF Given, Reviews!None
    <2>2. /\ Cardinality(Given) <= Cardinality({u \in Reviewer : review[u] # Reviews!None})
          /\ Cardinality(Given) \in Nat /\ Cardinality({u \in Reviewer : review[u] # Reviews!None}) \in Nat
      BY <2>1, ReviewSets, FS_Subset
    <2>3. shown.count \in Nat /\ shown.count <= Cardinality(Given)
      BY DEF ReviewsInv, ReviewsTypes, Ratings, Counted
    <2>4. QED
      BY <2>2, <2>3
  <1>3. QED
    BY <1>1, <1>2, ReviewsCount DEF Reviews!RatingHeals, ReviewsInv, Verified

-----------------------------------------------------------------------------
(* The desk *)

TicketRows ==
  [status : {"none"} \cup Support!TicketStatus, resolution : BOOLEAN, resolved_at : BOOLEAN]

ReturnRows == [status : DOMAIN Support!RETURN_TRANSITIONS, amount : Amount \cup {0}]

SupportTypes ==
  /\ ticket \in TicketRows
  /\ complaint \in {"none"} \cup Support!ComplaintStatus
  /\ returns \in [Return -> ReturnRows]
  /\ refund \in {"none", "pending", "completed", "cancelled"}

\* A refund that was paid stays so: nothing leaves completed.
RefundedIsPaid == \A r \in Return : returns[r].status = "refunded" => refund = "completed"

SupportInv ==
  /\ SupportTypes
  /\ Support!ResolutionIsDated
  /\ RefundedIsPaid

LEMMA SupportInit == Support!Init => SupportInv
  <1> SUFFICES ASSUME Support!Init PROVE SupportInv
    OBVIOUS
  <1>1. ticket \in TicketRows /\ ticket.status = "none" /\ ticket.resolved_at = FALSE
    BY DEF Support!Init, Support!NoTicket, TicketRows
  <1>2. Support!ResolutionIsDated
    <2>1. ticket.status \notin Support!_TICKET_TERMINAL /\ ticket.status # "resolved"
      BY <1>1 DEF Support!_TICKET_TERMINAL
    <2>2. (ticket.status \in Support!_TICKET_TERMINAL) = FALSE
      BY <2>1
    <2>3. QED
      BY <1>1, <2>1, <2>2, Zenon DEF Support!ResolutionIsDated
  <1>3. returns \in [Return -> ReturnRows] /\ RefundedIsPaid
    BY DEF Support!Init, ReturnRows, Support!NoReturn, Support!RETURN_TRANSITIONS, RefundedIsPaid
  <1>4. QED
    BY <1>1, <1>2, <1>3 DEF Support!Init, SupportInv, SupportTypes, Support!ComplaintStatus, Support!_COMPLAINT_TERMINAL

\* A step keeps the invariant and takes no decision back.
LEMMA SupportStep ==
  ASSUME SupportInv, [Support!Next]_(Support!vars)
  PROVE  /\ SupportInv'
         /\ complaint \in Support!_COMPLAINT_TERMINAL => complaint' = complaint
         /\ \A r \in Return : returns[r].status \in {"rejected", "refunded"} => returns'[r] = returns[r]
  <1> USE DEF SupportInv, SupportTypes, Support!TicketStatus, Support!ComplaintStatus, Support!_TICKET_TERMINAL,
              Support!_COMPLAINT_TERMINAL
  <1> DEFINE Kept ==
        \A r \in Return : returns[r].status \in {"rejected", "refunded"} => returns'[r] = returns[r]
  <1>1. CASE Support!open_ticket
    <2>1. ticket' \in TicketRows
      BY <1>1 DEF Support!open_ticket, Support!NoTicket, TicketRows
    <2>2. ticket'.status = "open" /\ ticket'.resolved_at = FALSE
      BY <1>1 DEF Support!open_ticket, Support!NoTicket, TicketRows
    <2>3. Support!ResolutionIsDated'
      <3>1. ticket'.status \notin Support!_TICKET_TERMINAL /\ ticket'.status # "resolved"
        BY <2>2 DEF Support!_TICKET_TERMINAL
      <3> HIDE DEF Support!_TICKET_TERMINAL
      <3>2. (ticket'.status \in Support!_TICKET_TERMINAL) = FALSE
        BY <3>1
      <3>3. QED
        BY <2>2, <3>1, <3>2, Zenon DEF Support!ResolutionIsDated
    <2>4. QED
      BY <1>1, <2>1, <2>3 DEF Support!open_ticket, Support!NoTicket, RefundedIsPaid
  <1>2. CASE Support!reply
    <2>1. ticket' \in TicketRows
      BY <1>2 DEF Support!reply, TicketRows
    <2>2. ticket'.status = "open" /\ ticket'.resolved_at = FALSE
      BY <1>2 DEF Support!reply, TicketRows
    <2>3. Support!ResolutionIsDated'
      <3>1. ticket'.status \notin Support!_TICKET_TERMINAL /\ ticket'.status # "resolved"
        BY <2>2 DEF Support!_TICKET_TERMINAL
      <3> HIDE DEF Support!_TICKET_TERMINAL
      <3>2. (ticket'.status \in Support!_TICKET_TERMINAL) = FALSE
        BY <3>1
      <3>3. QED
        BY <2>2, <3>1, <3>2, Zenon DEF Support!ResolutionIsDated
    <2>4. QED
      BY <1>2, <2>1, <2>3 DEF Support!reply, RefundedIsPaid
  <1>3. CASE Support!file_complaint
    BY <1>3 DEF Support!file_complaint, Support!ResolutionIsDated, RefundedIsPaid
  <1>4. CASE Support!Order_delivered
    BY <1>4 DEF Support!Order_delivered, Support!ResolutionIsDated, RefundedIsPaid
  <1>5. ASSUME NEW r \in Return, NEW amount \in Amount, Support!request_return(r, amount)
        PROVE  SupportInv' /\ complaint' = complaint /\ Kept
    <2>1. returns' \in [Return -> ReturnRows]
      BY <1>5 DEF Support!request_return, ReturnRows, Support!RETURN_TRANSITIONS
    <2>2. RefundedIsPaid'
      BY <1>5 DEF Support!request_return, RefundedIsPaid
    <2>3. Kept
      BY <1>5 DEF Support!request_return, Support!NoReturn
    <2>4. QED
      BY <1>5, <2>1, <2>2, <2>3 DEF Support!request_return, Support!ResolutionIsDated
  <1>6. ASSUME NEW decision \in {"pending", "completed", "cancelled"}, Support!Refund_moves(decision)
        PROVE  SupportInv' /\ complaint' = complaint /\ Kept
    BY <1>6 DEF Support!Refund_moves, Support!ResolutionIsDated, RefundedIsPaid
  <1>7. ASSUME NEW d \in Desk, Support!get_object(d)
        PROVE  SupportInv' /\ complaint' = complaint /\ Kept
    BY <1>7 DEF Support!get_object, Support!ResolutionIsDated, RefundedIsPaid
  <1>8. ASSUME NEW d \in Desk, Support!answer(d)
        PROVE  SupportInv' /\ complaint' = complaint /\ Kept
    <2>1. ticket' \in TicketRows
      BY <1>8 DEF Support!answer, TicketRows
    <2>2. ticket'.status = "in_progress" /\ ticket'.resolved_at = FALSE
      BY <1>8 DEF Support!answer, TicketRows
    <2>3. Support!ResolutionIsDated'
      <3>1. ticket'.status \notin Support!_TICKET_TERMINAL /\ ticket'.status # "resolved"
        BY <2>2 DEF Support!_TICKET_TERMINAL
      <3> HIDE DEF Support!_TICKET_TERMINAL
      <3>2. (ticket'.status \in Support!_TICKET_TERMINAL) = FALSE
        BY <3>1
      <3>3. QED
        BY <2>2, <3>1, <3>2, Zenon DEF Support!ResolutionIsDated
    <2>4. QED
      BY <1>8, <2>1, <2>3 DEF Support!answer, RefundedIsPaid
  <1>9. ASSUME NEW d \in Desk, NEW decision \in Support!TicketStatus, NEW resolution \in BOOLEAN,
               Support!set_ticket_status(d, decision, resolution)
        PROVE  SupportInv' /\ complaint' = complaint /\ Kept
    <2>1. ticket' \in TicketRows
      BY <1>9 DEF Support!set_ticket_status, TicketRows
    <2>2. ticket'.resolved_at = (ticket'.status \in Support!_TICKET_TERMINAL)
      BY <1>9 DEF Support!set_ticket_status
    <2>3. ticket'.status = "resolved" => ticket'.resolution
      BY <1>9 DEF Support!set_ticket_status
    <2>4. QED
      BY <1>9, <2>1, <2>2, <2>3 DEF Support!set_ticket_status, Support!ResolutionIsDated, RefundedIsPaid
  <1>10. ASSUME NEW d \in Desk, NEW decision \in Support!ComplaintStatus, Support!decide_complaint(d, decision)
         PROVE  /\ SupportInv' /\ Kept
                /\ complaint \in Support!_COMPLAINT_TERMINAL => complaint' = complaint
    BY <1>10 DEF Support!decide_complaint, Support!ResolutionIsDated, RefundedIsPaid
  <1>11. ASSUME NEW d \in Desk, NEW r \in Return, NEW decision \in DOMAIN Support!RETURN_TRANSITIONS,
                Support!decide_return(d, r, decision)
         PROVE  SupportInv' /\ complaint' = complaint /\ Kept
    <2>1. returns' \in [Return -> ReturnRows]
      BY <1>11 DEF Support!decide_return, ReturnRows
    <2>2. RefundedIsPaid'
      BY <1>11 DEF Support!decide_return, RefundedIsPaid, Support!_assert_rembourse
    <2>3. returns[r].status \notin {"rejected", "refunded"}
      BY <1>11 DEF Support!decide_return, Support!RETURN_TRANSITIONS
    <2>4. Kept
      BY <1>11, <2>3 DEF Support!decide_return
    <2>5. QED
      BY <1>11, <2>1, <2>2, <2>4 DEF Support!decide_return, Support!ResolutionIsDated
  <1>12. CASE UNCHANGED Support!vars
    BY <1>12 DEF Support!vars, Support!ResolutionIsDated, RefundedIsPaid
  <1>13. QED
    BY <1>1, <1>2, <1>3, <1>4, <1>5, <1>6, <1>7, <1>8, <1>9, <1>10, <1>11, <1>12 DEF Support!Next, Support!open_ticket, Support!reply, Support!file_complaint, Support!Order_delivered

-----------------------------------------------------------------------------
(* Calls *)

CallRows == [status : {"none"} \cup DOMAIN Calls!CALL_TRANSITIONS, caller : Calls!Account \cup {Nobody},
             callee : Calls!Account \cup {Nobody}, answered : BOOLEAN]

\* A call that was placed is between the customer and a courier.
Parties(c) ==
  c.status # "none" => /\ {c.caller, c.callee} \cap Courier # {}
                       /\ Customer \in {c.caller, c.callee}

CallsTypes ==
  /\ course_calls \in Courier \cup {Nobody}
  /\ call \in [Calls!Call -> CallRows]
  /\ request_calls \in [Calls!Account -> [at : {"idle", "place", "found"}, id : Calls!Call \cup {0}, saw : CallRows]]

\* A row that was found was placed, and stays so.
FoundWasPlaced ==
  \A u \in Calls!Account : request_calls[u].at = "found" =>
    /\ request_calls[u].id \in Calls!Call
    /\ request_calls[u].saw.status # "none" /\ call[request_calls[u].id].status # "none"

OneActive == \A c, d \in Calls!Call : Calls!is_active(c) /\ Calls!is_active(d) => c = d

CallsInv ==
  /\ CallsTypes
  /\ \A c \in Calls!Call : Parties(call[c]) /\ (call[c].status = "none" => call[c] = Calls!NoCall)
  /\ \A u \in Calls!Account : request_calls[u].at = "place" => Parties(request_calls[u].saw) /\ request_calls[u].saw.status = "ringing"
  /\ FoundWasPlaced
  /\ OneActive

LEMMA CallsInit == Calls!Init => CallsInv
  BY DEF Calls!Init, CallsInv, CallsTypes, CallRows, Parties, FoundWasPlaced, OneActive, Calls!Idle, Calls!NoCall,
         Calls!is_active, Calls!Active, Calls!CALL_TRANSITIONS

LEMMA CallsTransition ==
  ASSUME CallsInv, NEW u \in Calls!Account, NEW target, NEW answered \in BOOLEAN,
         Calls!_transition(u, target, answered)
  PROVE  CallsInv'
  <1> DEFINE r == request_calls[u]
  <1>1. r.id \in Calls!Call /\ r.saw.status \in DOMAIN Calls!CALL_TRANSITIONS /\ call[r.id].status # "none"
    BY DEF Calls!_transition, CallsInv, CallsTypes, FoundWasPlaced, CallRows
  <1>2. target \in DOMAIN Calls!CALL_TRANSITIONS /\ target # "none"
    BY <1>1 DEF Calls!_transition, Calls!CALL_TRANSITIONS
  <1>3. request_calls' = [request_calls EXCEPT ![u] = Calls!Idle] /\ course_calls' = course_calls
    BY DEF Calls!_transition
  <1>4. CASE call' = call
    BY <1>3, <1>4 DEF CallsInv, CallsTypes, CallRows, Parties, FoundWasPlaced, OneActive, Calls!Idle,
          Calls!NoCall, Calls!is_active, Calls!CALL_TRANSITIONS
  <1>5. CASE /\ target \in Calls!Active => Calls!one_active_call_per_order(r.id)
             /\ call' = [call EXCEPT ![r.id].status = target, ![r.id].answered = @ \/ answered]
    <2>1. /\ \A c \in Calls!Call : c # r.id => call'[c] = call[c]
          /\ call'[r.id].status = target
          /\ call'[r.id].caller = call[r.id].caller /\ call'[r.id].callee = call[r.id].callee
      BY <1>1, <1>5 DEF CallsInv, CallsTypes, CallRows
    <2>2. call' \in [Calls!Call -> CallRows]
      BY <1>1, <1>2, <1>5 DEF CallsInv, CallsTypes, CallRows
    <2>3. CallsTypes'
      BY <1>3, <2>2 DEF CallsInv, CallsTypes, Calls!Idle, CallRows, Calls!NoCall
    <2>4. OneActive'
      <3>1. CASE target \in Calls!Active
        <4>1. \A d \in Calls!Call \ {r.id} : call[d].status \notin Calls!Active
          BY <1>5, <3>1 DEF Calls!is_active, Calls!one_active_call_per_order
        <4>2. \A d \in Calls!Call \ {r.id} : call'[d].status \notin Calls!Active
          BY <2>1, <4>1
        <4>3. QED
          BY <4>2 DEF OneActive, Calls!is_active
      <3>2. CASE target \notin Calls!Active
        <4>1. \A d \in Calls!Call : call'[d].status \in Calls!Active => d # r.id /\ call[d].status \in Calls!Active
          BY <2>1, <3>2
        <4>2. QED
          BY <4>1 DEF CallsInv, OneActive, Calls!is_active
      <3>3. QED
        BY <3>1, <3>2
    <2>5. FoundWasPlaced'
      BY <1>1, <1>2, <1>3, <2>1 DEF CallsInv, CallsTypes, FoundWasPlaced, Calls!Idle
    <2>6. \A c \in Calls!Call : Parties(call'[c]) /\ (call'[c].status = "none" => call'[c] = Calls!NoCall)
      BY <1>1, <1>2, <2>1 DEF CallsInv, Parties
    <2>7. \A w \in Calls!Account : request_calls'[w].at = "place" =>
            Parties(request_calls'[w].saw) /\ request_calls'[w].saw.status = "ringing"
      BY <1>3 DEF CallsInv, CallsTypes, Calls!Idle
    <2>8. QED
      BY <2>3, <2>4, <2>5, <2>6, <2>7 DEF CallsInv, Parties
  <1>6. QED
    BY <1>4, <1>5 DEF Calls!_transition

LEMMA CallsStep ==
  ASSUME CallsInv, [Calls!Next]_(Calls!vars)
  PROVE  CallsInv'
  <1>1. ASSUME NEW k \in Courier \cup {Nobody}, Calls!CALLABLE_STATUSES(k) PROVE CallsInv'
    BY <1>1 DEF Calls!CALLABLE_STATUSES, CallsInv, CallsTypes, Parties, FoundWasPlaced, OneActive, Calls!is_active
  <1>2. ASSUME NEW u \in Calls!Account, Calls!place(u) PROVE CallsInv'
    <2> DEFINE s == [status |-> "ringing", caller |-> u, callee |-> Calls!callee(u), answered |-> FALSE]
    <2>1. course_calls \in Courier /\ Calls!callee(u) \in Calls!Account
      BY <1>2 DEF Calls!place, CallsInv, CallsTypes, Calls!callee, Calls!Account
    <2>2. s \in CallRows /\ Parties(s)
      BY <1>2, <2>1 DEF Calls!place, Calls!callee, CallRows, Parties, Calls!CALL_TRANSITIONS, Calls!Account
    <2>3. request_calls' = [request_calls EXCEPT ![u] = [at |-> "place", id |-> 0, saw |-> s]]
          /\ UNCHANGED <<course_calls, call>>
      BY <1>2 DEF Calls!place
    <2> HIDE DEF s
    <2>4. s.status = "ringing"
      BY DEF s
    <2>5. CallsTypes'
      BY <2>2, <2>3 DEF CallsInv, CallsTypes
    <2>6. FoundWasPlaced'
      BY <2>3 DEF CallsInv, CallsTypes, FoundWasPlaced
    <2>7. QED
      BY <2>2, <2>3, <2>4, <2>5, <2>6 DEF CallsInv, CallsTypes, OneActive, Calls!is_active, Parties
  <1>3. ASSUME NEW u \in Calls!Account, Calls!created(u) PROVE CallsInv'
    <2>1. PICK c \in Calls!Call :
            /\ call[c] = Calls!NoCall
            /\ call' = IF Calls!one_active_call_per_order(c) THEN [call EXCEPT ![c] = request_calls[u].saw] ELSE call
      BY <1>3 DEF Calls!created
    <2>2. request_calls' = [request_calls EXCEPT ![u] = Calls!Idle] /\ course_calls' = course_calls
      BY <1>3 DEF Calls!created
    <2>3. request_calls[u].saw \in CallRows /\ Parties(request_calls[u].saw) /\ request_calls[u].saw.status = "ringing"
      BY <1>3 DEF Calls!created, CallsInv, CallsTypes
    <2>4. CallsTypes'
      BY <2>1, <2>2, <2>3 DEF CallsInv, CallsTypes, Calls!Idle, CallRows, Calls!NoCall
    <2>5. OneActive'
      BY <2>1, <2>3 DEF CallsInv, CallsTypes, OneActive, Calls!is_active, Calls!one_active_call_per_order
    <2>6. FoundWasPlaced'
      BY <2>1, <2>2, <2>3 DEF CallsInv, CallsTypes, FoundWasPlaced, Calls!Idle
    <2>7. \A d \in Calls!Call : Parties(call'[d]) /\ (call'[d].status = "none" => call'[d] = Calls!NoCall)
      BY <2>1, <2>3 DEF CallsInv, CallsTypes
    <2>8. \A w \in Calls!Account : request_calls'[w].at = "place" =>
            Parties(request_calls'[w].saw) /\ request_calls'[w].saw.status = "ringing"
      BY <2>2 DEF CallsInv, CallsTypes, Calls!Idle
    <2>9. QED
      BY <2>4, <2>5, <2>6, <2>7, <2>8 DEF CallsInv, Parties
  <1>4. ASSUME NEW u \in Calls!Account, Calls!accept(u) PROVE CallsInv'
    BY <1>4, CallsTransition DEF Calls!accept
  <1>5. ASSUME NEW u \in Calls!Account, Calls!decline(u) PROVE CallsInv'
    BY <1>5, CallsTransition DEF Calls!decline
  <1>6. ASSUME NEW u \in Calls!Account, Calls!end(u) PROVE CallsInv'
    BY <1>6, CallsTransition DEF Calls!end
  <1>7. ASSUME NEW u \in Calls!Account, Calls!refused(u) PROVE CallsInv'
    BY <1>7 DEF Calls!refused, CallsInv, CallsTypes, Parties, FoundWasPlaced, OneActive, Calls!is_active, Calls!Idle,
          Calls!NoCall, CallRows
  <1>8. ASSUME NEW u \in Calls!Account, NEW c \in Calls!Call, Calls!get_object(u, c) PROVE CallsInv'
    <2>1. call[c] \in CallRows /\ call[c].status # "none"
      BY <1>8, CallsAssumption DEF Calls!get_object, CallsInv, CallsTypes, Calls!NoCall, Calls!Account
    <2>2. request_calls' = [request_calls EXCEPT ![u] = [at |-> "found", id |-> c, saw |-> call[c]]]
          /\ UNCHANGED <<course_calls, call>>
      BY <1>8 DEF Calls!get_object
    <2>3. CallsTypes'
      BY <2>1, <2>2 DEF CallsInv, CallsTypes
    <2>4. FoundWasPlaced'
      BY <2>1, <2>2 DEF CallsInv, CallsTypes, FoundWasPlaced
    <2>5. QED
      BY <2>2, <2>3, <2>4 DEF CallsInv, CallsTypes, OneActive, Calls!is_active, Parties
  <1>9. CASE UNCHANGED Calls!vars
    BY <1>9 DEF Calls!vars, CallsInv, CallsTypes, Parties, FoundWasPlaced, OneActive, Calls!is_active
  <1>10. QED
    BY <1>1, <1>2, <1>3, <1>4, <1>5, <1>6, <1>7, <1>8, <1>9 DEF Calls!Next

LEMMA CallsInvImplies == CallsInv => Calls!OneCallAtATime
  BY DEF CallsInv, OneActive, Calls!OneCallAtATime, Parties, Calls!is_active, Calls!Active

-----------------------------------------------------------------------------
(* Campaigns *)

Reached == {p \in Person : inbox[p] # {}}

\* What is scheduled is what was agreed; nothing is left before the campaign
\* is sent, and one message at most afterwards.
CampaignInv ==
  /\ clock \in Nat
  /\ campaign \in Campaigns!Campaign
  /\ campaign.status = "scheduled" => agreed.text = campaign.text /\ agreed.at = campaign.at
  /\ campaign.status # "sent" => inbox = [p \in Person |-> {}]
  /\ \A p \in Person : inbox[p] = {} \/ \E m : inbox[p] = {m}
  /\ campaign.recipients = Cardinality(Reached)

\* The cardinality the component counts with is the one of the theorems.
LEMMA CampaignsCount == \A S : Campaigns!Cardinality(S) = Cardinality(S)
  BY DEF Campaigns!Cardinality, Cardinality

LEMMA CampaignSets == \A S \in SUBSET Person : Cardinality(S) \in 0 .. Cardinality(Person)
  <1> SUFFICES ASSUME NEW S \in SUBSET Person PROVE Cardinality(S) \in 0 .. Cardinality(Person)
    OBVIOUS
  <1>1. IsFiniteSet(S) /\ Cardinality(S) <= Cardinality(Person)
    BY CampaignsAssumption, FS_Subset
  <1>2. Cardinality(S) \in Nat /\ Cardinality(Person) \in Nat
    BY <1>1, CampaignsAssumption, FS_CardinalityType
  <1>3. QED
    BY <1>1, <1>2

LEMMA CampaignInit == Campaigns!Init => CampaignInv
  <1> SUFFICES ASSUME Campaigns!Init PROVE CampaignInv
    OBVIOUS
  <1>1. Reached = {} /\ Cardinality({}) = 0
    BY FS_EmptySet DEF Campaigns!Init, Reached
  <1>2. 0 \in 0 .. Cardinality(Person) /\ 0 \in 0 .. LastMinute /\ 1 \in 1 .. MaxText
    BY <1>1, CampaignSets, CampaignsAssumption
  <1>3. campaign \in Campaigns!Campaign
    BY <1>2, CampaignsCount DEF Campaigns!Init, Campaigns!Campaign, Campaigns!CampaignStatus
  <1>4. campaign.recipients = Cardinality(Reached)
    BY <1>1 DEF Campaigns!Init
  <1>5. QED
    BY <1>3, <1>4 DEF Campaigns!Init, CampaignInv

LEMMA CampaignSends ==
  ASSUME CampaignInv, Campaigns!send_to_all, clock' \in Nat, campaign.status # "sent"
  PROVE  CampaignInv'
  <1> DEFINE reached == {p \in Person : Campaigns!_accepts_marketing(p)}
  <1>1. inbox = [p \in Person |-> {}]
    BY DEF CampaignInv
  <1>2. PICK m : \A p \in Person :
          inbox'[p] = IF p \in reached THEN inbox[p] \cup {<<campaign.text, m[p]>>} ELSE inbox[p]
    <2>1. \A p \in Person :
            inbox'[p] = IF p \in reached
                        THEN inbox[p] \cup {<<campaign.text, [q \in Person |-> Cardinality(inbox[q])][p]>>}
                        ELSE inbox[p]
      BY CampaignsCount DEF Campaigns!send_to_all
    <2>2. QED
      BY <2>1
  <1>3. \A p \in Person : inbox'[p] = IF p \in reached THEN {<<campaign.text, m[p]>>} ELSE {}
    BY <1>1, <1>2
  <1>4. Reached' = reached
    BY <1>3 DEF Reached
  <1>5. campaign' = [campaign EXCEPT !.status = "sent", !.recipients = Cardinality(reached)]
    BY CampaignsCount DEF Campaigns!send_to_all
  <1>6. Cardinality(reached) \in 0 .. Cardinality(Person)
    BY CampaignSets
  <1>7. campaign' \in Campaigns!Campaign /\ campaign'.status = "sent" /\ campaign'.recipients = Cardinality(reached)
    BY <1>5, <1>6, CampaignsCount DEF CampaignInv, Campaigns!Campaign, Campaigns!CampaignStatus
  <1>8. \A p \in Person : inbox'[p] = {} \/ \E x : inbox'[p] = {x}
    BY <1>3
  <1>9. QED
    BY <1>4, <1>7, <1>8 DEF CampaignInv

LEMMA CampaignStep ==
  ASSUME CampaignInv, [Campaigns!Next]_(Campaigns!vars)
  PROVE  /\ CampaignInv'
         /\ listed' # listed /\ inbox' # inbox =>
              /\ campaign.text = agreed.text
              /\ agreed.at <= clock
              /\ campaign.status = "scheduled"
  <1> USE CampaignsAssumption
  <1>1. CASE Campaigns!perform_update
    <2>1. campaign' \in Campaigns!Campaign /\ campaign'.status = "draft" /\ campaign'.recipients = campaign.recipients
      BY <1>1, CampaignsCount DEF Campaigns!perform_update, CampaignInv, Campaigns!Campaign, Campaigns!CampaignStatus
    <2>2. QED
      BY <1>1, <2>1 DEF Campaigns!perform_update, CampaignInv, Reached
  <1>2. ASSUME NEW quand \in 1 .. LastMinute, Campaigns!schedule_campaign(quand)
        PROVE  CampaignInv' /\ listed' = listed
    <2>0. quand \in 0 .. LastMinute
      OBVIOUS
    <2>1. campaign' \in Campaigns!Campaign /\ campaign'.status = "scheduled" /\ campaign'.recipients = campaign.recipients
          /\ campaign'.at = quand /\ campaign'.text = campaign.text
      BY <1>2, <2>0, CampaignsCount DEF Campaigns!schedule_campaign, CampaignInv, Campaigns!Campaign, Campaigns!CampaignStatus
    <2>2. QED
      BY <1>2, <2>1 DEF Campaigns!schedule_campaign, CampaignInv, Reached
  <1>3. CASE Campaigns!unschedule_campaign
    <2>0. 0 \in 0 .. LastMinute
      OBVIOUS
    <2>1. campaign' \in Campaigns!Campaign /\ campaign'.status = "draft" /\ campaign'.recipients = campaign.recipients
      BY <1>3, <2>0, CampaignsCount DEF Campaigns!unschedule_campaign, CampaignInv, Campaigns!Campaign, Campaigns!CampaignStatus
    <2>2. QED
      BY <1>3, <2>1 DEF Campaigns!unschedule_campaign, CampaignInv, Reached
  <1>4. ASSUME NEW p \in Person, Campaigns!preferences(p)
        PROVE  CampaignInv' /\ listed' = listed
    BY <1>4 DEF Campaigns!preferences, CampaignInv, Reached
  <1>5. CASE Campaigns!send_campaign
    BY <1>5, CampaignSends DEF Campaigns!send_campaign, CampaignInv
  <1>6. ASSUME NEW w \in Sender, Campaigns!send_due_campaigns(w)
        PROVE  CampaignInv' /\ inbox' = inbox
    BY <1>6 DEF Campaigns!send_due_campaigns, CampaignInv, Reached
  <1>7. ASSUME NEW w \in Sender, Campaigns!task_sends(w)
        PROVE  /\ CampaignInv'
               /\ inbox' # inbox =>
                    /\ campaign.text = agreed.text
                    /\ agreed.at <= clock
                    /\ campaign.status = "scheduled"
    <2>1. CASE Campaigns!_send_if_still_due(w)
      <3>1. Campaigns!send_to_all /\ campaign.status = "scheduled" /\ campaign.at <= clock /\ clock' = clock
        BY <1>7, <2>1 DEF Campaigns!task_sends, Campaigns!_send_if_still_due
      <3>2. QED
        BY <3>1, CampaignSends DEF CampaignInv
    <2>2. CASE ~ Campaigns!_send_if_still_due(w)
      BY <1>7, <2>2 DEF Campaigns!task_sends, CampaignInv, Reached
    <2>3. QED
      BY <2>1, <2>2
  <1>8. ASSUME NEW w \in Sender, Campaigns!task_fails(w)
        PROVE  CampaignInv' /\ inbox' = inbox
    BY <1>8 DEF Campaigns!task_fails, CampaignInv, Reached
  <1>9. CASE Campaigns!tick
    BY <1>9 DEF Campaigns!tick, CampaignInv, Reached
  <1>10. CASE UNCHANGED Campaigns!vars
    BY <1>10 DEF Campaigns!vars, CampaignInv, Reached
  <1>11. QED
    BY <1>1, <1>2, <1>3, <1>4, <1>5, <1>6, <1>7, <1>8, <1>9, <1>10
       DEF Campaigns!Next, Campaigns!perform_update, Campaigns!unschedule_campaign, Campaigns!send_campaign, Campaigns!tick

LEMMA CampaignInvImplies == CampaignInv => Campaigns!CampaignIsSentOnce
  <1> SUFFICES ASSUME CampaignInv PROVE Campaigns!CampaignIsSentOnce
    OBVIOUS
  <1>1. \A p \in Person : Cardinality(inbox[p]) <= 1
    <2> SUFFICES ASSUME NEW p \in Person PROVE Cardinality(inbox[p]) <= 1
      OBVIOUS
    <2>1. CASE inbox[p] = {}
      BY <2>1, FS_EmptySet
    <2>2. CASE \E m : inbox[p] = {m}
      BY <2>2, FS_Singleton
    <2>3. QED
      BY <2>1, <2>2 DEF CampaignInv
  <1>2. QED
    BY <1>1, CampaignsCount DEF CampaignInv, Campaigns!CampaignIsSentOnce, Reached

-----------------------------------------------------------------------------
(* Pushes *)

PushTypes ==
  /\ queue \subseteq [retry : Nat, for : SUBSET Device]
  /\ run \in [retry : Nat, for : SUBSET Device, todo : SUBSET Device, failed : SUBSET Device, busy : BOOLEAN]
  /\ copies \in [Device -> Nat]
  /\ crashes \in Nat
  /\ note \in {"none", "rolled_back"} => queue = {} /\ ~ run.busy
  /\ note = "none" => \A d \in Device : copies[d] = 0

\* As long as no worker was lost, the notification is one task, posted or
\* under way.
OneTask ==
  /\ \A t, u \in queue : t = u
  /\ run.busy => queue = {}

\* A device still to be served has shown nothing, unless an answer was lost.
ToServe(d) == d \in run.todo \/ d \in run.failed \/ \E t \in queue : d \in t.for
ServedOnce ==
  /\ \A d \in Device : copies[d] <= 1 \/ d \in lost_push
  /\ \A d \in Device : ToServe(d) => copies[d] = 0 \/ d \in lost_push
  /\ run.todo \cap run.failed = {}
  /\ ~ run.busy => run.todo = {} /\ run.failed = {}

PushInv == PushTypes /\ (crashes = 0 => OneTask /\ ServedOnce)

LEMMA PushInit == Push!Init => PushInv
  BY DEF Push!Init, PushInv, PushTypes, OneTask, ServedOnce, ToServe, Push!Idle

LEMMA PushStep ==
  ASSUME PushInv, [Push!Next]_(Push!vars)
  PROVE  /\ PushInv'
         /\ ~ run.busy /\ run'.busy => \A d \in run'.todo : owner[d] = Recipient
  <1> USE DEF PushInv
  <1>1. ASSUME NEW d \in Device, NEW u \in Owner, Push!register_device(d, u) PROVE PushInv' /\ run' = run
    BY <1>1 DEF Push!register_device, PushTypes, OneTask, ServedOnce, ToServe
  <1>2. ASSUME NEW d \in Device, Push!delete_device(d) PROVE PushInv' /\ run' = run
    BY <1>2 DEF Push!delete_device, PushTypes, OneTask, ServedOnce, ToServe
  <1>3. ASSUME NEW d \in Device, NEW outcome \in {"delivered", "unregistered", "failed", "lost"},
               Push!_send_one(d, outcome)
        PROVE  PushInv' /\ run.busy
    <2>1. d \in run.todo /\ run.busy
      BY <1>3 DEF Push!_send_one
    <2>2. /\ run' \in [retry : Nat, for : SUBSET Device, todo : SUBSET Device, failed : SUBSET Device, busy : BOOLEAN]
          /\ run'.busy = run.busy /\ run'.todo = run.todo \ {d}
          /\ run'.failed = IF outcome \in {"failed", "lost"} THEN run.failed \cup {d} ELSE run.failed
      BY <1>3 DEF Push!_send_one, PushTypes
    <2>3. /\ copies' \in [Device -> Nat]
          /\ \A e \in Device : e # d => copies'[e] = copies[e]
          /\ copies'[d] = IF outcome \in {"delivered", "lost"} THEN copies[d] + 1 ELSE copies[d]
      BY <1>3 DEF Push!_send_one, Push!Shown, PushTypes
    <2>4. /\ UNCHANGED <<note, queue, crashes>>
          /\ lost_push' = IF outcome = "lost" THEN lost_push \cup {d} ELSE lost_push
      BY <1>3 DEF Push!_send_one
    <2>5. PushTypes'
      BY <2>1, <2>2, <2>3, <2>4 DEF PushTypes
    <2>6. ASSUME crashes = 0 PROVE OneTask' /\ ServedOnce'
      <3>1. queue = {} /\ OneTask'
        BY <2>1, <2>2, <2>4, <2>6 DEF OneTask
      <3>2. copies[d] = 0 \/ d \in lost_push
        BY <2>1, <2>6 DEF ServedOnce, ToServe
      <3>3. \A e \in Device : copies'[e] <= 1 \/ e \in lost_push'
        BY <2>3, <2>4, <2>6, <3>2 DEF ServedOnce
      <3>4. \A e \in Device : ToServe(e)' => copies'[e] = 0 \/ e \in lost_push'
        <4> SUFFICES ASSUME NEW e \in Device, ToServe(e)' PROVE copies'[e] = 0 \/ e \in lost_push'
          OBVIOUS
        <4>1. CASE e # d
          <5>1. ToServe(e)
            BY <2>2, <2>4, <4>1 DEF ToServe
          <5>2. QED
            BY <2>3, <2>4, <2>6, <4>1, <5>1 DEF ServedOnce
        <4>2. CASE e = d
          <5>1. d \in run'.failed
            BY <2>2, <2>4, <3>1, <4>2 DEF ToServe
          <5>2. outcome \in {"failed", "lost"}
            BY <2>1, <2>2, <2>6, <5>1 DEF ServedOnce
          <5>3. QED
            BY <2>3, <2>4, <3>2, <4>2, <5>2
        <4>3. QED
          BY <4>1, <4>2
      <3>5. run'.todo \cap run'.failed = {}
        BY <2>2, <2>6 DEF ServedOnce
      <3>6. QED
        BY <2>1, <2>2, <3>1, <3>3, <3>4, <3>5 DEF ServedOnce
    <2>7. QED
      BY <2>1, <2>4, <2>5, <2>6
  <1>4. CASE Push!notify
    <2>1. queue = {} /\ ~ run.busy /\ queue' = {Push!Posted(0, Device)} /\ note' = "written"
          /\ UNCHANGED <<run, copies, lost_push, crashes>>
      BY <1>4 DEF Push!notify, PushTypes
    <2>2. PushTypes'
      BY <2>1 DEF PushTypes, Push!Posted
    <2>3. ASSUME crashes = 0 PROVE OneTask' /\ ServedOnce'
      <3>1. \A d \in Device : copies[d] = 0 \/ d \in lost_push
        BY <1>4 DEF Push!notify, PushTypes
      <3>2. QED
        BY <2>1, <2>3, <3>1 DEF OneTask, ServedOnce, ToServe
    <2>4. QED
      BY <2>1, <2>2, <2>3
  <1>5. CASE Push!rolled_back
    BY <1>5 DEF Push!rolled_back, PushTypes, OneTask, ServedOnce, ToServe
  <1>6. ASSUME NEW t \in queue, Push!send_push(t)
        PROVE  PushInv' /\ \A d \in run'.todo : owner[d] = Recipient
    <2>1. t \in [retry : Nat, for : SUBSET Device] /\ Push!reachable(t.for) \subseteq t.for
      BY DEF PushTypes, Push!reachable
    <2>2. /\ run' = [retry |-> t.retry, for |-> t.for, todo |-> Push!reachable(t.for), failed |-> {}, busy |-> TRUE]
          /\ queue' = queue \ {t} /\ ~ run.busy /\ UNCHANGED <<owner, note, copies, lost_push, crashes>>
      BY <1>6 DEF Push!send_push
    <2>3. run' \in [retry : Nat, for : SUBSET Device, todo : SUBSET Device, failed : SUBSET Device, busy : BOOLEAN]
      BY <2>1, <2>2
    <2>4. note \notin {"none", "rolled_back"}
      BY DEF PushTypes
    <2>5. PushTypes'
      BY <2>2, <2>3, <2>4 DEF PushTypes
    <2>6. ASSUME crashes = 0 PROVE OneTask' /\ ServedOnce'
      <3>1. queue' = {}
        BY <2>2, <2>6 DEF OneTask
      <3>2. run'.todo \subseteq t.for /\ run'.failed = {}
        BY <2>1, <2>2
      <3>3. \A d \in Device : ToServe(d)' => ToServe(d)
        BY <3>1, <3>2 DEF ToServe
      <3>4. OneTask'
        BY <3>1 DEF OneTask
      <3>5. run'.busy = TRUE
        BY <2>2
      <3>6. QED
        BY <2>2, <2>6, <3>2, <3>3, <3>4, <3>5 DEF ServedOnce
    <2>7. \A d \in run'.todo : owner[d] = Recipient
      BY <2>2 DEF Push!reachable
    <2>8. QED
      BY <2>2, <2>5, <2>6, <2>7
  <1>7. CASE Push!task_ends
    <2>1. /\ run.busy /\ run.todo = {} /\ run' = Push!Idle
          /\ queue' = IF run.failed # {} /\ run.retry < MaxRetries THEN queue \cup {Push!_demander_reprise} ELSE queue
          /\ UNCHANGED <<note, copies, lost_push, crashes>>
      BY <1>7 DEF Push!task_ends
    <2>2. Push!_demander_reprise \in [retry : Nat, for : SUBSET Device] /\ Push!_demander_reprise.for = run.failed
      BY DEF Push!_demander_reprise, Push!Posted, PushTypes
    <2>3. run'.todo = {} /\ run'.failed = {} /\ ~ run'.busy
          /\ run' \in [retry : Nat, for : SUBSET Device, todo : SUBSET Device, failed : SUBSET Device, busy : BOOLEAN]
      BY <2>1 DEF Push!Idle
    <2>4. PushTypes'
      BY <2>1, <2>2, <2>3 DEF PushTypes
    <2>5. ASSUME crashes = 0 PROVE OneTask' /\ ServedOnce'
      <3>1. queue = {}
        BY <2>1, <2>5 DEF OneTask
      <3>2. \A d \in Device : ToServe(d)' => ToServe(d)
        BY <2>1, <2>2, <2>3, <3>1 DEF ToServe
      <3>3. OneTask'
        BY <2>1, <2>3, <3>1 DEF OneTask
      <3>4. QED
        BY <2>1, <2>3, <2>5, <3>2, <3>3 DEF ServedOnce
    <2>6. QED
      BY <2>1, <2>3, <2>4, <2>5
  <1>8. CASE Push!worker_lost
    <2>1. run.busy /\ crashes' = crashes + 1 /\ run' = Push!Idle /\ queue' = queue \cup {Push!Posted(run.retry, run.for)}
          /\ UNCHANGED <<note, copies>>
      BY <1>8 DEF Push!worker_lost
    <2>2. PushTypes' /\ ~ run'.busy
      BY <2>1 DEF PushTypes, Push!Posted, Push!Idle
    <2>3. crashes' # 0
      BY <2>1 DEF PushTypes
    <2>4. QED
      BY <2>2, <2>3
  <1>9. CASE UNCHANGED Push!vars
    BY <1>9 DEF Push!vars, PushTypes, OneTask, ServedOnce, ToServe
  <1>10. QED
    BY <1>1, <1>2, <1>3, <1>4, <1>5, <1>6, <1>7, <1>8, <1>9 DEF Push!Next, Push!notify, Push!rolled_back

LEMMA PushInvImplies == PushInv => Push!ShownOnce
  BY DEF PushInv, PushTypes, ServedOnce, Push!ShownOnce

-----------------------------------------------------------------------------
(* Tracking *)

Positions == [stamp : Int, place : Int]

TrackingTypes ==
  /\ \A r \in rows_tracki : r.stamp \in Int /\ r.place \in Int
  /\ screen \in Positions
  /\ request_tracki \in [Ping -> [at : {"idle", "read", "judged", "recorded"}, ping : Positions, keep : BOOLEAN]]

\* The track has a point near the position and not long before it.
Tracked(position) ==
  \E r \in rows_tracki :
    /\ Tracking!Road(r.place, position.place) < TRACKING_MIN_WRITE_METERS
    /\ position.stamp - r.stamp < TRACKING_MIN_WRITE_SECONDS

\* So it has of the position on the screen, and of each that will be there
\* without a row of its own to come.
OnTheTrack ==
  course_tracki # "over" =>
    /\ screen # Tracking!Nowhere => Tracked(screen)
    /\ \A q \in Ping : \/ request_tracki[q].at = "judged" /\ ~ request_tracki[q].keep
                       \/ request_tracki[q].at = "recorded"
                       => Tracked(request_tracki[q].ping)

TrackingInv == TrackingTypes /\ OnTheTrack

LEMMA TrackingInit == Tracking!Init => TrackingInv
  BY DEF Tracking!Init, TrackingInv, TrackingTypes, OnTheTrack, Positions, Tracking!Idle, Tracking!Nowhere

\* A position that deserves no row is near the row it was compared with, and
\* not long after it.
LEMMA NoRowDeserved ==
  ASSUME NEW ping \in Positions, NEW last \in rows_tracki, ~ Tracking!_deserves_a_row(ping, last),
         TrackingTypes
  PROVE  Tracked(ping)
  <1>1. /\ Tracking!Road(ping.place, last.place) < TRACKING_MIN_WRITE_METERS
        /\ ping.stamp - last.stamp < TRACKING_MIN_WRITE_SECONDS
    BY TrackingAssumption DEF Tracking!_deserves_a_row, Tracking!Road, TrackingTypes, Positions
  <1>2. \A x \in Int, y \in Int : Tracking!Road(x, y) = Tracking!Road(y, x)
    BY DEF Tracking!Road
  <1>3. last.place \in Int /\ ping.place \in Int
    BY DEF TrackingTypes, Positions
  <1>4. QED
    BY <1>1, <1>2, <1>3 DEF Tracked

\* Rows are only added until the course is over, and a position that has been
\* given its row has it.
LEMMA TrackingStep ==
  ASSUME TrackingInv, [Tracking!Next]_(Tracking!vars)
  PROVE  TrackingInv'
  <1> USE TrackingAssumption DEF TrackingInv
  <1>0. ASSUME rows_tracki \subseteq rows_tracki', NEW position, Tracked(position)
        PROVE  Tracked(position)'
    BY <1>0 DEF Tracked
  <1>1. ASSUME NEW q \in Ping, NEW ping \in Tracking!Position, Tracking!PingWriteSerializer(q, ping)
        PROVE  TrackingInv'
    <2>1. /\ request_tracki' = [request_tracki EXCEPT ![q] = [at |-> "read", ping |-> ping, keep |-> FALSE]]
          /\ UNCHANGED <<course_tracki, rows_tracki, screen>>
      BY <1>1 DEF Tracking!PingWriteSerializer
    <2>2. ping \in Positions
      <3>1. ping \in [stamp : Tracking!Stamp, place : Place]
        BY DEF Tracking!Position
      <3>2. Tracking!Stamp \subseteq Int
        BY DEF Tracking!Stamp
      <3>3. QED
        BY <3>1, <3>2 DEF Positions
    <2>3. TrackingTypes'
      BY <2>1, <2>2 DEF TrackingTypes
    <2>4. OnTheTrack'
      BY <2>1 DEF OnTheTrack, Tracked, TrackingTypes
    <2>5. QED
      BY <2>3, <2>4
  <1>2. ASSUME NEW q \in Ping, Tracking!record(q)
        PROVE  TrackingInv'
    <2>1. PICK keep \in BOOLEAN :
            /\ request_tracki' = [request_tracki EXCEPT ![q].at = "judged", ![q].keep = keep]
            /\ ~ keep => \E last \in rows_tracki : ~ Tracking!_deserves_a_row(request_tracki[q].ping, last)
      <3>1. CASE rows_tracki = {} /\ request_tracki' = [request_tracki EXCEPT ![q].at = "judged", ![q].keep = TRUE]
        BY <3>1
      <3>2. ASSUME NEW last \in Tracking!latest_for(rows_tracki),
                   request_tracki' = [request_tracki EXCEPT ![q].at = "judged",
                                        ![q].keep = Tracking!_deserves_a_row(request_tracki[q].ping, last)]
            PROVE  \E keep \in BOOLEAN :
                     /\ request_tracki' = [request_tracki EXCEPT ![q].at = "judged", ![q].keep = keep]
                     /\ ~ keep => \E r \in rows_tracki : ~ Tracking!_deserves_a_row(request_tracki[q].ping, r)
        BY <3>2, Zenon DEF Tracking!latest_for, Tracking!_deserves_a_row
      <3>3. QED
        BY <1>2, <3>1, <3>2, Zenon DEF Tracking!record
    <2>2. UNCHANGED <<course_tracki, rows_tracki, screen>>
      BY <1>2 DEF Tracking!record
    <2>3. /\ request_tracki'[q].ping = request_tracki[q].ping /\ request_tracki'[q].keep = keep
          /\ request_tracki'[q].at = "judged"
          /\ \A p \in Ping : p # q => request_tracki'[p] = request_tracki[p]
          /\ request_tracki' \in [Ping -> [at : {"idle", "read", "judged", "recorded"}, ping : Positions, keep : BOOLEAN]]
      BY <2>1 DEF TrackingTypes
    <2>4. ~ keep => Tracked(request_tracki[q].ping)
      BY <2>1, NoRowDeserved DEF TrackingTypes
    <2>5. OnTheTrack'
      BY <2>2, <2>3, <2>4 DEF OnTheTrack, Tracked
    <2>6. QED
      BY <2>2, <2>3, <2>5 DEF TrackingTypes
  <1>3. ASSUME NEW q \in Ping, Tracking!create(q)
        PROVE  TrackingInv'
    <2> DEFINE ping == request_tracki[q].ping
               row  == [received |-> now_tracki, stamp |-> ping.stamp, place |-> ping.place]
    <2>1. /\ request_tracki[q].at = "judged"
          /\ rows_tracki' = IF request_tracki[q].keep THEN rows_tracki \cup {row} ELSE rows_tracki
          /\ request_tracki' = [request_tracki EXCEPT ![q].at = "recorded", ![q].keep = FALSE]
          /\ UNCHANGED <<course_tracki, screen>>
      BY <1>3 DEF Tracking!create
    <2>2. ping \in Positions
      BY DEF TrackingTypes
    <2>3. /\ request_tracki'[q].ping = ping
          /\ \A p \in Ping : p # q => request_tracki'[p] = request_tracki[p]
          /\ request_tracki' \in [Ping -> [at : {"idle", "read", "judged", "recorded"}, ping : Positions, keep : BOOLEAN]]
      BY <2>1 DEF TrackingTypes
    <2>4. TrackingTypes'
      BY <2>1, <2>2, <2>3 DEF TrackingTypes, Positions
    <2>5. ASSUME course_tracki # "over" PROVE Tracked(ping)'
      <3>1. CASE request_tracki[q].keep
        <4>1. row \in rows_tracki' /\ Tracking!Road(row.place, ping.place) = 0 /\ ping.stamp - row.stamp = 0
          BY <2>1, <2>2, <3>1 DEF Tracking!Road, Positions
        <4>2. PICK r \in rows_tracki' : Tracking!Road(r.place, ping.place) = 0 /\ ping.stamp - r.stamp = 0
          BY <4>1
        <4>3. ping' = ping
          BY <2>3
        <4>4. QED
          BY <4>2, <4>3 DEF Tracked
      <3>2. CASE ~ request_tracki[q].keep
        <4>1. Tracked(ping)
          BY <2>1, <2>5, <3>2 DEF OnTheTrack
        <4>2. QED
          BY <2>1, <2>3, <3>2, <4>1 DEF Tracked
      <3>3. QED
        BY <3>1, <3>2
    <2>6. \A position : Tracked(position) => (\E r \in rows_tracki' :
                 /\ Tracking!Road(r.place, position.place) < TRACKING_MIN_WRITE_METERS
                 /\ position.stamp - r.stamp < TRACKING_MIN_WRITE_SECONDS)
      BY <2>1 DEF Tracked
    <2>7. OnTheTrack'
      BY <2>1, <2>3, <2>5, <2>6 DEF OnTheTrack, Tracked
    <2>8. QED
      BY <2>4, <2>7
  <1>4. ASSUME NEW q \in Ping, Tracking!receive_json(q)
        PROVE  TrackingInv'
    <2>1. /\ request_tracki[q].at = "recorded" /\ screen' = request_tracki[q].ping
          /\ request_tracki' = [request_tracki EXCEPT ![q] = Tracking!Idle]
          /\ UNCHANGED <<course_tracki, rows_tracki>>
      BY <1>4 DEF Tracking!receive_json
    <2>2. TrackingTypes'
      BY <2>1 DEF TrackingTypes, Tracking!Idle, Tracking!Nowhere, Positions
    <2>3. OnTheTrack'
      BY <2>1 DEF OnTheTrack, Tracked, TrackingTypes, Tracking!Idle
    <2>4. QED
      BY <2>2, <2>3
  <1>5. ASSUME NEW q \in Ping, Tracking!PingView(q) \/ Tracking!fails(q)
        PROVE  TrackingInv'
    <2>1. request_tracki' = [request_tracki EXCEPT ![q] = Tracking!Idle] /\ UNCHANGED <<course_tracki, rows_tracki, screen>>
      BY <1>5 DEF Tracking!PingView, Tracking!fails
    <2>2. TrackingTypes'
      BY <2>1 DEF TrackingTypes, Tracking!Idle, Tracking!Nowhere, Positions
    <2>3. OnTheTrack'
      BY <2>1 DEF OnTheTrack, Tracked, TrackingTypes, Tracking!Idle
    <2>4. QED
      BY <2>2, <2>3
  <1>6. CASE Tracking!course_moves
    <2>1. course_tracki # "over" /\ UNCHANGED <<rows_tracki, screen, request_tracki>>
      BY <1>6 DEF Tracking!course_moves
    <2>2. QED
      BY <2>1 DEF TrackingTypes, OnTheTrack, Tracked
  <1>7. CASE Tracking!purge_stale_locations
    <2>1. /\ course_tracki = "over" /\ rows_tracki' \subseteq rows_tracki
          /\ UNCHANGED <<course_tracki, screen, request_tracki>>
      BY <1>7 DEF Tracking!purge_stale_locations
    <2>2. QED
      BY <2>1 DEF TrackingTypes, OnTheTrack
  <1>8. CASE Tracking!tick \/ UNCHANGED Tracking!vars
    BY <1>8 DEF Tracking!tick, Tracking!vars, TrackingTypes, OnTheTrack, Tracked
  <1>9. QED
    BY <1>1, <1>2, <1>3, <1>4, <1>5, <1>6, <1>7, <1>8 DEF Tracking!Next

\* A client sent back to the latest row is sent back by less than from any row.
LEMMA TrackingInvImplies == TrackingInv => Tracking!FallbackKeepsUp
  <1> SUFFICES ASSUME TrackingInv, course_tracki = "trackable", screen # Tracking!Nowhere
               PROVE  /\ \E r \in rows_tracki : Tracking!Road(r.place, screen.place) < TRACKING_MIN_WRITE_METERS
                      /\ \A r \in Tracking!latest_for(rows_tracki) : screen.stamp - r.stamp < TRACKING_MIN_WRITE_SECONDS
    BY DEF Tracking!FallbackKeepsUp
  <1>1. PICK r \in rows_tracki : /\ Tracking!Road(r.place, screen.place) < TRACKING_MIN_WRITE_METERS
                                 /\ screen.stamp - r.stamp < TRACKING_MIN_WRITE_SECONDS
    BY DEF TrackingInv, OnTheTrack, Tracked
  <1>2. ASSUME NEW latest \in Tracking!latest_for(rows_tracki)
        PROVE  screen.stamp - latest.stamp < TRACKING_MIN_WRITE_SECONDS
    <2>1. latest \in rows_tracki /\ r.stamp <= latest.stamp
      BY DEF Tracking!latest_for
    <2>2. r.stamp \in Int /\ latest.stamp \in Int /\ screen.stamp \in Int
      BY <2>1 DEF TrackingInv, TrackingTypes, Positions
    <2>3. QED
      BY <1>1, <2>1, <2>2, TrackingAssumption
  <1>3. QED
    BY <1>1, <1>2

-----------------------------------------------------------------------------
(* The realtime channel *)

Publishers == [at : {"idle", "added", "raised", "numbered", "written"}, seq : Nat, of : Nat]

Events == Realtime!Seq \X Nat

Sockets == [at : {"closed", "joined", "reading", "live"}, in : BOOLEAN, since : Nat, same : BOOLEAN,
            last : 0..MaxSeq, got : SUBSET Events, gap : Nat, queue : SUBSET Events]

RealtimeTypes ==
  /\ counter \in 0..MaxSeq /\ there \in BOOLEAN /\ epoch \in Nat
  /\ journal \in [Realtime!Seq -> [of : Nat, till : Nat]]
  /\ publisher \in [Publisher -> Publishers]
  /\ \A p \in Publisher : IF publisher[p].at \in {"numbered", "written"}
                          THEN publisher[p].seq \in Realtime!Seq ELSE publisher[p].seq = 0
  /\ socket \in Sockets

\* A process has the number and has not written the event yet.
Numbered(s) == \E p \in Publisher : /\ publisher[p].at = "numbered"
                                    /\ publisher[p].seq = s /\ publisher[p].of = epoch

\* Something was written under the number since this numbering began: the
\* event of that number, or a stray one over it.
Written(s) == journal[s].till = epoch /\ (journal[s].of = epoch \/ s \in stray)

\* Every number of the current numbering is in the journal, or will be, or was
\* cut short; only a stray number is written by a publication of a former one.
Accounted ==
  /\ ~ there => counter = 0
  /\ there => epoch > 0
  /\ there => \A p \in Publisher :
                publisher[p].at = "numbered" => publisher[p].of = epoch \/ publisher[p].seq \in stray
  /\ there => \A s \in 1..counter : s \in lost_realti \/ Written(s) \/ Numbered(s)

\* The event reaches the client, or will, or was cut short.
Reaches(t) == <<t, epoch>> \in socket.got \cup socket.queue \/ t \in lost_realti \/ Realtime!Coming(t)

\* The client has nothing to miss at the number, or can tell that it missed it.
Told(s) == s < socket.gap \/ s \in stray \/ \E t \in s..counter : Reaches(t)

\* A client holding a number of the current numbering is in the group, and
\* what was numbered since it read the counter reaches it; a live one has been
\* told of all before that.
FollowsTheNumbering ==
  /\ socket.at = "closed" => ~ socket.same
  /\ socket.at # "closed" => socket.in
  /\ socket.at \in {"joined", "reading"} => socket.got = {} /\ socket.gap = 0
  /\ socket.same => there
  /\ socket.at = "reading" => Realtime!premier(socket.since, socket.last) <= socket.last
  /\ socket.same /\ socket.at = "reading" =>
       /\ socket.last <= counter
       /\ \A s \in socket.last + 1..counter : Reaches(s)
  /\ socket.same /\ socket.at = "live" => \A s \in socket.since + 1..counter : Told(s)

RealtimeInv == RealtimeTypes /\ Accounted /\ FollowsTheNumbering

LEMMA RealtimeInit == Realtime!Init => RealtimeInv
  <1> SUFFICES ASSUME Realtime!Init PROVE RealtimeInv
    OBVIOUS
  <1>1. 0 \in 0..MaxSeq
    BY RealtimeAssumption
  <1>2. Realtime!Closed \in Sockets /\ Realtime!Closed.at = "closed" /\ Realtime!Closed.same = FALSE
    BY <1>1 DEF Realtime!Closed, Sockets
  <1>3. RealtimeTypes
    BY <1>1, <1>2 DEF Realtime!Init, RealtimeTypes, Publishers, Realtime!Idle, Realtime!Unwritten
  <1>4. Accounted /\ FollowsTheNumbering
    BY <1>2 DEF Realtime!Init, Realtime!Idle, Accounted, FollowsTheNumbering
  <1>5. QED
    BY <1>3, <1>4 DEF RealtimeInv

\* A client that lost nothing of what reached it, while the counter stands,
\* follows it still.
LEMMA StillFollows ==
  ASSUME RealtimeInv, there' = there, counter' = counter, stray' = stray,
         /\ socket'.at = socket.at /\ socket'.same = socket.same /\ socket'.in = socket.in
         /\ socket'.since = socket.since /\ socket'.last = socket.last /\ socket'.gap = socket.gap
         /\ socket.at # "live" => socket'.got = socket.got,
         \A t \in 1..counter : Reaches(t) => Reaches(t)'
  PROVE  FollowsTheNumbering'
  <1> USE DEF RealtimeInv
  <1>1. \A s : s \in socket.last + 1..counter => s \in 1..counter
    BY DEF RealtimeTypes, Sockets
  <1>2. \A s \in socket.since + 1..counter : \A t \in s..counter : t \in 1..counter
    BY DEF RealtimeTypes, Sockets
  <1>3. socket.same /\ socket.at = "reading" => \A s \in socket.last + 1..counter : Reaches(s)'
    BY <1>1 DEF FollowsTheNumbering
  <1>4. socket.same /\ socket.at = "live" => \A s \in socket.since + 1..counter : Told(s)'
    <2> SUFFICES ASSUME socket.same, socket.at = "live", NEW s \in socket.since + 1..counter PROVE Told(s)'
      OBVIOUS
    <2>1. s < socket.gap \/ s \in stray \/ \E t \in s..counter : Reaches(t)
      BY DEF FollowsTheNumbering, Told
    <2>2. (\E t \in s..counter : Reaches(t)) => \E t \in s..counter' : Reaches(t)'
      BY <1>2
    <2>3. QED
      BY <2>1, <2>2 DEF Told
  <1>5. Realtime!premier(socket'.since, socket'.last) = Realtime!premier(socket.since, socket.last)
    BY DEF Realtime!premier, Realtime!Max2
  <1>6. QED
    BY <1>3, <1>4, <1>5 DEF FollowsTheNumbering

\* The client closed or numbered by another counter has nothing to follow.
LEMMA NotOfThisNumbering ==
  ASSUME RealtimeInv, socket' = [socket EXCEPT !.same = FALSE]
  PROVE  socket' \in Sockets /\ FollowsTheNumbering'
  <1>1. /\ socket' \in Sockets /\ socket'.same = FALSE
        /\ socket'.at = socket.at /\ socket'.in = socket.in
        /\ socket'.since = socket.since /\ socket'.last = socket.last
        /\ socket'.got = socket.got /\ socket'.gap = socket.gap
    BY DEF RealtimeInv, RealtimeTypes, Sockets
  <1>2. QED
    BY <1>1 DEF RealtimeInv, FollowsTheNumbering, Realtime!premier, Realtime!Max2

\* A number that is given is numbered, and the client has more to expect.
LEMMA GiveStep ==
  ASSUME RealtimeInv, NEW p \in Publisher, NEW n \in Realtime!Seq, Realtime!Give(p, n), epoch' \in Nat
  PROVE  /\ counter' \in 0..MaxSeq /\ publisher' \in [Publisher -> Publishers]
         /\ \A q \in Publisher : IF publisher'[q].at \in {"numbered", "written"}
                                THEN publisher'[q].seq \in Realtime!Seq ELSE publisher'[q].seq = 0
         /\ Numbered(n)' /\ Realtime!Coming(n)'
         /\ publisher'[p].of = epoch' /\ \A q \in Publisher : q # p => publisher'[q] = publisher[q]
  <1> USE RealtimeAssumption
  <1>1. publisher' = [publisher EXCEPT ![p] = [at |-> "numbered", seq |-> n, of |-> epoch']] /\ counter' = n
    BY DEF Realtime!Give
  <1>2. publisher \in [Publisher -> Publishers] /\ n \in 1..MaxSeq /\ n \in Nat
    BY DEF RealtimeInv, RealtimeTypes, Realtime!Seq
  <1>3. publisher'[p] = [at |-> "numbered", seq |-> n, of |-> epoch'] /\ \A q \in Publisher : q # p => publisher'[q] = publisher[q]
    BY <1>1, <1>2
  <1>4. publisher' \in [Publisher -> Publishers]
    BY <1>1, <1>2 DEF Publishers
  <1>5. \A q \in Publisher : IF publisher'[q].at \in {"numbered", "written"}
                             THEN publisher'[q].seq \in Realtime!Seq ELSE publisher'[q].seq = 0
    BY <1>3 DEF RealtimeInv, RealtimeTypes
  <1>6. Numbered(n)' /\ Realtime!Coming(n)'
    BY <1>3 DEF Numbered, Realtime!Coming
  <1>7. QED
    BY <1>1, <1>2, <1>3, <1>4, <1>5, <1>6

\* Actions that move one publication on.
LEMMA RealtimePublishes ==
  ASSUME RealtimeInv, NEW p \in Publisher,
         Realtime!add(p) \/ Realtime!incr(p) \/ Realtime!incr_raises(p) \/ Realtime!set_one(p) \/ Realtime!write(p) \/ Realtime!group_send(p) \/ Realtime!fails(p)
  PROVE  RealtimeInv'
  <1> USE RealtimeAssumption DEF RealtimeInv
  <1> DEFINE Held(f) == \A q \in Publisher : IF f[q].at \in {"numbered", "written"}
                                             THEN f[q].seq \in Realtime!Seq ELSE f[q].seq = 0
  <1>0. \A s \in 1..counter : s \in Realtime!Seq
    BY DEF RealtimeTypes, Realtime!Seq
  <1>1. CASE Realtime!add(p)
    <2>1. /\ publisher' = [publisher EXCEPT ![p].at = "added"] /\ publisher[p].at = "idle"
          /\ there' = TRUE /\ UNCHANGED <<counter, journal, socket>>
          /\ epoch' = IF there THEN epoch ELSE epoch + 1
          /\ lost_realti' = IF there THEN lost_realti ELSE {}
          /\ stray' = IF there THEN stray ELSE Realtime!Unsettled
      BY <1>1 DEF Realtime!add
    <2>2. /\ publisher'[p].at = "added" /\ publisher'[p].seq = publisher[p].seq /\ publisher'[p].of = publisher[p].of
          /\ \A q \in Publisher : q # p => publisher'[q] = publisher[q]
      BY <2>1 DEF RealtimeTypes, Publishers
    <2>3. RealtimeTypes'
      <3>1. publisher' \in [Publisher -> Publishers]
        BY <2>1 DEF RealtimeTypes, Publishers
      <3>2. Held(publisher')
        BY <2>1, <2>2 DEF RealtimeTypes
      <3>3. epoch' \in Nat
        BY <2>1 DEF RealtimeTypes
      <3>4. QED
        BY <2>1, <3>1, <3>2, <3>3 DEF RealtimeTypes
    <2>4. CASE there
      <3>1. UNCHANGED <<there, epoch, lost_realti, stray>>
        BY <2>1, <2>4 DEF RealtimeTypes
      <3>2. \A s : (Numbered(s) => Numbered(s)') /\ (Realtime!Coming(s) => Realtime!Coming(s)')
        BY <2>1, <2>2, <3>1 DEF Numbered, Realtime!Coming
      <3>3. Accounted'
        BY <2>1, <2>2, <3>1, <3>2 DEF Accounted, Written
      <3>4. \A t \in 1..counter : Reaches(t) => Reaches(t)'
        BY <2>1, <3>1, <3>2 DEF Reaches
      <3>5. QED
        BY <2>1, <2>3, <3>1, <3>3, <3>4, StillFollows
    <2>5. CASE ~ there
      <3>1. FollowsTheNumbering'
        BY <2>1, <2>5 DEF FollowsTheNumbering
      <3>2. stray' = Realtime!Unsettled /\ epoch' > 0 /\ counter' = 0
        BY <2>1, <2>5 DEF Accounted, RealtimeTypes
      <3>3. \A q \in Publisher : publisher'[q].at = "numbered" => publisher'[q].seq \in stray'
        BY <2>1, <2>2, <3>2 DEF Realtime!Unsettled
      <3>4. Accounted'
        BY <2>1, <3>2, <3>3 DEF Accounted
      <3>5. QED
        BY <2>3, <3>1, <3>4
    <2>6. QED
      BY <2>4, <2>5
  <1>2. CASE Realtime!incr(p)
    <2> DEFINE c == counter + 1
    <2>0. PICK n : n = c
      OBVIOUS
    <2>1. /\ Realtime!Give(p, n) /\ there /\ publisher[p].at = "added" /\ publisher[p].seq = 0 /\ n \in Realtime!Seq
          /\ UNCHANGED <<there, epoch, journal, lost_realti, stray, socket>> /\ counter' = n /\ n = counter + 1
          /\ epoch' \in Nat
      BY <1>2, <2>0 DEF Realtime!incr, RealtimeTypes, Realtime!Seq, Realtime!Give
    <2>2. /\ counter' \in 0..MaxSeq /\ publisher' \in [Publisher -> Publishers] /\ Held(publisher')
          /\ Numbered(n)' /\ Realtime!Coming(n)' /\ publisher'[p].of = epoch
          /\ \A q \in Publisher : q # p => publisher'[q] = publisher[q]
      BY <2>1, GiveStep
    <2>3. RealtimeTypes'
      BY <2>1, <2>2 DEF RealtimeTypes
    <2>4. /\ \A s \in 1..counter' : s \in 1..counter \/ s = n
          /\ \A s \in 1..counter : s # 0
      BY <2>1 DEF RealtimeTypes
    <2>5. \A s : s # 0 => (Numbered(s) => Numbered(s)') /\ (Realtime!Coming(s) => Realtime!Coming(s)')
      BY <2>1, <2>2 DEF Numbered, Realtime!Coming
    <2>6. Accounted'
      <3>1. ASSUME NEW s \in 1..counter' PROVE s \in lost_realti \/ Written(s) \/ Numbered(s)'
        <4>1. CASE s = n
          BY <2>2, <4>1
        <4>2. CASE s # n
          BY <2>1, <2>4, <2>5, <4>2 DEF Accounted
        <4>3. QED
          BY <4>1, <4>2
      <3>2. \A s : Written(s) => Written(s)'
        BY <2>1 DEF Written
      <3>3. \A q \in Publisher : publisher'[q].at = "numbered" => publisher'[q].of = epoch \/ publisher'[q].seq \in stray
        BY <2>1, <2>2 DEF Accounted
      <3>4. QED
        BY <2>1, <3>1, <3>2, <3>3 DEF Accounted
    <2>7. (\A t \in 1..counter : Reaches(t) => Reaches(t)') /\ Reaches(n)'
      BY <2>1, <2>2, <2>4, <2>5 DEF Reaches
    <2>8. socket.last \in Nat /\ socket.since \in Nat /\ counter \in Nat
      BY DEF RealtimeTypes, Sockets
    <2>9. socket.same /\ socket.at = "reading" =>
            socket.last <= counter' /\ \A s \in socket.last + 1..counter' : Reaches(s)'
      <3> SUFFICES ASSUME socket.same, socket.at = "reading", NEW s \in socket.last + 1..counter'
                   PROVE  Reaches(s)'
        BY <2>1, <2>8 DEF FollowsTheNumbering
      <3>1. CASE s = n
        BY <2>7, <3>1
      <3>2. CASE s # n
        <4>1. s \in socket.last + 1..counter /\ s \in 1..counter
          BY <2>1, <2>8, <3>2
        <4>2. QED
          BY <2>7, <4>1 DEF FollowsTheNumbering
      <3>3. QED
        BY <3>1, <3>2
    <2>10. ASSUME NEW s \in socket.since + 1..counter' PROVE Told(s)'
      <3>1. n \in s..counter'
        BY <2>1, <2>8
      <3>2. QED
        BY <2>7, <3>1 DEF Told
    <2>11. FollowsTheNumbering'
      BY <2>1, <2>9, <2>10 DEF FollowsTheNumbering
    <2>12. QED
      BY <2>3, <2>6, <2>11
  <1>3. CASE Realtime!incr_raises(p)
    <2>1. /\ publisher' = [publisher EXCEPT ![p].at = "raised"] /\ publisher[p].at = "added" /\ ~ there
          /\ UNCHANGED <<counter, there, epoch, journal, lost_realti, stray, socket>>
      BY <1>3 DEF Realtime!incr_raises
    <2>2. publisher' \in [Publisher -> Publishers] /\ Held(publisher')
      BY <2>1 DEF RealtimeTypes, Publishers
    <2>3. QED
      BY <2>1, <2>2 DEF RealtimeTypes, Accounted, FollowsTheNumbering
  <1>4. CASE Realtime!set_one(p)
    <2>1. /\ Realtime!Give(p, 1) /\ publisher[p].at = "raised" /\ 1 \in Realtime!Seq /\ counter' = 1
          /\ there' = TRUE /\ epoch' = epoch + 1 /\ lost_realti' = {} /\ journal' = journal
          /\ stray' = Realtime!Unsettled /\ epoch' \in Nat /\ epoch' > 0
          /\ socket' = [socket EXCEPT !.same = FALSE]
      BY <1>4 DEF Realtime!set_one, RealtimeTypes, Realtime!Seq, Realtime!Give
    <2>2. /\ counter' \in 0..MaxSeq /\ publisher' \in [Publisher -> Publishers] /\ Held(publisher')
          /\ Numbered(1)' /\ publisher'[p].of = epoch'
          /\ \A q \in Publisher : q # p => publisher'[q] = publisher[q]
      BY <2>1, GiveStep
    <2>3. socket' \in Sockets /\ FollowsTheNumbering'
      BY <2>1, NotOfThisNumbering
    <2>4. RealtimeTypes'
      BY <2>1, <2>2, <2>3 DEF RealtimeTypes
    <2>5. \A s \in 1..counter' : s = 1
      BY <2>1
    <2>6. \A q \in Publisher : publisher'[q].at = "numbered" => publisher'[q].of = epoch' \/ publisher'[q].seq \in stray'
      BY <2>1, <2>2 DEF Realtime!Unsettled
    <2>7. Accounted'
      BY <2>1, <2>2, <2>5, <2>6 DEF Accounted
    <2>8. QED
      BY <2>3, <2>4, <2>7
  <1>5. CASE Realtime!write(p)
    <2> DEFINE n == publisher[p].seq
               event == [of |-> publisher[p].of, till |-> epoch]
    <2>1. /\ publisher[p].at = "numbered" /\ publisher' = [publisher EXCEPT ![p].at = "written"]
          /\ journal' = [journal EXCEPT ![n] = event]
          /\ UNCHANGED <<counter, there, epoch, lost_realti, stray, socket>>
      BY <1>5 DEF Realtime!write
    <2>2. n \in Realtime!Seq /\ publisher[p].of \in Nat /\ epoch \in Nat
      BY <2>1 DEF RealtimeTypes, Publishers
    <2>3. /\ publisher'[p].at = "written" /\ publisher'[p].seq = n /\ publisher'[p].of = publisher[p].of
          /\ \A q \in Publisher : q # p => publisher'[q] = publisher[q]
          /\ publisher' \in [Publisher -> Publishers]
      BY <2>1 DEF RealtimeTypes, Publishers
    <2>4. /\ journal'[n] = event /\ \A s \in Realtime!Seq : s # n => journal'[s] = journal[s]
          /\ journal' \in [Realtime!Seq -> [of : Nat, till : Nat]]
      BY <2>1, <2>2 DEF RealtimeTypes
    <2>5. RealtimeTypes'
      BY <2>1, <2>2, <2>3, <2>4 DEF RealtimeTypes
    <2>6. Accounted'
      <3>1. ASSUME there, NEW s \in 1..counter
            PROVE  s \in lost_realti \/ Written(s)' \/ Numbered(s)'
        <4>1. CASE s = n
          BY <2>1, <2>4, <3>1, <4>1 DEF Accounted, Written
        <4>2. CASE s # n
          <5>1. (Numbered(s) => Numbered(s)') /\ (Written(s) => Written(s)')
            BY <1>0, <2>1, <2>3, <2>4, <4>2 DEF Numbered, Written
          <5>2. QED
            BY <3>1, <5>1 DEF Accounted
        <4>3. QED
          BY <4>1, <4>2
      <3>2. QED
        BY <2>1, <2>3, <3>1 DEF Accounted
    <2>7. \A s : Realtime!Coming(s) => Realtime!Coming(s)'
      BY <2>1, <2>3 DEF Realtime!Coming
    <2>8. \A t \in 1..counter : Reaches(t) => Reaches(t)'
      BY <2>1, <2>7 DEF Reaches
    <2>9. QED
      BY <2>1, <2>5, <2>6, <2>8, StillFollows
  <1>6. CASE Realtime!group_send(p)
    <2> DEFINE n == publisher[p].seq
               event == <<n, publisher[p].of>>
    <2>1. /\ publisher[p].at = "written" /\ publisher' = [publisher EXCEPT ![p] = Realtime!Idle]
          /\ socket' = IF socket.in THEN [socket EXCEPT !.queue = @ \cup {event}] ELSE socket
          /\ UNCHANGED <<counter, there, epoch, journal, lost_realti, stray>>
      BY <1>6 DEF Realtime!group_send
    <2>2. event \in Events
      BY <2>1 DEF RealtimeTypes, Publishers, Events
    <2>3. /\ publisher'[p] = Realtime!Idle /\ \A q \in Publisher : q # p => publisher'[q] = publisher[q]
          /\ publisher' \in [Publisher -> Publishers]
      BY <2>1 DEF RealtimeTypes, Publishers, Realtime!Idle
    <2>4. socket' \in Sockets
      BY <2>1, <2>2 DEF RealtimeTypes, Sockets
    <2>5. RealtimeTypes'
      BY <2>1, <2>3, <2>4 DEF RealtimeTypes, Realtime!Idle
    <2>6. Accounted'
      <3>1. \A s : (Numbered(s) => Numbered(s)') /\ (Written(s) => Written(s)')
        BY <2>1, <2>3 DEF Numbered, Written
      <3>2. QED
        BY <2>1, <2>3, <3>1 DEF Accounted, Realtime!Idle
    <2>7. CASE ~ socket.in
      <3>1. socket' = socket /\ socket.at = "closed" /\ ~ socket.same
        BY <2>1, <2>7 DEF FollowsTheNumbering
      <3>2. FollowsTheNumbering'
        BY <3>1 DEF FollowsTheNumbering
      <3>3. QED
        BY <2>5, <2>6, <3>2
    <2>8. CASE socket.in
      <3>1. /\ socket'.at = socket.at /\ socket'.same = socket.same /\ socket'.in = socket.in
            /\ socket'.since = socket.since /\ socket'.last = socket.last
            /\ socket'.got = socket.got /\ socket'.gap = socket.gap
            /\ socket'.queue = socket.queue \cup {event}
        BY <2>1, <2>8 DEF RealtimeTypes, Sockets
      <3>2. \A s : Realtime!Coming(s) => Realtime!Coming(s)' \/ <<s, epoch>> = event
        BY <2>1, <2>3 DEF Realtime!Coming
      <3>3. \A t \in 1..counter : Reaches(t) => Reaches(t)'
        BY <2>1, <3>1, <3>2 DEF Reaches
      <3>4. QED
        BY <2>1, <2>6, <3>1, <3>3, <2>5, StillFollows
    <2>9. QED
      BY <2>5, <2>6, <2>7, <2>8
  <1>7. CASE Realtime!fails(p)
    <2> DEFINE n == publisher[p].seq
    <2>1. /\ publisher' = [publisher EXCEPT ![p] = Realtime!Idle]
          /\ lost_realti' = IF publisher[p].of = epoch THEN lost_realti \cup {n} ELSE lost_realti
          /\ UNCHANGED <<counter, there, epoch, journal, stray, socket>>
      BY <1>7 DEF Realtime!fails
    <2>2. /\ publisher'[p] = Realtime!Idle /\ \A q \in Publisher : q # p => publisher'[q] = publisher[q]
          /\ publisher' \in [Publisher -> Publishers]
      BY <2>1 DEF RealtimeTypes, Publishers, Realtime!Idle
    <2>3. RealtimeTypes'
      BY <2>1, <2>2 DEF RealtimeTypes, Realtime!Idle
    <2>4. \A s : /\ Numbered(s) => Numbered(s)' \/ s \in lost_realti'
                 /\ Realtime!Coming(s) => Realtime!Coming(s)' \/ s \in lost_realti'
                 /\ s \in lost_realti => s \in lost_realti'
      BY <2>1, <2>2 DEF Numbered, Realtime!Coming
    <2>5. Accounted'
      <3>1. \A s : Written(s) => Written(s)'
        BY <2>1 DEF Written
      <3>2. QED
        BY <2>1, <2>2, <2>4, <3>1 DEF Accounted, Realtime!Idle
    <2>6. \A t \in 1..counter : Reaches(t) => Reaches(t)'
      BY <2>1, <2>4 DEF Reaches
    <2>7. QED
      BY <2>1, <2>3, <2>5, <2>6, StillFollows
  <1>8. QED
    BY <1>1, <1>2, <1>3, <1>4, <1>5, <1>6, <1>7

LEMMA RealtimeStep ==
  ASSUME RealtimeInv, [Realtime!Next]_(Realtime!vars)
  PROVE  RealtimeInv'
  <1> USE RealtimeAssumption DEF RealtimeInv
  <1>0. \A s \in 1..counter : s \in Realtime!Seq
    BY DEF RealtimeTypes, Realtime!Seq
  <1>1. ASSUME NEW p \in Publisher,
               Realtime!add(p) \/ Realtime!incr(p) \/ Realtime!incr_raises(p) \/ Realtime!set_one(p) \/ Realtime!write(p) \/ Realtime!group_send(p) \/ Realtime!fails(p)
        PROVE  RealtimeInv'
    BY <1>1, RealtimePublishes
  <1>2. CASE Realtime!counter_expires
    <2>1. /\ there' = FALSE /\ counter' = 0 /\ socket' = [socket EXCEPT !.same = FALSE]
          /\ UNCHANGED <<epoch, journal, publisher, lost_realti, stray>>
      BY <1>2 DEF Realtime!counter_expires
    <2>2. socket' \in Sockets /\ FollowsTheNumbering'
      BY <2>1, NotOfThisNumbering
    <2>3. RealtimeTypes'
      <3>1. 0 \in 0..MaxSeq
        OBVIOUS
      <3>2. QED
        BY <2>1, <2>2, <3>1 DEF RealtimeTypes
    <2>4. Accounted'
      BY <2>1 DEF Accounted
    <2>5. QED
      BY <2>2, <2>3, <2>4
  <1>3. ASSUME NEW s \in Realtime!Seq, Realtime!event_expires(s)
        PROVE  RealtimeInv'
    <2>1. /\ journal[s].till \in 1..(IF there THEN epoch - 1 ELSE epoch)
          /\ journal' = [journal EXCEPT ![s] = Realtime!Unwritten]
          /\ UNCHANGED <<counter, there, epoch, publisher, lost_realti, stray, socket>>
      BY <1>3 DEF Realtime!event_expires
    <2>2. /\ journal' \in [Realtime!Seq -> [of : Nat, till : Nat]]
          /\ \A r \in Realtime!Seq : r # s => journal'[r] = journal[r]
      BY <2>1 DEF RealtimeTypes, Realtime!Unwritten
    <2>3. there => journal[s].till # epoch
      BY <2>1 DEF RealtimeTypes
    <2>4. there => \A r \in Realtime!Seq : Written(r) => Written(r)'
      BY <2>1, <2>2, <2>3 DEF Written
    <2>5. \A r : (Numbered(r) => Numbered(r)') /\ (Reaches(r) => Reaches(r)')
      BY <2>1 DEF Numbered, Reaches, Realtime!Coming
    <2>6. Accounted'
      BY <1>0, <2>1, <2>4, <2>5 DEF Accounted
    <2>7. RealtimeTypes'
      BY <2>1, <2>2 DEF RealtimeTypes
    <2>8. QED
      BY <2>1, <2>5, <2>6, <2>7, StillFollows
  <1>4. CASE Realtime!realtime_event
    <2>1. PICK event \in socket.queue :
            socket' = [socket EXCEPT !.queue = @ \ {event}, !.got = @ \cup {event}]
      BY <1>4 DEF Realtime!realtime_event
    <2>2. socket.at = "live" /\ UNCHANGED <<counter, there, epoch, journal, publisher, lost_realti, stray>>
      BY <1>4 DEF Realtime!realtime_event
    <2>3. /\ socket'.at = socket.at /\ socket'.same = socket.same /\ socket'.in = socket.in
          /\ socket'.since = socket.since /\ socket'.last = socket.last /\ socket'.gap = socket.gap
          /\ socket.got \cup socket.queue \subseteq socket'.got \cup socket'.queue
          /\ socket' \in Sockets
      BY <2>1 DEF RealtimeTypes, Sockets
    <2>4. RealtimeTypes' /\ Accounted'
      BY <2>2, <2>3 DEF RealtimeTypes, Accounted, Numbered, Written
    <2>5. \A t \in 1..counter : Reaches(t) => Reaches(t)'
      BY <2>2, <2>3 DEF Reaches, Realtime!Coming
    <2>6. QED
      BY <2>2, <2>3, <2>4, <2>5, StillFollows
  <1>5. ASSUME NEW since \in 0..MaxSeq, Realtime!connect(since)
        PROVE  RealtimeInv'
    <2>1. PICK same \in BOOLEAN :
            /\ same => there /\ since <= counter
            /\ socket' = [Realtime!Closed EXCEPT !.at = "joined", !.in = TRUE, !.since = since, !.same = same]
      BY <1>5 DEF Realtime!connect
    <2>2. UNCHANGED <<counter, there, epoch, journal, publisher, lost_realti, stray>>
      BY <1>5 DEF Realtime!connect
    <2>3. socket' \in Sockets /\ socket'.at = "joined" /\ socket'.in = TRUE /\ socket'.same = same
          /\ socket'.got = {} /\ socket'.gap = 0
      <3>1. since \in Nat /\ 0 \in 0..MaxSeq
        OBVIOUS
      <3>2. QED
        BY <2>1, <3>1 DEF Realtime!Closed, Sockets
    <2>4. QED
      BY <2>1, <2>2, <2>3 DEF RealtimeTypes, Accounted, Numbered, Written, FollowsTheNumbering
  <1>6. CASE Realtime!connect_first
    <2>1. /\ socket' = [Realtime!Closed EXCEPT !.at = "live", !.in = TRUE]
          /\ UNCHANGED <<counter, there, epoch, journal, publisher, lost_realti, stray>>
      BY <1>6 DEF Realtime!connect_first
    <2>2. socket' \in Sockets /\ socket'.at = "live" /\ socket'.in = TRUE /\ socket'.same = FALSE
      <3>1. 0 \in 0..MaxSeq
        OBVIOUS
      <3>2. QED
        BY <2>1, <3>1 DEF Realtime!Closed, Sockets
    <2>3. QED
      BY <2>1, <2>2 DEF RealtimeTypes, Accounted, Numbered, Written, FollowsTheNumbering
  <1>7. CASE Realtime!replay_counts
    <2>1. socket.at = "joined" /\ UNCHANGED <<counter, there, epoch, journal, publisher, lost_realti, stray>>
      BY <1>7 DEF Realtime!replay_counts
    <2>2. socket' \in Sockets /\ socket'.same = socket.same /\ socket'.since = socket.since
      BY <1>7 DEF Realtime!replay_counts, RealtimeTypes, Sockets
    <2>6. RealtimeTypes' /\ Accounted'
      BY <2>1, <2>2 DEF RealtimeTypes, Accounted, Numbered, Written
    <2>3. CASE Realtime!premier(socket.since, counter) > counter
      <3>1. socket'.at = "live" /\ socket'.in = TRUE
        BY <1>7, <2>3 DEF Realtime!replay_counts, RealtimeTypes, Sockets
      <3>2. socket.since >= counter
        BY <2>3 DEF Realtime!premier, Realtime!Max2, RealtimeTypes, Sockets
      <3>3. \A s : s \notin socket.since + 1..counter
        BY <3>2 DEF RealtimeTypes, Sockets
      <3>4. QED
        BY <2>1, <2>2, <2>6, <3>1, <3>3 DEF FollowsTheNumbering
    <2>4. CASE ~ (Realtime!premier(socket.since, counter) > counter)
      <3>1. socket'.at = "reading" /\ socket'.in = socket.in /\ socket'.last = counter
            /\ socket'.got = socket.got /\ socket'.gap = socket.gap
        BY <1>7, <2>4 DEF Realtime!replay_counts, RealtimeTypes, Sockets
      <3>2. Realtime!premier(socket.since, counter) <= counter
        BY <2>4 DEF Realtime!premier, Realtime!Max2, RealtimeTypes, Sockets
      <3>3. Realtime!premier(socket'.since, socket'.last) <= socket'.last
        BY <2>2, <3>1, <3>2 DEF Realtime!premier, Realtime!Max2
      <3>4. \A s : s \notin counter + 1..counter
        BY DEF RealtimeTypes
      <3>5. counter <= counter
        BY DEF RealtimeTypes
      <3>6. QED
        BY <2>1, <2>2, <2>6, <3>1, <3>3, <3>4, <3>5 DEF FollowsTheNumbering
    <2>5. QED
      BY <2>3, <2>4
  <1>8. CASE Realtime!_catch_up
    <2> DEFINE missed == {s \in Realtime!premier(socket.since, socket.last)..socket.last : journal[s] # Realtime!Unwritten}
               first  == CHOOSE s \in missed : \A t \in missed : s <= t
               caught == {<<s, journal[s].of>> : s \in missed}
    <2>1. /\ socket.at = "reading" /\ UNCHANGED <<counter, there, epoch, journal, publisher, lost_realti, stray>>
          /\ socket' = [socket EXCEPT !.at = "live", !.in = TRUE, !.got = caught,
                           !.gap = IF missed # {} /\ first > socket.since + 1 THEN first ELSE 0]
      BY <1>8 DEF Realtime!_catch_up
    <2>2. \A s \in missed : s \in Realtime!Seq
      BY DEF Realtime!premier, Realtime!Max2, RealtimeTypes, Sockets, Realtime!Seq
    <2>3. missed # {} => first \in missed
      <3> SUFFICES ASSUME missed # {} PROVE first \in missed
        OBVIOUS
      <3>1. missed \in SUBSET Realtime!Seq /\ \A s \in missed : s \in Int
        BY <2>2 DEF Realtime!Seq
      <3>2. IsFiniteSet(Realtime!Seq)
        BY FS_Interval DEF Realtime!Seq
      <3> DEFINE f == [s \in Realtime!Seq |-> s]
      <3>3. IsFiniteSet(missed) /\ \A s \in missed : f[s] = s
        BY <3>1, <3>2, FS_Subset
      <3> HIDE DEF missed, f
      <3>4. \E s \in missed : \A t \in missed : f[s] <= f[t]
        BY <3>1, <3>3, LeastExists
      <3>5. \E s \in missed : \A t \in missed : s <= t
        BY <3>3, <3>4
      <3>6. QED
        BY <3>5
    <2>4. caught \in SUBSET Events /\ (missed # {} => first \in Nat)
      BY <2>2, <2>3 DEF Realtime!Seq, Events, RealtimeTypes
    <2>5. /\ socket' \in Sockets /\ socket'.at = "live" /\ socket'.in = TRUE
          /\ socket'.same = socket.same /\ socket'.since = socket.since
          /\ socket'.got = caught /\ socket'.queue = socket.queue
          /\ socket'.gap = IF missed # {} /\ first > socket.since + 1 THEN first ELSE 0
      <3> HIDE DEF missed, first, caught
      <3>1. QED
        BY <2>1, <2>4 DEF RealtimeTypes, Sockets
    <2>6. RealtimeTypes' /\ Accounted'
      BY <2>1, <2>5 DEF RealtimeTypes, Accounted, Numbered, Written
    <2>7. ASSUME socket.same, NEW s \in socket.since + 1..counter
          PROVE  Told(s)'
      <3>1. /\ socket.last \in Nat /\ socket.since \in Nat /\ counter \in Nat /\ socket.last <= counter
            /\ there /\ epoch > 0 /\ epoch \in Nat
        BY <2>1, <2>7 DEF RealtimeTypes, Sockets, FollowsTheNumbering, Accounted
      <3>2. CASE s > socket.last
        <4>1. Reaches(s) /\ s \in s..counter
          BY <2>1, <2>7, <3>1, <3>2 DEF FollowsTheNumbering
        <4>2. socket.got = {}
          BY <2>1 DEF FollowsTheNumbering
        <4>3. Reaches(s)'
          BY <2>1, <2>5, <4>1, <4>2 DEF Reaches, Realtime!Coming
        <4>4. QED
          BY <2>1, <4>1, <4>3 DEF Told
      <3>3. ASSUME NEW l \in Realtime!premier(socket.since, socket.last)..socket.last, l \in 1..counter
            PROVE  Reaches(l)' \/ (l \in missed /\ (<<l, epoch>> \in caught \/ l \in stray))
        <4>1. l \in lost_realti \/ Written(l) \/ Numbered(l)
          BY <3>1, <3>3 DEF Accounted
        <4>2. CASE l \in lost_realti \/ Numbered(l)
          BY <2>1, <4>2 DEF Reaches, Realtime!Coming, Numbered
        <4>3. CASE Written(l)
          <5>1. l \in missed
            BY <3>1, <4>3 DEF Written, Realtime!Unwritten
          <5>2. QED
            BY <4>3, <5>1 DEF Written
        <4>4. QED
          BY <4>1, <4>2, <4>3
      <3>4. CASE s \in Realtime!premier(socket.since, socket.last)..socket.last
        <4>1. s \in 1..counter /\ s \in s..counter
          BY <3>1
        <4>2. Reaches(s)' \/ s \in stray
          BY <2>1, <2>5, <3>3, <3>4, <4>1 DEF Reaches
        <4>3. QED
          BY <2>1, <4>1, <4>2 DEF Told
      <3>5. CASE s < Realtime!premier(socket.since, socket.last) /\ s <= socket.last
        <4>1. PICK l \in 1..counter : l = socket.last
          BY <3>1, <3>5
        <4>2. l \in Realtime!premier(socket.since, socket.last)..socket.last /\ l \in s..counter
          BY <2>1, <3>1, <3>5, <4>1 DEF FollowsTheNumbering, Realtime!premier, Realtime!Max2
        <4>3. CASE Reaches(l)'
          BY <2>1, <4>2, <4>3 DEF Told
        <4>4. CASE l \in missed
          <5>1. first \in Realtime!premier(socket.since, socket.last)..socket.last /\ missed # {}
            BY <2>3, <4>4
          <5>2. first > s
            BY <3>1, <3>5, <5>1 DEF Realtime!premier, Realtime!Max2
          <5>3. socket'.gap = first
            <6> HIDE DEF missed, first
            <6>1. first \in Int
              BY <5>1
            <6>2. QED
              BY <2>5, <3>1, <5>1, <5>2, <6>1
          <5>4. QED
            BY <5>2, <5>3 DEF Told
        <4>5. QED
          BY <3>3, <4>1, <4>2, <4>3, <4>4
      <3>6. Realtime!premier(socket.since, socket.last) \in Int
        BY <3>1 DEF Realtime!premier, Realtime!Max2
      <3>7. QED
        BY <3>1, <3>2, <3>4, <3>5, <3>6
    <2>8. FollowsTheNumbering'
      BY <2>1, <2>5, <2>7 DEF FollowsTheNumbering
    <2>9. QED
      BY <2>6, <2>8
  <1>9. CASE Realtime!disconnect
    <2>1. socket' = Realtime!Closed /\ UNCHANGED <<counter, there, epoch, journal, publisher, lost_realti, stray>>
      BY <1>9 DEF Realtime!disconnect
    <2>2. socket' \in Sockets /\ socket'.at = "closed" /\ socket'.same = FALSE
      <3>1. 0 \in 0..MaxSeq
        OBVIOUS
      <3>2. QED
        BY <2>1, <3>1 DEF Realtime!Closed, Sockets
    <2>3. QED
      BY <2>1, <2>2 DEF RealtimeTypes, Accounted, Numbered, Written, FollowsTheNumbering
  <1>10. CASE UNCHANGED Realtime!vars
    BY <1>10 DEF Realtime!vars, RealtimeTypes, Accounted, Numbered, Written, FollowsTheNumbering, Told, Reaches, Realtime!Coming
  <1>11. QED
    BY <1>1, <1>2, <1>3, <1>4, <1>5, <1>6, <1>7, <1>8, <1>9, <1>10 DEF Realtime!Next

LEMMA RealtimeInvImplies == RealtimeInv => Realtime!CaughtUpOrTold
  BY DEF RealtimeInv, FollowsTheNumbering, Told, Reaches, Realtime!CaughtUpOrTold

-----------------------------------------------------------------------------
(* The whole *)

\* Every step of the whole is a step of each component, or leaves it alone.
LEMMA StepsOfTheParts ==
  ASSUME [Next]_vars
  PROVE  /\ [Accounts!Next]_(Accounts!vars)
         /\ [Points!Next]_(Points!vars)
         /\ [Subscriptions!Next]_(Subscriptions!vars)
         /\ [GroupCarts!Next]_(GroupCarts!vars)
         /\ [Campaigns!Next]_(Campaigns!vars)
         /\ [Push!Next]_(Push!vars)
         /\ [Realtime!Next]_(Realtime!vars)
         /\ [Calls!Next]_(Calls!vars)
         /\ [Support!Next]_(Support!vars)
         /\ [Tracking!Next]_(Tracking!vars)
         /\ [Social!Next]_(Social!vars)
         /\ [Gamification!Next]_(Gamification!vars)
         /\ [Reviews!Next]_(Reviews!vars)
         /\ [Gateway!Next]_(Gateway!vars)
  <1>1. [Accounts!Next]_(Accounts!vars)
    BY DEF Next, vars, accountsVars, Accounts!vars
  <1>2. [Points!Next]_(Points!vars)
    BY DEF Next, vars, pointsVars, Points!vars
  <1>3. [Subscriptions!Next]_(Subscriptions!vars)
    BY DEF Next, vars, subscriptionsVars, Subscriptions!vars
  <1>4. [GroupCarts!Next]_(GroupCarts!vars)
    BY DEF Next, vars, groupcartVars, GroupCarts!vars
  <1>5. [Campaigns!Next]_(Campaigns!vars)
    BY DEF Next, vars, campaignVars, Campaigns!vars
  <1>6. [Push!Next]_(Push!vars)
    BY DEF Next, vars, pushVars, Push!vars
  <1>7. [Realtime!Next]_(Realtime!vars)
    BY DEF Next, vars, realtimeVars, Realtime!vars
  <1>8. [Calls!Next]_(Calls!vars)
    BY DEF Next, vars, callsVars, Calls!vars
  <1>9. [Support!Next]_(Support!vars)
    BY DEF Next, vars, supportVars, Support!vars
  <1>10. [Tracking!Next]_(Tracking!vars)
    BY DEF Next, vars, trackingVars, Tracking!vars
  <1>11. [Social!Next]_(Social!vars)
    BY DEF Next, vars, socialVars, Social!vars
  <1>12. [Gamification!Next]_(Gamification!vars)
    BY DEF Next, vars, gamificationVars, Gamification!vars
  <1>13. [Reviews!Next]_(Reviews!vars)
    BY DEF Next, vars, reviewsVars, Reviews!vars
  <1>14. [Gateway!Next]_(Gateway!vars)
    BY DEF Next, vars, gatewayVars, Gateway!vars
  <1>15. QED
    BY <1>1, <1>2, <1>3, <1>4, <1>5, <1>6, <1>7, <1>8, <1>9, <1>10, <1>11, <1>12, <1>13, <1>14

LEMMA StartsOfTheParts ==
  Init => /\ Accounts!Init /\ Points!Init /\ Subscriptions!Init
          /\ GroupCarts!Init /\ Campaigns!Init /\ Push!Init
          /\ Realtime!Init /\ Calls!Init /\ Support!Init
          /\ Tracking!Init /\ Social!Init /\ Gamification!Init
          /\ Reviews!Init /\ Gateway!Init
  BY DEF Init

\* A code is not guessed and a session follows its password, however many
\* requests cross on the account (verify, consume, revoke_all_sessions,
\* ProfileUpdateSerializer).
THEOREM AccountsAreGuardedInvariant == Spec => []AccountsAreGuarded
  <1>1. Init => CodesInv /\ SessionsInv
    BY StartsOfTheParts, CodesInit, SessionsInit
  <1>2. CodesInv /\ SessionsInv /\ [Next]_vars => CodesInv' /\ SessionsInv'
    BY StepsOfTheParts, CodesStep, SessionsStep
  <1>3. CodesInv /\ SessionsInv => AccountsAreGuarded
    BY CodesInvImplies, SessionsInvImplies DEF AccountsAreGuarded
  <1>4. QED
    BY <1>1, <1>2, <1>3, PTL DEF Spec

\* No code without points, a journal that explains the balance, a reward once
\* and for what was reached (redeem, expire_stale_points, on_order_delivered).
THEOREM RewardsAreEarnedInvariant == Spec => []RewardsAreEarned
  <1>1. Init => PointsInv /\ GameInv
    BY StartsOfTheParts, PointsInvInit, GameInit
  <1>2. PointsInv /\ GameInv /\ [Next]_vars => PointsInv' /\ GameInv'
    BY StepsOfTheParts, PointsInvStep, GameStep
  <1>3. PointsInv /\ GameInv => RewardsAreEarned
    BY DEF PointsInv, GameInv, RewardsAreEarned
  <1>4. QED
    BY <1>1, <1>2, <1>3, PTL DEF Spec

\* A period runs because it was paid, one request at a time, and a
\* transaction ends as its invoice did (activate_subscription,
\* due_for_renewal, _apply of the gateway).
THEOREM PaidMeansPaidInvariant == Spec => []PaidMeansPaid
  <1>1. Init => SubsInv /\ GatewayInv
    BY StartsOfTheParts, SubsInit, GatewayInvInit
  <1>2. SubsInv /\ GatewayInv /\ [Next]_vars => SubsInv' /\ GatewayInv'
    BY StepsOfTheParts, SubsStep, GatewayInvStep
  <1>3. SubsInv /\ GatewayInv => PaidMeansPaid
    BY SubsInvImplies DEF GatewayInv, PaidMeansPaid
  <1>4. QED
    BY <1>1, <1>2, <1>3, PTL DEF Spec

\* The order of a group holds what its members put in the cart (confirm).
THEOREM OrderIsTheCartInvariant == Spec => []OrderIsTheCart
  <1>1. Init => CartInv
    BY StartsOfTheParts, CartInvInit
  <1>2. CartInv /\ [Next]_vars => CartInv'
    BY StepsOfTheParts, CartInvStep
  <1>3. CartInv => OrderIsTheCart
    BY DEF CartInv, OrderIsTheCart
  <1>4. QED
    BY <1>1, <1>2, <1>3, PTL DEF Spec

\* Places, likes and comments are counted, and a rating reckoned alone is right
\* again (join, leave, toggle_like, add_comment, refresh_rating).
THEOREM CountsAreRealInvariant == Spec => []CountsAreReal
  <1>1. Init => SocialInv /\ ReviewsInv
    BY StartsOfTheParts, SocialInit, ReviewsInit
  <1>2. SocialInv /\ ReviewsInv /\ [Next]_vars => SocialInv' /\ ReviewsInv'
    BY StepsOfTheParts, SocialStep, ReviewsStep
  <1>3. SocialInv /\ ReviewsInv => CountsAreReal
    BY SocialInvImplies, ReviewsInvImplies DEF CountsAreReal
  <1>4. QED
    BY <1>1, <1>2, <1>3, PTL DEF Spec

\* What the desk decided stands, a ticket is dated while it is over, and an
\* order has one active call (decide_complaint, decide_return, answer, place).
THEOREM AnswersStandAlways == Spec => AnswersStand
  <1> DEFINE Decided == complaint \in Support!_COMPLAINT_TERMINAL => complaint' = complaint
             Closed == \A r \in Return :
                         returns[r].status \in {"rejected", "refunded"} => returns'[r] = returns[r]
  <1>1. Init => SupportInv /\ CallsInv
    BY StartsOfTheParts, SupportInit, CallsInit
  <1>2. SupportInv /\ CallsInv /\ [Next]_vars => SupportInv' /\ CallsInv'
    BY StepsOfTheParts, SupportStep, CallsStep
  <1>3. SupportInv /\ [Next]_vars => [Decided]_(Support!vars) /\ [Closed]_(Support!vars)
    BY StepsOfTheParts, SupportStep
  <1>4. SupportInv => (part = "support" => Support!ResolutionIsDated) /\ RefundedIsPaid
    BY DEF SupportInv
  <1>5. CallsInv => (part = "calls" => Calls!OneCallAtATime)
    BY CallsInvImplies
  <1>6. QED
    BY <1>1, <1>2, <1>3, <1>4, <1>5, PTL DEF Spec, AnswersStand, Support!DecisionsAreFinal, RefundedIsPaid

\* A campaign is sent once and as it was scheduled; a device shows a message
\* once (send_campaign, _send_if_still_due, send_push).
THEOREM SentOnceAndAsAgreedAlways == Spec => SentOnceAndAsAgreed
  <1> DEFINE Agreed == listed' # listed /\ inbox' # inbox =>
                         /\ campaign.text = agreed.text
                         /\ agreed.at <= clock
                         /\ campaign.status = "scheduled"
             Theirs == ~ run.busy /\ run'.busy => \A d \in run'.todo : owner[d] = Recipient
  <1>1. Init => CampaignInv /\ PushInv
    BY StartsOfTheParts, CampaignInit, PushInit
  <1>2. CampaignInv /\ PushInv /\ [Next]_vars => CampaignInv' /\ PushInv'
    BY StepsOfTheParts, CampaignStep, PushStep
  <1>3. CampaignInv /\ [Next]_vars => [Agreed]_(Campaigns!vars)
    BY StepsOfTheParts, CampaignStep
  <1>4. PushInv /\ [Next]_vars => [Theirs]_(Push!vars)
    BY StepsOfTheParts, PushStep
  <1>5. CampaignInv => (part = "campaign" => Campaigns!CampaignIsSentOnce)
    BY CampaignInvImplies
  <1>6. PushInv => (part = "push" => Push!ShownOnce)
    BY PushInvImplies
  <1>7. QED
    BY <1>1, <1>2, <1>3, <1>4, <1>5, <1>6, PTL
       DEF Spec, SentOnceAndAsAgreed, Campaigns!TaskSendsWhatWasAgreed, Push!OnlyTheRecipientsDevices

\* A client that comes back can tell what it missed, whatever publications the
\* counter expires under; the rows of a track keep up with the positions shown
\* (publish, replay, record, receive_json).
THEOREM ScreensKeepUpInvariant == Spec => []ScreensKeepUp
  <1>1. Init => RealtimeInv /\ TrackingInv
    BY StartsOfTheParts, RealtimeInit, TrackingInit
  <1>2. RealtimeInv /\ TrackingInv /\ [Next]_vars => RealtimeInv' /\ TrackingInv'
    BY StepsOfTheParts, RealtimeStep, TrackingStep
  <1>3. RealtimeInv /\ TrackingInv => ScreensKeepUp
    BY RealtimeInvImplies, TrackingInvImplies DEF ScreensKeepUp
  <1>4. QED
    BY <1>1, <1>2, <1>3, PTL DEF Spec

=============================================================================
