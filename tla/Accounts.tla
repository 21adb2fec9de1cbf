------------------------------ MODULE Accounts ------------------------------
(***************************************************************************)
(* One account (apps/accounts): the codes it is sent, its password and the *)
(* sessions it opened.                                                     *)
(*                                                                         *)
(* consume holds the row of the code.  A session is opened in two steps, a *)
(* proof (password or code) and then issue_tokens, which holds nothing; a  *)
(* revocation is made of the list of the tokens and, later, of the moment  *)
(* it takes effect (the commit of the transaction, or the end of the loop  *)
(* of a block).                                                            *)
(***************************************************************************)
EXTENDS Naturals, FiniteSets

CONSTANTS
  Code,                              \* codes issued, in order: 1 .. n
  Session,                           \* refresh tokens: 1 .. n
  ACCOUNT_VERIFICATION_MAX_ATTEMPTS,
  MaxSecret                          \* bound: passwords the account has had

VARIABLES
  account,     \* verified, active, secret (number of its password, 0 for none)
  codes,       \* rows of VerificationCode
  compared,    \* guesses that were compared with a code
  worked,      \* times a code was accepted
  opening,     \* proof a session about to be opened rests on, 0 for none
  sessions,    \* OutstandingToken: its status, and the password it rests on
  revoking,    \* tokens a revocation has listed, by what asked for it
  profile,     \* the row a profile update has read, with none while there is none
  rewritten    \* such an update has put back a password or a flag it had read

vars == <<account, codes, compared, worked, opening, sessions, revoking, profile, rewritten>>

VerificationPurpose == {"account_verification", "password_reset"}

\* live: not consumed nor retired.
VerificationCode ==
  [purpose : VerificationPurpose, issued : BOOLEAN, live : BOOLEAN,
   expired : BOOLEAN, attempts : 0 .. ACCOUNT_VERIFICATION_MAX_ATTEMPTS]

OutstandingToken == [status : {"none", "live", "revoked"}, secret : 0 .. MaxSecret, late : BOOLEAN]

Live(purpose) == {c \in Code : codes[c].live /\ codes[c].purpose = purpose}
Usable(purpose) == {c \in Live(purpose) : ~ codes[c].expired}

Idle == [listed |-> {}, busy |-> FALSE]
PasswordRevocation == {"change", "reset"}

-----------------------------------------------------------------------------
(* Codes *)

\* A code younger than the cooldown is kept; otherwise the former ones are
\* retired for a new one.
issue(purpose) ==
  \/ Usable(purpose) # {} /\ UNCHANGED codes
  \/ \E c \in Code :
       /\ ~ codes[c].issued
       /\ \A d \in Code : d < c => codes[d].issued
       /\ codes' = [d \in Code |->
            IF d = c
            THEN [purpose |-> purpose, issued |-> TRUE, live |-> TRUE, expired |-> FALSE, attempts |-> 0]
            ELSE IF d \in Live(purpose) THEN [codes[d] EXCEPT !.live = FALSE] ELSE codes[d]]

register ==
  /\ account.secret = 0
  /\ account' = [account EXCEPT !.secret = 1]
  /\ issue("account_verification")
  /\ sessions' = [sessions EXCEPT ![1] = [status |-> "live", secret |-> 1, late |-> FALSE]]
  /\ UNCHANGED <<compared, worked, opening, revoking, profile, rewritten>>

\* ResendVerificationView: nothing for an account that is verified.
resend ==
  /\ account.secret > 0 /\ ~ account.verified
  /\ issue("account_verification")
  /\ UNCHANGED <<account, compared, worked, opening, sessions, revoking, profile, rewritten>>

\* PasswordResetRequestView: nothing for an account that is blocked.
reset_request ==
  /\ account.secret > 0 /\ account.active
  /\ issue("password_reset")
  /\ UNCHANGED <<account, compared, worked, opening, sessions, revoking, profile, rewritten>>

code_expires(c) ==
  /\ codes[c].live /\ ~ codes[c].expired
  /\ codes' = [codes EXCEPT ![c].expired = TRUE]
  /\ UNCHANGED <<account, compared, worked, opening, sessions, revoking, profile, rewritten>>

\* Mutant: the failed attempt is rolled back with the request that made it.
fails_RolledBack(c) == codes' = codes

\* A wrong guess is written before the request is refused; the last one
\* allowed closes the code.
fails(c) ==
  codes' = [codes EXCEPT ![c].attempts = @ + 1,
                         ![c].live = codes[c].attempts + 1 < ACCOUNT_VERIFICATION_MAX_ATTEMPTS]

\* consume, when the guess is wrong.
wrong_guess(purpose) ==
  \E c \in Usable(purpose) :
    /\ compared[c] <= ACCOUNT_VERIFICATION_MAX_ATTEMPTS
    /\ fails(c)
    /\ compared' = [compared EXCEPT ![c] = @ + 1]
    /\ UNCHANGED <<account, worked, opening, sessions, revoking, profile, rewritten>>

\* consume, when the guess is right: the code and what it allows, together.
consume(purpose) ==
  \E c \in Usable(purpose) :
    /\ codes' = [codes EXCEPT ![c].live = FALSE]
    /\ compared' = [compared EXCEPT ![c] = @ + 1]
    /\ worked' = [worked EXCEPT ![c] = @ + 1]

-----------------------------------------------------------------------------
(* Sessions *)

Unused(s) == sessions[s].status = "none" /\ opening[s] = 0

\* The next session; they are numbered in the order they are asked for.
Free(s) == Unused(s) /\ \A t \in Session : t < s => ~ Unused(t)

\* LoginView: authenticate ...
login(s) ==
  /\ Free(s)
  /\ account.secret > 0 /\ account.active
  /\ opening' = [opening EXCEPT ![s] = account.secret]
  /\ UNCHANGED <<account, codes, compared, worked, sessions, revoking, profile, rewritten>>

confirm_account(s) ==
  /\ Free(s)
  /\ consume("account_verification")
  /\ account' = [account EXCEPT !.verified = TRUE]
  /\ opening' = [opening EXCEPT ![s] = account.secret]
  /\ UNCHANGED <<sessions, revoking, profile, rewritten>>

\* ... and issue_tokens, with nothing looked at again.
issue_tokens(s) ==
  /\ opening[s] > 0
  /\ opening' = [opening EXCEPT ![s] = 0]
  /\ sessions' = [sessions EXCEPT ![s] =
       [status |-> "live", secret |-> opening[s],
        late |-> opening[s] # account.secret \/ \E k \in DOMAIN revoking : revoking[k].busy]]
  /\ UNCHANGED <<account, codes, compared, worked, revoking, profile, rewritten>>

logout(s) ==
  /\ sessions[s].status = "live"
  /\ sessions' = [sessions EXCEPT ![s].status = "revoked"]
  /\ UNCHANGED <<account, codes, compared, worked, opening, revoking, profile, rewritten>>

revoke_all_sessions(listed) ==
  [s \in Session |-> IF s \in listed THEN [sessions[s] EXCEPT !.status = "revoked"] ELSE sessions[s]]

Listed == {s \in Session : sessions[s].status = "live"}

\* The row of the account is held from the new password to the commit.
PasswordIsFree == \A k \in PasswordRevocation : ~ revoking[k].busy

\* ChangePasswordView, authenticated: the transaction lists the tokens ...
change_password(s) ==
  /\ sessions[s].status = "live" /\ account.active /\ PasswordIsFree
  /\ account.secret < MaxSecret
  /\ revoking' = [revoking EXCEPT !["change"] = [listed |-> Listed, busy |-> TRUE]]
  /\ UNCHANGED <<account, codes, compared, worked, opening, sessions, profile, rewritten>>

\* ... and commits: a new password, the tokens listed closed, a new session.
password_changed(s) ==
  /\ revoking["change"].busy /\ Free(s)
  /\ account' = [account EXCEPT !.secret = @ + 1]
  /\ sessions' = [revoke_all_sessions(revoking["change"].listed) EXCEPT ![s] =
       [status |-> "live", secret |-> account.secret + 1, late |-> FALSE]]
  /\ revoking' = [revoking EXCEPT !["change"] = Idle]
  /\ UNCHANGED <<codes, compared, worked, opening, profile, rewritten>>

\* reset_password: the code, the password and the revocation are one
\* transaction, which holds the code; the session is opened after it.
reset_password ==
  /\ PasswordIsFree
  /\ account.secret < MaxSecret
  /\ consume("password_reset")
  /\ revoking' = [revoking EXCEPT !["reset"] = [listed |-> Listed, busy |-> TRUE]]
  /\ UNCHANGED <<account, opening, sessions, profile, rewritten>>

password_reset(s) ==
  /\ revoking["reset"].busy /\ Free(s)
  /\ account' = [account EXCEPT !.secret = @ + 1, !.verified = TRUE]
  /\ opening' = [opening EXCEPT ![s] = account.secret + 1]
  /\ sessions' = revoke_all_sessions(revoking["reset"].listed)
  /\ revoking' = [revoking EXCEPT !["reset"] = Idle]
  /\ UNCHANGED <<codes, compared, worked, profile, rewritten>>

\* CustomerViewSet.block: the flag first, then the sessions.
block ==
  /\ account.secret > 0 /\ ~ revoking["block"].busy
  /\ account' = [account EXCEPT !.active = FALSE]
  /\ revoking' = [revoking EXCEPT !["block"] = [listed |-> Listed, busy |-> TRUE]]
  /\ UNCHANGED <<codes, compared, worked, opening, sessions, profile, rewritten>>

sessions_closed ==
  /\ revoking["block"].busy
  /\ sessions' = revoke_all_sessions(revoking["block"].listed)
  /\ revoking' = [revoking EXCEPT !["block"] = Idle]
  /\ UNCHANGED <<account, codes, compared, worked, opening, profile, rewritten>>

unblock ==
  /\ ~ account.active
  /\ account' = [account EXCEPT !.active = TRUE]
  /\ UNCHANGED <<codes, compared, worked, opening, sessions, revoking, profile, rewritten>>

-----------------------------------------------------------------------------
NoProfile == [verified |-> FALSE, active |-> FALSE, secret |-> 0]

\* MeView.patch: the row of the account was read with the token ...
me_reads ==
  /\ \E s \in Session : sessions[s].status = "live"
  /\ account.active /\ profile = NoProfile
  /\ profile' = account
  /\ UNCHANGED <<account, codes, compared, worked, opening, sessions, revoking, rewritten>>

\* ... and the serializer saves all its columns, the password among them; it
\* waits for a transaction that holds the row.
patch ==
  /\ profile # NoProfile /\ PasswordIsFree
  /\ account' = profile
  /\ rewritten' = (rewritten \/ account # profile)
  /\ profile' = NoProfile
  /\ UNCHANGED <<codes, compared, worked, opening, sessions, revoking>>

Init ==
  /\ account = [verified |-> FALSE, active |-> TRUE, secret |-> 0]
  /\ codes = [c \in Code |-> [purpose |-> "account_verification", issued |-> FALSE, live |-> FALSE, expired |-> FALSE, attempts |-> 0]]
  /\ compared = [c \in Code |-> 0]
  /\ worked = [c \in Code |-> 0]
  /\ opening = [s \in Session |-> 0]
  /\ sessions = [s \in Session |-> [status |-> "none", secret |-> 0, late |-> FALSE]]
  /\ revoking = [k \in {"change", "reset", "block"} |-> Idle]
  /\ profile = NoProfile
  /\ rewritten = FALSE

Next ==
  \/ register \/ resend \/ reset_request
  \/ \E c \in Code : code_expires(c)
  \/ \E purpose \in VerificationPurpose : wrong_guess(purpose)
  \/ \E s \in Session :
       \/ login(s) \/ confirm_account(s) \/ issue_tokens(s) \/ logout(s)
       \/ change_password(s) \/ password_changed(s) \/ password_reset(s)
  \/ reset_password
  \/ block \/ sessions_closed \/ unblock
  \/ me_reads \/ patch

Spec == Init /\ [][Next]_vars

-----------------------------------------------------------------------------
(* Properties *)

\* A code is accepted once at most, only the last one sent for its purpose can
\* be, and no more guesses than allowed are ever compared with it.
CodesCannotBeGuessed ==
  /\ \A c \in Code : codes[c] \in VerificationCode
  /\ \A c \in Code : worked[c] <= 1 /\ compared[c] <= ACCOUNT_VERIFICATION_MAX_ATTEMPTS
  /\ \A purpose \in VerificationPurpose : Cardinality(Live(purpose)) <= 1

\* After a change or a reset of the password the sessions opened with the
\* former one are closed, except those whose request had proved the former
\* password and received its tokens once the revocation had made its list, and
\* unless a profile update has put a former row back.
SessionsFollowPassword ==
  \A s \in Session :
    /\ sessions[s] \in OutstandingToken
    /\ sessions[s].status = "live" /\ ~ sessions[s].late /\ ~ rewritten =>
         sessions[s].secret = account.secret

\* ProfileUpdateSerializer: "Deux champs, et pas un de plus": the update of a
\* profile changes neither the password nor the closing of the account.
ProfileUpdateWritesTwoFields ==
  [][profile # NoProfile /\ profile' = NoProfile => account' = account]_vars
=============================================================================
