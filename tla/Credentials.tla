------------------------------ MODULE Credentials -----------------------------
(***************************************************************************)
(* The credentials of one user: AuthService.login, refresh and logout,     *)
(* RefreshTokenService and PinsService, one action per awaited call.       *)
(*                                                                         *)
(* Repository.save writes every column in which the entity read earlier    *)
(* differs from the row: it brings back what the row was at that read.     *)
(***************************************************************************)
EXTENDS Integers, FiniteSets

CONSTANTS
  Locks,      \* what is locked out on failures: the password and the PIN
  Max,        \* MAX_FAILED_ATTEMPTS, MAX_ATTEMPTS
  Secret,     \* the secret of each at the start
  Logins,     \* POST /auth/login
  Verifies,   \* POST /auth/pin/verify
  Sets,       \* POST /auth/pin/set
  Password, Pin,
  Offer,      \* the secret a login, a verification or a set brings
  Refreshes,  \* POST /auth/refresh
  Logouts,    \* POST /auth/logout
  Revocations,\* POST /auth/revoke-all
  Mortal,     \* requests that may end with their process
  Aging,      \* tokens that may pass their expires_at
  None

\* A refresh token is named by the request that issues it.
Tokens == Logins \cup Refreshes
Attempts == Logins \cup Verifies
Requests == Attempts \cup Sets \cup Refreshes \cup Logouts \cup Revocations

ASSUME CredentialsAssumption ==
  /\ Locks = {Password, Pin} /\ Password # Pin
  /\ Max \in [Locks -> Nat \ {0}] /\ DOMAIN Secret = Locks
  /\ None \notin Requests
  /\ Aging \subseteq Tokens /\ Mortal \subseteq Requests
  /\ IsFiniteSet(Requests)
  /\ Logins \cap (Verifies \cup Sets \cup Refreshes \cup Logouts \cup Revocations) = {}
  /\ Verifies \cap (Sets \cup Refreshes \cup Logouts \cup Revocations) = {}
  /\ Sets \cap (Refreshes \cup Logouts \cup Revocations) = {}
  /\ Refreshes \cap (Logouts \cup Revocations) = {}
  /\ Logouts \cap Revocations = {}

VARIABLES
  secret,    \* hashed_password, hashed_pin
  failed,    \* failed_attempts
  locked,    \* TRUE while locked_until lies ahead
  copy,      \* the entity an attempt read: its secret and failed_attempts
  token,     \* rows of refresh_tokens: "absent", "usable" with neither date,
             \* "consumed", "revoked", "spent" with consumed_at and revoked_at
  expired,   \* tokens past expires_at
  origin,    \* the login each token goes back to
  shown,     \* the token a request brings
  read,      \* the tokens a revocation read
  kept,      \* those of them it read with a consumed_at
  failures,  \* attempts answered as wrong, per lock
  pc, answer

account == <<secret, failed, locked, copy, failures>>
tokens == <<token, expired, origin, shown, read, kept>>
vars == <<account, tokens, pc, answer>>

LockOf(q) == IF q \in Logins THEN Password ELSE Pin

Init ==
  /\ secret = Secret
  /\ failed = [k \in Locks |-> 0]
  /\ locked = [k \in Locks |-> FALSE]
  /\ copy = [q \in Attempts |-> [secret |-> None, failed |-> 0]]
  /\ token = [t \in Tokens |-> "absent"]
  /\ expired = {}
  /\ origin = [t \in Tokens |-> None]
  /\ shown = [q \in Requests |-> None]
  /\ read = [q \in Requests |-> {}]
  /\ kept = [q \in Requests |-> {}]
  /\ failures = [k \in Locks |-> 0]
  /\ pc = [q \in Requests |-> "begin"]
  /\ answer = [q \in Requests |-> "none"]

Goto(q, where) == pc' = [pc EXCEPT ![q] = where]
Answer(q, what) ==
  /\ answer' = [answer EXCEPT ![q] = what]
  /\ Goto(q, "done")

-------------------------------------------------------------------------------
(* login up to its tokens, and verifyPin *)

ReadAccount(q) ==
  /\ pc[q] = "begin"
  /\ \/ /\ locked[LockOf(q)]
        /\ Answer(q, "locked")
        /\ UNCHANGED copy
     \/ /\ ~locked[LockOf(q)]
        /\ copy' = [copy EXCEPT ![q] = [secret |-> secret[LockOf(q)], failed |-> failed[LockOf(q)]]]
        /\ Goto(q, "compare")
        /\ UNCHANGED answer
  /\ UNCHANGED <<secret, failed, locked, failures, tokens>>

\* save(entity): the secret as it was read is written with the rest.
SaveAccount(q, count, lock) ==
  LET k == LockOf(q) IN
  /\ secret' = [secret EXCEPT ![k] = copy[q].secret]
  /\ failed' = [failed EXCEPT ![k] = count]
  /\ locked' = [locked EXCEPT ![k] = lock]

\* Faulty variant: off by one.
LocksOutEarly(q, count) == count >= Max[LockOf(q)] - 1

LocksOut(q, count) == count >= Max[LockOf(q)]

CompareWrong(q) ==
  /\ pc[q] = "compare"
  /\ Offer[q] # copy[q].secret
  /\ LET count == copy[q].failed + 1 IN SaveAccount(q, count, LocksOut(q, count))
  /\ failures' = [failures EXCEPT ![LockOf(q)] = @ + 1]
  /\ Answer(q, "wrong")
  /\ UNCHANGED <<copy, tokens>>

CompareRight(q) ==
  /\ pc[q] = "compare"
  /\ Offer[q] = copy[q].secret
  /\ IF copy[q].failed > 0 THEN SaveAccount(q, 0, FALSE) ELSE UNCHANGED <<secret, failed, locked>>
  /\ \/ q \in Logins /\ Goto(q, "store") /\ UNCHANGED answer
     \/ q \in Verifies /\ Answer(q, "right")
  /\ UNCHANGED <<copy, failures, tokens>>

\* setPin on an existing row: hash, then read and save.
SetPin(q) ==
  /\ pc[q] = "begin"
  /\ secret' = [secret EXCEPT ![Pin] = Offer[q]]
  /\ failed' = [failed EXCEPT ![Pin] = 0]
  /\ locked' = [locked EXCEPT ![Pin] = FALSE]
  /\ Answer(q, "set")
  /\ UNCHANGED <<copy, failures, tokens>>

\* 15 minutes pass; failed_attempts stays.
LockEnds(k) ==
  /\ locked[k]
  /\ locked' = [locked EXCEPT ![k] = FALSE]
  /\ UNCHANGED <<secret, failed, copy, failures, tokens, pc, answer>>

-------------------------------------------------------------------------------
(* refresh, logout, revoke-all *)

\* generateTokens: a new jti, stored before it is sent.
Store(q) ==
  /\ pc[q] = "store"
  /\ token' = [token EXCEPT ![q] = "usable"]
  /\ origin' = [origin EXCEPT ![q] = IF q \in Logins THEN q ELSE origin[shown[q]]]
  /\ Answer(q, "tokens")
  /\ UNCHANGED <<account, expired, shown, read, kept>>

\* The cookie a client has: a token it was sent.
Sent == {t \in Tokens : answer[t] = "tokens"}
Live(t) == token[t] = "usable" /\ t \notin expired

\* Faulty variant: the deprecated consume reads before it writes, so that two
\* requests consume one token.
ConsumeTwice(r) ==
  /\ pc[r] = "begin"
  /\ \E t \in Sent :
       /\ token[t] \in {"usable", "consumed"} /\ t \notin expired
       /\ shown' = [shown EXCEPT ![r] = t]
       /\ token' = [token EXCEPT ![t] = "consumed"]
  /\ Goto(r, "store")
  /\ UNCHANGED <<account, expired, origin, read, kept, answer>>

\* consumeAtomic: one UPDATE, conditional on the row.
Consume(r) ==
  /\ pc[r] = "begin"
  /\ \E t \in Sent :
       /\ Live(t)
       /\ shown' = [shown EXCEPT ![r] = t]
       /\ token' = [token EXCEPT ![t] = "consumed"]
  /\ Goto(r, "store")
  /\ UNCHANGED <<account, expired, origin, read, kept, answer>>

\* No row affected, or JwtService.verify refused a token past its time.
ConsumeNothing(r) ==
  /\ pc[r] = "begin"
  /\ \/ /\ \E t \in Sent : ~Live(t) /\ shown' = [shown EXCEPT ![r] = t]
        /\ Goto(r, "examine")
        /\ UNCHANGED answer
     \/ /\ Sent \cap expired # {}
        /\ Answer(r, "refused")
        /\ UNCHANGED shown
  /\ UNCHANGED <<account, token, expired, origin, read, kept>>

\* The tokens with a consumed_at, revoked or not.
Used == {t \in Tokens : token[t] \in {"consumed", "spent"}}

\* A consumed token was used before: its family is revoked.
Examine(r) ==
  /\ pc[r] = "examine"
  /\ \/ shown[r] \in Used /\ Goto(r, "family") /\ UNCHANGED answer
     \/ shown[r] \notin Used /\ Answer(r, "refused")
  /\ UNCHANGED <<account, tokens>>

\* Faulty variant: only the token that came back.
FamilyReadOne(q) ==
  /\ pc[q] = "family"
  /\ read' = [read EXCEPT ![q] = {shown[q]}]
  /\ Goto(q, "revoke")
  /\ UNCHANGED <<account, token, expired, origin, shown, kept, answer>>

\* revokeAllForUser: the tokens with neither date.
FamilyRead(q) ==
  /\ pc[q] = "family"
  /\ read' = [read EXCEPT ![q] = {t \in Tokens : token[t] = "usable"}]
  /\ Goto(q, "revoke")
  /\ UNCHANGED <<account, token, expired, origin, shown, kept, answer>>

RevokeAll(q) ==
  /\ q \in Revocations
  /\ pc[q] = "begin"
  /\ Goto(q, "family")
  /\ UNCHANGED <<account, tokens, answer>>

LogoutRead(q) ==
  /\ q \in Logouts
  /\ pc[q] = "begin"
  /\ \/ /\ \E t \in Sent \ expired :
             /\ shown' = [shown EXCEPT ![q] = t]
             /\ read' = [read EXCEPT ![q] = {t}]
             /\ kept' = [kept EXCEPT ![q] = {t} \cap Used]
        /\ Goto(q, "revoke")
        /\ UNCHANGED answer
     \/ /\ Sent \cap expired # {}
        /\ Answer(q, "out")
        /\ UNCHANGED <<shown, read, kept>>
  /\ UNCHANGED <<account, token, expired, origin>>

\* Faulty variant: save without revokedAt, which only brings back the old row.
RevokeUnmarked(q) ==
  /\ pc[q] = "revoke"
  /\ token' = [t \in Tokens |-> IF t \in read[q] THEN "usable" ELSE token[t]]
  /\ Answer(q, IF q \in Logouts THEN "out" ELSE "revoked")
  /\ UNCHANGED <<account, expired, origin, shown, read, kept>>

\* save(tokens): revoked_at is set, and consumed_at becomes what was read, or
\* stays what it is where save's own SELECT came before that changed.
Revoke(q) ==
  /\ pc[q] = "revoke"
  /\ \E used \in SUBSET read[q] :
       /\ kept[q] \cap Used \subseteq used /\ used \subseteq kept[q] \cup Used
       /\ token' = [t \in Tokens |-> IF t \notin read[q] THEN token[t]
                                     ELSE IF t \in used THEN "spent" ELSE "revoked"]
  /\ Answer(q, IF q \in Logouts THEN "out" ELSE "revoked")
  /\ UNCHANGED <<account, expired, origin, shown, read, kept>>

Expire(t) ==
  /\ token[t] # "absent" /\ t \notin expired
  /\ expired' = expired \cup {t}
  /\ UNCHANGED <<account, token, origin, shown, read, kept, pc, answer>>

\* The process ends, or a refresh finds its user inactive.
Die(q) ==
  /\ pc[q] \notin {"begin", "done"}
  /\ Answer(q, "lost")
  /\ UNCHANGED <<account, tokens>>

Next ==
  \/ \E q \in Attempts : ReadAccount(q) \/ CompareWrong(q) \/ CompareRight(q)
  \/ \E q \in Sets : SetPin(q)
  \/ \E k \in Locks : LockEnds(k)
  \/ \E q \in Logins : Store(q)
  \/ \E q \in Refreshes : Consume(q) \/ ConsumeNothing(q) \/ Examine(q) \/ Store(q)
  \/ \E q \in Refreshes \cup Revocations : FamilyRead(q)
  \/ \E q \in Logouts \cup Revocations : LogoutRead(q) \/ RevokeAll(q)
  \/ \E q \in Refreshes \cup Logouts \cup Revocations : Revoke(q)
  \/ \E t \in Aging : Expire(t)
  \/ \E q \in Mortal : Die(q)

Spec == Init /\ [][Next]_vars

-------------------------------------------------------------------------------

States == {"begin", "compare", "store", "examine", "family", "revoke", "done"}
Answers == {"none", "locked", "wrong", "right", "set", "tokens", "refused", "revoked", "out", "lost"}

\* The types; a stored token goes back to a login.
TypeOK ==
  /\ DOMAIN secret = Locks
  /\ failed \in [Locks -> Nat] /\ locked \in [Locks -> BOOLEAN] /\ failures \in [Locks -> Nat]
  /\ DOMAIN copy = Attempts /\ \A q \in Attempts : copy[q].failed \in Nat
  /\ token \in [Tokens -> {"absent", "usable", "consumed", "revoked", "spent"}]
  /\ expired \subseteq Tokens
  /\ origin \in [Tokens -> Logins \cup {None}]
  /\ shown \in [Requests -> Tokens \cup {None}]
  /\ read \in [Requests -> SUBSET Tokens] /\ kept \in [Requests -> SUBSET Tokens]
  /\ pc \in [Requests -> States]
  /\ answer \in [Requests -> Answers]

\* However attempts overwrite each other's counts, a lock-out stands for as
\* many failures as the limit: nobody is locked out for less.
LockedOnlyAfterFailures ==
  \A k \in Locks : locked[k] => failures[k] >= Max[k]

\* Rotation: whatever requests bring the same cookie at once, of the tokens
\* that go back to one login at most one is usable.
OneUsablePerLogin ==
  \A t, u \in Tokens :
    token[t] = "usable" /\ token[u] = "usable" /\ origin[t] = origin[u] => t = u

\* A token consumed or revoked never becomes usable, though a stale save may
\* take its consumed_at away.
DeadStaysDead ==
  [][\A t \in Tokens : token[t] \in {"consumed", "revoked", "spent"} => token'[t] # "usable"]_vars

\* Reuse: once the request that brought a consumed token is answered, every
\* token that was usable when the reuse was found is not.
ReuseRevokesFamily ==
  \A r \in Refreshes, t \in Tokens :
    [](pc[r] = "family" /\ token[t] = "usable"
         => [](answer[r] = "revoked" => token[t] # "usable"))
===============================================================================
