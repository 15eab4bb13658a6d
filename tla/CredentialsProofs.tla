--------------------------- MODULE CredentialsProofs ---------------------------
(***************************************************************************)
(* Credentials for every number of requests, every limit and every token   *)
(* that may expire: the counters behind a lock-out, and the rotation of    *)
(* refresh tokens.                                                         *)
(***************************************************************************)
EXTENDS Credentials, TLAPS

\* No count, stored or read, runs ahead of the failures there were.
Counted ==
  /\ \A k \in Locks : failed[k] <= failures[k]
  /\ \A q \in Attempts : copy[q].failed <= failures[LockOf(q)]
  /\ LockedOnlyAfterFailures

\* A token is stored by the last step of its request, and who shows or has read
\* one names one that is stored.
Stored ==
  /\ \A t \in Tokens :
       /\ pc[t] # "done" => token[t] = "absent" /\ answer[t] = "none"
       /\ answer[t] = "tokens" => token[t] # "absent"
       /\ token[t] # "absent" => origin[t] # None
  /\ \A q \in Requests : shown[q] # None => token[shown[q]] # "absent"
  /\ \A q \in Requests : \A t \in read[q] : token[t] # "absent"
  /\ \A l \in Logins, t \in Tokens : origin[t] = l => token[l] # "absent"

\* Who is about to store the successor of a token.
Renewing(r) == r \in Refreshes /\ pc[r] = "store"

\* A request about to store a successor is the only one for its login, and no
\* token of that login is usable until it does.
Rotation ==
  /\ \A r \in Refreshes : pc[r] \in {"store", "examine"} => shown[r] # None
  /\ \A r \in Refreshes, t \in Tokens :
       Renewing(r) /\ origin[t] = origin[shown[r]] => token[t] # "usable"
  /\ \A r, s \in Refreshes :
       Renewing(r) /\ Renewing(s) /\ origin[shown[r]] = origin[shown[s]] => r = s
  /\ OneUsablePerLogin

IInv == TypeOK /\ Counted /\ Stored /\ Rotation

\* A request is of one kind, and locks by its kind.
LEMMA Kinds ==
  /\ Tokens \subseteq Requests /\ Attempts \subseteq Requests
  /\ Logins \subseteq Tokens /\ Refreshes \subseteq Tokens
  /\ \A q \in Attempts : LockOf(q) \in Locks
  /\ \A q \in Requests : q # None
  /\ Logins \cap Refreshes = {}
BY CredentialsAssumption DEF Tokens, Attempts, Requests, LockOf

LEMMA InitIInv == Init => IInv
<1> SUFFICES ASSUME Init PROVE IInv
  OBVIOUS
<1>1. TypeOK
  BY CredentialsAssumption DEF Init, TypeOK, States, Answers
<1>2. Counted
  BY Kinds, CredentialsAssumption DEF Init, Counted, LockedOnlyAfterFailures
<1>3. Stored
  BY Kinds DEF Init, Stored
<1>4. Rotation
  BY Kinds DEF Init, Rotation, Renewing, OneUsablePerLogin, Tokens
<1> QED BY <1>1, <1>2, <1>3, <1>4 DEF IInv

(***************************************************************************)
(* Steps on the account: the tokens stay, and no request on its way to one *)
(* is answered.                                                            *)
(***************************************************************************)
LEMMA TokensStay ==
  ASSUME IInv, UNCHANGED tokens, NEW q \in Requests, NEW w, NEW a,
         pc' = [pc EXCEPT ![q] = w], answer' = [answer EXCEPT ![q] = a],
         IF w = "done" THEN a # "tokens" ELSE a = answer[q], pc[q] # "done",
         ~(q \in Refreshes /\ w = "store"),
         q \in Refreshes /\ w = "examine" => shown[q] # None
  PROVE  Stored' /\ Rotation'
<1> USE DEF IInv, TypeOK, tokens
<1>1. Stored'
  BY Kinds DEF Stored
<1>2. \A r \in Refreshes : Renewing(r)' => Renewing(r)
  BY Kinds DEF Renewing, Requests
<1>3. Rotation'
  BY <1>2, Kinds DEF Rotation, OneUsablePerLogin, Requests
<1> QED BY <1>1, <1>3

LEMMA ReadAccountKeeps == ASSUME IInv, NEW q \in Attempts, ReadAccount(q) PROVE IInv'
<1> USE DEF IInv
<1>1. q \in Requests /\ LockOf(q) \in Locks /\ pc[q] = "begin"
  BY Kinds DEF ReadAccount
<1>2. TypeOK'
  BY <1>1 DEF TypeOK, ReadAccount, Goto, Answer, States, Answers, tokens
<1>3. Counted'
  BY <1>1, Kinds DEF TypeOK, Counted, LockedOnlyAfterFailures, ReadAccount, tokens
<1>4. q \notin Refreshes
  BY CredentialsAssumption DEF Attempts
<1>5. Stored' /\ Rotation'
  <2>1. CASE Answer(q, "locked")
    BY <1>1, <1>4, <2>1, TokensStay DEF ReadAccount, Goto, Answer
  <2>2. CASE Goto(q, "compare") /\ UNCHANGED answer
    <3>1. answer' = [answer EXCEPT ![q] = answer[q]]
      BY <2>2 DEF TypeOK
    <3> QED BY <1>1, <1>4, <2>2, <3>1, TokensStay DEF ReadAccount, Goto
  <2> QED BY <2>1, <2>2 DEF ReadAccount
<1> QED BY <1>2, <1>3, <1>5

LEMMA CompareWrongKeeps == ASSUME IInv, NEW q \in Attempts, CompareWrong(q) PROVE IInv'
<1> USE DEF IInv
<1>1. q \in Requests /\ LockOf(q) \in Locks /\ pc[q] = "compare"
  BY Kinds DEF CompareWrong
<1>2. TypeOK'
  BY <1>1, CredentialsAssumption
     DEF TypeOK, CompareWrong, SaveAccount, LocksOut, Goto, Answer, States, Answers, tokens
<1>3. Counted'
  <2>1. \A k \in Locks : failures[k] <= failures'[k]
    BY <1>1 DEF TypeOK, CompareWrong
  <2>2. /\ copy[q].failed + 1 <= failures'[LockOf(q)]
        /\ LocksOut(q, copy[q].failed + 1) => failures'[LockOf(q)] >= Max[LockOf(q)]
    BY <1>1, CredentialsAssumption DEF TypeOK, Counted, CompareWrong, LocksOut
  <2>3. \A k \in Locks : failed'[k] <= failures'[k]
    BY <1>1, <2>1, <2>2 DEF TypeOK, Counted, CompareWrong, SaveAccount
  <2>4. \A p \in Attempts : copy'[p].failed <= failures'[LockOf(p)]
    BY <2>1, Kinds DEF TypeOK, Counted, CompareWrong
  <2>5. LockedOnlyAfterFailures'
    BY <1>1, <2>1, <2>2, CredentialsAssumption
       DEF TypeOK, Counted, LockedOnlyAfterFailures, CompareWrong, SaveAccount
  <2> QED BY <2>3, <2>4, <2>5 DEF Counted
<1>4. q \notin Refreshes
  BY CredentialsAssumption DEF Attempts
<1>5. Stored' /\ Rotation'
  BY <1>1, <1>4, TokensStay DEF CompareWrong, Goto, Answer, TypeOK
<1> QED BY <1>2, <1>3, <1>5

LEMMA CompareRightKeeps == ASSUME IInv, NEW q \in Attempts, CompareRight(q) PROVE IInv'
<1> USE DEF IInv
<1>1. q \in Requests /\ LockOf(q) \in Locks /\ pc[q] = "compare"
  BY Kinds DEF CompareRight
<1>2. TypeOK'
  <2>1. pc' \in [Requests -> States] /\ answer' \in [Requests -> Answers]
    BY <1>1 DEF TypeOK, CompareRight, Goto, Answer, States, Answers
  <2>2. /\ DOMAIN secret' = Locks
        /\ failed' \in [Locks -> Nat] /\ locked' \in [Locks -> BOOLEAN]
    <3>1. CASE copy[q].failed > 0
      <4>1. SaveAccount(q, 0, FALSE)
        BY <3>1 DEF CompareRight
      <4> QED BY <1>1, <4>1 DEF TypeOK, SaveAccount
    <3>2. CASE ~(copy[q].failed > 0)
      BY <3>2 DEF TypeOK, CompareRight
    <3> QED BY <3>1, <3>2
  <2> QED BY <2>1, <2>2 DEF TypeOK, CompareRight, tokens
<1>3. Counted'
  BY <1>1, Kinds DEF TypeOK, Counted, LockedOnlyAfterFailures, CompareRight, SaveAccount, tokens
<1>4. q \notin Refreshes
  BY CredentialsAssumption DEF Attempts
<1>5. Stored' /\ Rotation'
  <2>1. CASE Answer(q, "right")
    BY <1>1, <1>4, <2>1, TokensStay DEF CompareRight, Goto, Answer
  <2>2. CASE Goto(q, "store") /\ UNCHANGED answer
    <3>1. answer' = [answer EXCEPT ![q] = answer[q]]
      BY <2>2 DEF TypeOK
    <3> QED BY <1>1, <1>4, <2>2, <3>1, TokensStay DEF CompareRight, Goto
  <2> QED BY <2>1, <2>2 DEF CompareRight
<1> QED BY <1>2, <1>3, <1>5

LEMMA SetPinKeeps == ASSUME IInv, NEW q \in Sets, SetPin(q) PROVE IInv'
<1> USE DEF IInv
<1>1. q \in Requests /\ Pin \in Locks /\ pc[q] = "begin" /\ q \notin Refreshes
  BY CredentialsAssumption DEF SetPin, Requests
<1>2. TypeOK'
  BY <1>1 DEF TypeOK, SetPin, Goto, Answer, States, Answers, tokens
<1>3. Counted'
  BY <1>1, Kinds DEF TypeOK, Counted, LockedOnlyAfterFailures, SetPin
<1>4. Stored' /\ Rotation'
  BY <1>1, TokensStay DEF SetPin, Goto, Answer, TypeOK
<1> QED BY <1>2, <1>3, <1>4

LEMMA LockEndsKeeps == ASSUME IInv, NEW k \in Locks, LockEnds(k) PROVE IInv'
<1> USE DEF IInv
<1>1. TypeOK'
  BY DEF TypeOK, LockEnds, tokens
<1>2. Counted'
  BY Kinds DEF TypeOK, Counted, LockedOnlyAfterFailures, LockEnds
<1>3. Stored' /\ Rotation'
  BY Kinds DEF Stored, Rotation, Renewing, OneUsablePerLogin, LockEnds, tokens
<1> QED BY <1>1, <1>2, <1>3

(***************************************************************************)
(* Steps on the tokens.  The account is read by none of them.              *)
(***************************************************************************)
LEMMA AccountStays == ASSUME IInv, UNCHANGED account PROVE Counted'
BY Kinds DEF IInv, Counted, LockedOnlyAfterFailures, account

LEMMA StoreKeeps == ASSUME IInv, NEW q \in Tokens, Store(q) PROVE IInv'
<1> USE DEF IInv
<1>1. q \in Requests /\ pc[q] = "store" /\ token[q] = "absent" /\ answer[q] = "none"
  BY Kinds DEF Store, Stored
<1>2. q \notin Logins => q \in Refreshes /\ shown[q] \in Tokens /\ origin[shown[q]] \in Logins
                         /\ token[shown[q]] # "absent"
  BY <1>1 DEF TypeOK, Rotation, Stored, Tokens
<1> DEFINE login == IF q \in Logins THEN q ELSE origin[shown[q]]
<1>3. login \in Logins
  BY <1>2
<1>4. TypeOK'
  BY <1>1, <1>3 DEF TypeOK, Store, Answer, Goto, States, Answers, account
<1>5. Stored'
  <2>1. \A t \in Tokens : token[t] # "absent" => token'[t] # "absent"
    BY DEF TypeOK, Store
  <2>2. token'[q] = "usable" /\ origin'[q] = login
    BY DEF TypeOK, Store
  <2>3. login # q => token[login] # "absent"
    BY <1>2, Kinds DEF Stored
  <2> QED BY <1>1, <1>3, <2>1, <2>2, <2>3, Kinds DEF TypeOK, Stored, Store, Answer, Goto
<1>6. \A r \in Refreshes : Renewing(r)' => r # q /\ Renewing(r) /\ shown'[r] = shown[r] /\ shown[r] # q
                                           /\ shown[r] \in Tokens
  BY <1>1, Kinds DEF Renewing, TypeOK, Store, Answer, Goto, Stored, Rotation
<1>7. \A t \in Tokens : t # q => token'[t] = token[t] /\ origin'[t] = origin[t]
  BY DEF TypeOK, Store
<1>8. \A t \in Tokens : t # q /\ origin[t] = login => token[t] # "usable"
  <2>1. CASE q \in Logins
    BY <1>1, <2>1 DEF Stored
  <2>2. CASE q \notin Logins
    BY <1>1, <1>2, <2>2 DEF Rotation, Renewing
  <2> QED BY <2>1, <2>2
<1>9. \A r \in Refreshes : Renewing(r)' => origin[shown[r]] # login
  <2>1. CASE q \in Logins
    BY <1>1, <1>6, <2>1, Kinds DEF Stored
  <2>2. CASE q \notin Logins
    BY <1>1, <1>2, <1>6, <2>2 DEF Rotation, Renewing
  <2> QED BY <2>1, <2>2
<1>10. Rotation'
  <2>1. token'[q] = "usable" /\ origin'[q] = login
    BY DEF TypeOK, Store
  <2>2. \A r \in Refreshes : pc'[r] \in {"store", "examine"} => shown'[r] # None
    BY <1>1, Kinds DEF Rotation, TypeOK, Store, Answer, Goto
  <2>3. \A r \in Refreshes, t \in Tokens :
          Renewing(r)' /\ origin'[t] = origin'[shown'[r]] => token'[t] # "usable"
    BY <1>6, <1>7, <1>9, <2>1 DEF Rotation
  <2>4. \A r, s \in Refreshes :
          Renewing(r)' /\ Renewing(s)' /\ origin'[shown'[r]] = origin'[shown'[s]] => r = s
    BY <1>6, <1>7 DEF Rotation
  <2>5. OneUsablePerLogin'
    BY <1>7, <1>8, <2>1 DEF Rotation, OneUsablePerLogin
  <2> QED BY <2>2, <2>3, <2>4, <2>5 DEF Rotation
<1>11. UNCHANGED account
  BY DEF Store
<1> QED BY <1>4, <1>5, <1>10, <1>11, AccountStays

LEMMA ConsumeKeeps == ASSUME IInv, NEW r \in Refreshes, Consume(r) PROVE IInv'
<1> USE DEF IInv
<1>1. r \in Requests /\ r \in Tokens /\ pc[r] = "begin"
  BY Kinds DEF Consume
<1>2. PICK t \in Sent : /\ Live(t)
                        /\ shown' = [shown EXCEPT ![r] = t]
                        /\ token' = [token EXCEPT ![t] = "consumed"]
  BY DEF Consume
<1>3. t \in Tokens /\ token[t] = "usable"
  BY <1>2 DEF Sent, Live
<1>4. TypeOK'
  BY <1>1, <1>2, <1>3 DEF TypeOK, Consume, Goto, States, account
<1>5. Stored'
  BY <1>1, <1>2, <1>3, Kinds DEF TypeOK, Stored, Consume, Goto
<1>6. /\ pc' = [pc EXCEPT ![r] = "store"] /\ origin' = origin
      /\ \A s \in Refreshes : s # r => shown'[s] = shown[s]
      /\ shown'[r] = t /\ token'[t] = "consumed"
  BY <1>1, <1>2, <1>3, Kinds DEF TypeOK, Consume, Goto
<1>7. \A u \in Tokens : u # t => token'[u] = token[u]
  BY <1>2 DEF TypeOK
<1>8. \A u \in Tokens : origin[u] = origin[t] => token'[u] # "usable"
  BY <1>3, <1>6, <1>7 DEF Rotation, OneUsablePerLogin
<1>9. \A s \in Refreshes : Renewing(s)' => s = r \/ Renewing(s)
  BY <1>1, <1>6, Kinds DEF Renewing, TypeOK
<1>10. \A s \in Refreshes : Renewing(s) => origin[shown[s]] # origin[t]
  BY <1>3 DEF Rotation
<1>11. Rotation'
  <2>1. \A s \in Refreshes : pc'[s] \in {"store", "examine"} => shown'[s] # None
    BY <1>3, <1>6, Kinds DEF Rotation, TypeOK
  <2>2. \A s \in Refreshes, u \in Tokens :
          Renewing(s)' /\ origin'[u] = origin'[shown'[s]] => token'[u] # "usable"
    BY <1>6, <1>7, <1>8, <1>9 DEF Rotation
  <2>3. \A s, v \in Refreshes :
          Renewing(s)' /\ Renewing(v)' /\ origin'[shown'[s]] = origin'[shown'[v]] => s = v
    BY <1>6, <1>9, <1>10 DEF Rotation
  <2>4. OneUsablePerLogin'
    BY <1>6, <1>7 DEF Rotation, OneUsablePerLogin
  <2> QED BY <2>1, <2>2, <2>3, <2>4 DEF Rotation
<1>12. UNCHANGED account
  BY DEF Consume
<1> QED BY <1>4, <1>5, <1>11, <1>12, AccountStays

\* Steps that store nothing and consume nothing: tokens die, and no request
\* comes nearer to a successor.
LEMMA TokensDie ==
  ASSUME IInv, TypeOK', UNCHANGED <<account, origin>>, NEW q \in Requests,
         \A t \in Tokens : token'[t] # token[t] => token[t] # "absent" /\ token'[t] \in {"revoked", "spent"},
         \A p \in Requests : p # q => /\ shown'[p] = shown[p] /\ read'[p] = read[p]
                                      /\ pc'[p] = pc[p] /\ answer'[p] = answer[p],
         pc'[q] # "store",
         pc[q] # "done" /\ pc'[q] # "done" => answer'[q] = answer[q],
         pc[q] = "done" => pc'[q] = "done",
         answer'[q] = "tokens" => answer[q] = "tokens",
         shown'[q] # None => shown'[q] \in Tokens /\ token[shown'[q]] # "absent",
         pc'[q] = "examine" => shown'[q] # None,
         \A t \in read'[q] : token[t] # "absent"
  PROVE  IInv'
<1> USE DEF IInv
<1>1. \A t \in Tokens : token'[t] # "absent" <=> token[t] # "absent"
  OBVIOUS
<1>2. Stored'
  <2>1. \A t \in Tokens :
          /\ pc'[t] # "done" => token'[t] = "absent" /\ answer'[t] = "none"
          /\ answer'[t] = "tokens" => token'[t] # "absent"
          /\ token'[t] # "absent" => origin'[t] # None
    BY <1>1, Kinds DEF Stored
  <2>2. \A p \in Requests : shown'[p] # None => token'[shown'[p]] # "absent"
    BY <1>1 DEF Stored, TypeOK
  <2>3. \A p \in Requests : \A t \in read'[p] : token'[t] # "absent"
    BY <1>1 DEF Stored, TypeOK
  <2> QED BY <1>1, <2>1, <2>2, <2>3, Kinds DEF Stored
<1>3. \A r \in Refreshes : Renewing(r)' => Renewing(r) /\ r # q
  BY Kinds DEF Renewing
<1>4. Rotation'
  BY <1>3, Kinds DEF Rotation, OneUsablePerLogin
<1> QED BY <1>2, <1>4, AccountStays

LEMMA ConsumeNothingKeeps == ASSUME IInv, NEW r \in Refreshes, ConsumeNothing(r) PROVE IInv'
<1> USE DEF IInv
<1>1. r \in Requests /\ pc[r] = "begin"
  BY Kinds DEF ConsumeNothing
<1>2. TypeOK'
  BY <1>1 DEF TypeOK, ConsumeNothing, Sent, Goto, Answer, States, Answers, account
<1>3. shown' = shown \/ \E t \in Sent : shown' = [shown EXCEPT ![r] = t] /\ t \in Tokens /\ token[t] # "absent"
  BY DEF ConsumeNothing, Sent, Stored
<1>4. shown'[r] # None => shown'[r] \in Tokens /\ token[shown'[r]] # "absent"
  BY <1>1, <1>3 DEF TypeOK, Stored
<1>5. pc'[r] = "examine" => shown'[r] # None
  BY <1>1, Kinds DEF ConsumeNothing, Sent, Goto, Answer, TypeOK
<1>6. \A t \in read'[r] : token[t] # "absent"
  BY <1>1 DEF ConsumeNothing, Stored
<1>7. /\ pc'[r] # "store" /\ pc[r] # "done"
      /\ pc'[r] # "done" => answer'[r] = answer[r]
      /\ answer'[r] # "tokens"
  BY <1>1, Kinds DEF ConsumeNothing, Goto, Answer, TypeOK, Stored
<1>8. \A p \in Requests : p # r => /\ shown'[p] = shown[p] /\ read'[p] = read[p]
                                   /\ pc'[p] = pc[p] /\ answer'[p] = answer[p]
  BY <1>3 DEF ConsumeNothing, Goto, Answer, TypeOK
<1>9. UNCHANGED <<account, origin, token>>
  BY DEF ConsumeNothing
<1> QED BY <1>1, <1>2, <1>4, <1>5, <1>6, <1>7, <1>8, <1>9, TokensDie

LEMMA ExamineKeeps == ASSUME IInv, NEW r \in Refreshes, Examine(r) PROVE IInv'
<1> USE DEF IInv
<1>1. r \in Requests /\ pc[r] = "examine" /\ answer[r] = "none"
  BY Kinds DEF Examine, Stored
<1>2. TypeOK'
  BY <1>1 DEF TypeOK, Examine, Goto, Answer, States, Answers, account, tokens
<1>3. /\ pc'[r] \in {"family", "done"} /\ answer'[r] # "tokens"
      /\ pc'[r] # "done" => answer'[r] = answer[r]
  BY <1>1 DEF Examine, Goto, Answer, TypeOK
<1>4. \A p \in Requests : p # r => pc'[p] = pc[p] /\ answer'[p] = answer[p]
  BY DEF Examine, Goto, Answer, TypeOK
<1>5. UNCHANGED <<account, origin, token, shown, read>>
  BY DEF Examine, tokens
<1> QED BY <1>1, <1>2, <1>3, <1>4, <1>5, TokensDie DEF Stored, TypeOK

LEMMA FamilyReadKeeps ==
  ASSUME IInv, NEW q \in Refreshes \cup Revocations, FamilyRead(q) PROVE IInv'
<1> USE DEF IInv
<1>1. q \in Requests /\ pc[q] = "family"
  BY DEF FamilyRead, Requests
<1>2. TypeOK'
  BY <1>1 DEF TypeOK, FamilyRead, Goto, States, account
<1>3. /\ pc'[q] = "revoke" /\ \A t \in read'[q] : token[t] # "absent"
      /\ \A p \in Requests : p # q => pc'[p] = pc[p] /\ read'[p] = read[p]
  BY <1>1 DEF FamilyRead, Goto, TypeOK
<1>4. UNCHANGED <<account, origin, token, shown, answer>>
  BY DEF FamilyRead
<1> QED BY <1>1, <1>2, <1>3, <1>4, TokensDie DEF Stored, TypeOK

LEMMA RevokeAllKeeps == ASSUME IInv, NEW q \in Revocations, RevokeAll(q) PROVE IInv'
<1> USE DEF IInv
<1>1. q \in Requests /\ pc[q] = "begin"
  BY DEF RevokeAll, Requests
<1>2. TypeOK'
  BY <1>1 DEF TypeOK, RevokeAll, Goto, States, account, tokens
<1>3. pc'[q] = "family" /\ \A p \in Requests : p # q => pc'[p] = pc[p]
  BY <1>1 DEF RevokeAll, Goto, TypeOK
<1>4. UNCHANGED <<account, origin, token, shown, read, answer>>
  BY DEF RevokeAll, tokens
<1> QED BY <1>1, <1>2, <1>3, <1>4, TokensDie DEF Stored, TypeOK

LEMMA LogoutReadKeeps == ASSUME IInv, NEW q \in Logouts, LogoutRead(q) PROVE IInv'
<1> USE DEF IInv
<1>1. q \in Requests /\ pc[q] = "begin"
  BY DEF LogoutRead, Requests
<1>2. CASE \E t \in Sent \ expired :
             /\ shown' = [shown EXCEPT ![q] = t]
             /\ read' = [read EXCEPT ![q] = {t}]
             /\ kept' = [kept EXCEPT ![q] = {t} \cap Used]
             /\ Goto(q, "revoke")
             /\ UNCHANGED answer
  <2>1. PICK t \in Sent : /\ shown' = [shown EXCEPT ![q] = t]
                          /\ read' = [read EXCEPT ![q] = {t}]
                          /\ kept' = [kept EXCEPT ![q] = {t} \cap Used]
                          /\ Goto(q, "revoke")
                          /\ UNCHANGED answer
    BY <1>2
  <2>2. t \in Tokens /\ token[t] # "absent"
    BY DEF Sent, Stored
  <2>3. TypeOK'
    <3>1. {t} \cap Used \in SUBSET Tokens
      BY <2>2
    <3> QED BY <1>1, <2>1, <2>2, <3>1 DEF TypeOK, LogoutRead, Goto, States, account
  <2>4. /\ shown'[q] = t /\ read'[q] = {t} /\ pc'[q] = "revoke"
        /\ \A p \in Requests : p # q => shown'[p] = shown[p] /\ read'[p] = read[p] /\ pc'[p] = pc[p]
    BY <1>1, <2>1 DEF Goto, TypeOK
  <2> QED BY <1>1, <2>1, <2>2, <2>3, <2>4, TokensDie DEF LogoutRead
<1>3. CASE Answer(q, "out") /\ UNCHANGED <<shown, read, kept>>
  <2>1. TypeOK'
    BY <1>1, <1>3 DEF TypeOK, LogoutRead, Answer, Goto, States, Answers, account
  <2>2. /\ pc'[q] = "done" /\ answer'[q] = "out"
        /\ \A p \in Requests : p # q => pc'[p] = pc[p] /\ answer'[p] = answer[p]
    BY <1>1, <1>3 DEF Answer, Goto, TypeOK
  <2> QED BY <1>1, <1>3, <2>1, <2>2, TokensDie DEF LogoutRead, Stored, TypeOK
<1> QED BY <1>2, <1>3 DEF LogoutRead

LEMMA RevokeKeeps ==
  ASSUME IInv, NEW q \in Refreshes \cup Logouts \cup Revocations, Revoke(q) PROVE IInv'
<1> USE DEF IInv
<1>1. q \in Requests /\ pc[q] = "revoke"
  BY DEF Revoke, Requests
<1>2. TypeOK'
  BY <1>1 DEF TypeOK, Revoke, Answer, Goto, States, Answers, account
<1>3. \A t \in Tokens : token'[t] # token[t] => token[t] # "absent" /\ token'[t] \in {"revoked", "spent"}
  BY <1>1 DEF Revoke, Stored
<1>4. /\ pc'[q] = "done" /\ answer'[q] \in {"out", "revoked"}
      /\ \A p \in Requests : p # q => pc'[p] = pc[p] /\ answer'[p] = answer[p]
  BY <1>1 DEF Revoke, Answer, Goto, TypeOK
<1>5. UNCHANGED <<account, origin, shown, read>>
  BY DEF Revoke
<1>6. /\ shown'[q] # None => shown'[q] \in Tokens /\ token[shown'[q]] # "absent"
      /\ \A t \in read'[q] : token[t] # "absent"
  BY <1>1, <1>5 DEF Stored, TypeOK
<1> QED BY <1>1, <1>2, <1>3, <1>4, <1>5, <1>6, TokensDie

LEMMA ExpireKeeps == ASSUME IInv, NEW t \in Aging, Expire(t) PROVE IInv'
<1> USE DEF IInv
<1>1. TypeOK'
  BY CredentialsAssumption DEF TypeOK, Expire, account
<1>2. Stored' /\ Rotation'
  BY Kinds DEF Expire, Stored, Rotation, Renewing, OneUsablePerLogin
<1>3. UNCHANGED account
  BY DEF Expire
<1> QED BY <1>1, <1>2, <1>3, AccountStays

LEMMA DieKeeps == ASSUME IInv, NEW q \in Mortal, Die(q) PROVE IInv'
<1> USE DEF IInv
<1>1. q \in Requests /\ pc[q] \notin {"begin", "done"}
  BY CredentialsAssumption DEF Die
<1>2. TypeOK'
  BY <1>1 DEF TypeOK, Die, Answer, Goto, States, Answers, account, tokens
<1>3. /\ pc'[q] = "done" /\ answer'[q] = "lost"
      /\ \A p \in Requests : p # q => pc'[p] = pc[p] /\ answer'[p] = answer[p]
  BY <1>1 DEF Die, Answer, Goto, TypeOK
<1>4. UNCHANGED <<account, origin, token, shown, read>>
  BY DEF Die, tokens
<1>5. /\ shown'[q] # None => shown'[q] \in Tokens /\ token[shown'[q]] # "absent"
      /\ \A t \in read'[q] : token[t] # "absent"
  BY <1>1, <1>4 DEF Stored, TypeOK
<1> QED BY <1>1, <1>2, <1>3, <1>4, <1>5, TokensDie

LEMMA StepIInv == IInv /\ [Next]_vars => IInv'
<1> SUFFICES ASSUME IInv, [Next]_vars PROVE IInv'
  OBVIOUS
<1>1. CASE Next
  BY <1>1, ReadAccountKeeps, CompareWrongKeeps, CompareRightKeeps, SetPinKeeps, LockEndsKeeps,
     StoreKeeps, ConsumeKeeps, ConsumeNothingKeeps, ExamineKeeps, FamilyReadKeeps, RevokeAllKeeps,
     LogoutReadKeeps, RevokeKeeps, ExpireKeeps, DieKeeps, Kinds
     DEF Next, LogoutRead, RevokeAll
<1>2. CASE UNCHANGED vars
  BY <1>2 DEF vars, account, tokens, IInv, TypeOK, Counted, LockedOnlyAfterFailures, Stored, Rotation,
             Renewing, OneUsablePerLogin, LockOf
<1> QED BY <1>1, <1>2

\* The counters and the life of every token, whatever requests interleave.
THEOREM Invariance == Spec => []IInv
BY InitIInv, StepIInv, PTL DEF Spec

\* The types of every variable.
THEOREM TypeCorrect == Spec => []TypeOK
BY Invariance, PTL DEF IInv

\* Wrong attempts that overwrite each other's counts never lock out early.
THEOREM LockOutEarned == Spec => []LockedOnlyAfterFailures
BY Invariance, PTL DEF IInv, Counted

\* Concurrent refreshes with one cookie leave one usable token per login.
THEOREM RotationHolds == Spec => []OneUsablePerLogin
BY Invariance, PTL DEF IInv, Rotation

\* A stale save never brings a token back.
THEOREM DeadTokens == Spec => DeadStaysDead
<1>1. IInv /\ [Next]_vars =>
        [\A t \in Tokens : token[t] \in {"consumed", "revoked", "spent"} => token'[t] # "usable"]_vars
  <2> SUFFICES ASSUME IInv, Next, NEW t \in Tokens, token[t] \in {"consumed", "revoked", "spent"}
               PROVE  token'[t] # "usable"
    BY DEF vars
  <2> USE DEF IInv
  <2>1. CASE \E q \in Tokens : Store(q)
    BY <2>1 DEF Store, Stored, TypeOK
  <2>2. CASE \E r \in Refreshes : Consume(r)
    BY <2>2 DEF Consume, TypeOK
  <2>3. CASE \E q \in Refreshes \cup Logouts \cup Revocations : Revoke(q)
    BY <2>3 DEF Revoke, TypeOK
  <2>4. CASE UNCHANGED token
    BY <2>4
  <2> QED BY <2>1, <2>2, <2>3, <2>4
          DEF Next, Tokens, tokens, ReadAccount, CompareWrong, CompareRight, SetPin, LockEnds,
              ConsumeNothing, Examine, FamilyRead, LogoutRead, RevokeAll, Expire, Die
<1> QED BY <1>1, Invariance, PTL DEF Spec, DeadStaysDead

-------------------------------------------------------------------------------

\* Once request r found a reuse, the token t that was usable then stays in what r
\* has read, or is dead, until r is answered.
Doomed(r, t) ==
  /\ token[t] # "absent"
  /\ \/ pc[r] = "family"
     \/ pc[r] = "revoke" /\ (t \in read[r] \/ token[t] # "usable")
     \/ pc[r] = "done" /\ (answer[r] = "revoked" => token[t] # "usable")

\* What r found reused is revoked by the time r is answered, whoever stores,
\* consumes, revokes or dies meanwhile.
LEMMA DoomedStays ==
  ASSUME NEW r \in Refreshes, NEW t \in Tokens, IInv, [Next]_vars, Doomed(r, t)
  PROVE  Doomed(r, t)'
<1> USE DEF IInv
<1>1. r \in Requests /\ t \in Requests /\ token[t] # "absent" /\ pc[t] = "done"
  BY Kinds DEF Doomed, Stored
<1>2. /\ pc \in [Requests -> States] /\ answer \in [Requests -> Answers]
      /\ token \in [Tokens -> {"absent", "usable", "consumed", "revoked", "spent"}]
      /\ read \in [Requests -> SUBSET Tokens]
  BY DEF TypeOK
<1>3. token'[t] # "absent" /\ (token[t] # "usable" => token'[t] # "usable")
  <2>1. CASE \E q \in Tokens : Store(q)
    BY <1>1, <1>2, <2>1 DEF Store
  <2>2. CASE \E q \in Refreshes : Consume(q)
    BY <1>2, <2>2, <1>1 DEF Consume
  <2>3. CASE \E q \in Refreshes \cup Logouts \cup Revocations : Revoke(q)
    BY <1>1, <1>2, <2>3 DEF Revoke
  <2>4. CASE UNCHANGED token
    BY <1>1, <2>4
  <2> QED BY <2>1, <2>2, <2>3, <2>4
          DEF Next, Tokens, tokens, vars, ReadAccount, CompareWrong, CompareRight, SetPin, LockEnds,
              ConsumeNothing, Examine, FamilyRead, LogoutRead, RevokeAll, Expire, Die
\* The steps of others.
<1>4. ASSUME pc'[r] = pc[r], answer'[r] = answer[r], read'[r] = read[r] PROVE Doomed(r, t)'
  BY <1>3, <1>4 DEF Doomed
<1>5. pc[r] \in {"family", "revoke", "done"} /\ (pc[r] # "done" => answer[r] = "none")
  BY <1>1, Kinds DEF Doomed, Stored
<1>6. CASE FamilyRead(r)
  <2>1. pc'[r] = "revoke" /\ read'[r] = {u \in Tokens : token[u] = "usable"} /\ UNCHANGED token
    BY <1>1, <1>2, <1>6 DEF FamilyRead, Goto
  <2> QED BY <1>1, <2>1 DEF Doomed
<1>7. CASE Revoke(r)
  <2>1. /\ pc'[r] = "done" /\ pc[r] = "revoke"
        /\ \A u \in read[r] : token'[u] \in {"revoked", "spent"}
        /\ \A u \in Tokens \ read[r] : token'[u] = token[u]
    BY <1>1, <1>2, <1>7 DEF Revoke, Answer, Goto
  <2>2. token'[t] # "usable"
    BY <2>1 DEF Doomed
  <2> QED BY <1>3, <2>1, <2>2 DEF Doomed
<1>8. CASE Die(r)
  <2>1. pc'[r] = "done" /\ answer'[r] = "lost"
    BY <1>1, <1>2, <1>8 DEF Die, Answer, Goto
  <2> QED BY <1>3, <2>1 DEF Doomed
<1>9. ASSUME NEW q \in Requests, q # r,
             \/ ReadAccount(q) \/ CompareWrong(q) \/ CompareRight(q) \/ SetPin(q)
             \/ Store(q) \/ Consume(q) \/ ConsumeNothing(q) \/ Examine(q) \/ FamilyRead(q)
             \/ LogoutRead(q) \/ RevokeAll(q) \/ Revoke(q) \/ Die(q)
      PROVE  Doomed(r, t)'
  <2>1. pc'[r] = pc[r] /\ answer'[r] = answer[r] /\ read'[r] = read[r]
    BY <1>1, <1>2, <1>9 DEF ReadAccount, CompareWrong, CompareRight, SetPin, Store, Consume,
       ConsumeNothing, Examine, FamilyRead, LogoutRead, RevokeAll, Revoke, Die, Answer, Goto, tokens
  <2> QED BY <1>4, <2>1
<1>10. CASE \/ \E k \in Locks : LockEnds(k)
            \/ \E u \in Aging : Expire(u)
            \/ UNCHANGED vars
  <2>1. UNCHANGED <<pc, answer, read>>
    BY <1>10 DEF LockEnds, Expire, vars, tokens
  <2> QED BY <1>4, <2>1
<1>11. ~(ReadAccount(r) \/ CompareWrong(r) \/ CompareRight(r) \/ SetPin(r) \/ Store(r)
         \/ Consume(r) \/ ConsumeNothing(r) \/ Examine(r) \/ LogoutRead(r) \/ RevokeAll(r))
  BY <1>5 DEF ReadAccount, CompareWrong, CompareRight, SetPin, Store, Consume, ConsumeNothing,
     Examine, LogoutRead, RevokeAll
<1> QED
  BY <1>6, <1>7, <1>8, <1>9, <1>10, <1>11, CredentialsAssumption DEF Next, Requests, Attempts

\* Reuse of a consumed token ends with every token that was usable then dead.
THEOREM ReuseRevokes == Spec => ReuseRevokesFamily
<1>1. ASSUME NEW r \in Refreshes, NEW t \in Tokens
      PROVE  Spec => [](pc[r] = "family" /\ token[t] = "usable"
                          => [](answer[r] = "revoked" => token[t] # "usable"))
  <2>1. pc[r] = "family" /\ token[t] = "usable" => Doomed(r, t)
    BY DEF Doomed
  <2>2. IInv /\ [Next]_vars /\ Doomed(r, t) => Doomed(r, t)'
    BY DoomedStays
  <2>3. IInv /\ Doomed(r, t) => (answer[r] = "revoked" => token[t] # "usable")
    BY Kinds DEF Doomed, IInv, Stored
  <2> QED BY <2>1, <2>2, <2>3, Invariance, PTL DEF Spec
<1> QED BY <1>1 DEF ReuseRevokesFamily
================================================================================
