----------------------------- MODULE BillingProofs -----------------------------
(***************************************************************************)
(* Billing for any number of deliveries, payments, requests, plans and     *)
(* processes: what stale saves cannot do.                                  *)
(***************************************************************************)
EXTENDS Billing, TLAPS

Active(s) == s # None /\ s.status = "active"

\* A status that is saved back was earned when it was read.
Earned ==
  /\ Active(sub) => applied # {} \/ freed
  /\ \A a \in Actors : Active(copy[a]) => applied # {} \/ freed

\* A delivery that is about to record has applied, unless it found no row.
Recording ==
  /\ \A d \in Deliveries : pc[d] = "record" /\ copy[d] # None => PaymentOf[d] \in applied
  /\ RecordedIsApplied
  /\ \A d \in Deliveries : answer[d] = "ok" =>
       \E e \in events : e.type = "payment.received" /\ PaymentOf[e.by] = PaymentOf[d]

IInv == TypeOK /\ Earned /\ Recording

LEMMA Kinds ==
  /\ Requests \subseteq Actors /\ Crons \subseteq Actors /\ Failing \subseteq Actors
  /\ Deliveries \subseteq Requests /\ Starts \subseteq Requests
  /\ Changes \subseteq Requests /\ Cancels \subseteq Requests
  /\ \A d \in Deliveries : PaymentOf[d] \in Payments
  /\ \A d \in Deliveries : d \notin Starts /\ d \notin Changes /\ d \notin Cancels /\ d \notin Crons
BY BillingAssumption DEF Actors, Requests, Payments

LEMMA Rows ==
  /\ Free \in Plans
  /\ \A s \in Subscriptions : s # None /\ s.status \in Statuses /\ s.plan \in Plans
  /\ \A st \in Statuses, p \in Plans : [status |-> st, plan |-> p] \in Subscriptions
  /\ \A s \in Subscriptions, st \in Statuses :
       /\ [s EXCEPT !.status = st] \in Subscriptions
       /\ [s EXCEPT !.status = st].status = st
BY BillingAssumption, NoneIsNoSubscription DEF Subscriptions

LEMMA InitIInv == Init => IInv
BY Kinds DEF Init, IInv, TypeOK, Earned, Active, Recording, RecordedIsApplied, States, Answers

(***************************************************************************)
(* Steps that neither save nor log: the entity is read, or goes out of     *)
(* scope.                                                                  *)
(***************************************************************************)
LEMMA PassingKeeps ==
  ASSUME IInv, NEW a \in Actors, NEW w \in States,
         UNCHANGED <<sub, over, approved, events, history>>,
         Goto(a, w),
         Read(a) \/ Forget(a) \/ UNCHANGED copy,
         w \in {"save", "apply"} => Read(a) /\ sub # None,
         w = "record" => Read(a) /\ sub = None,
         \/ UNCHANGED answer
         \/ a \in Deliveries /\ \E x \in {"refused", "ignored", "failed", "lost"} :
              answer' = [answer EXCEPT ![a] = x]
         \/ a \in Deliveries /\ RowsOf(a) # {} /\ answer' = [answer EXCEPT ![a] = "ok"]
  PROVE  IInv'
<1> USE DEF IInv
<1>1. /\ pc'[a] = w /\ \A b \in Actors : b # a => pc'[b] = pc[b] /\ copy'[b] = copy[b]
      /\ Read(a) => copy'[a] = sub
      /\ copy'[a] \in {sub, None, copy[a]}
  BY DEF Goto, Read, Forget, TypeOK
<1>2. TypeOK'
  <2>1. copy' \in [Actors -> Subscriptions \cup {None}]
    BY DEF Read, Forget, TypeOK
  <2>2. \A b \in Actors : pc'[b] \in {"save", "apply"} => copy'[b] # None
    BY <1>1 DEF TypeOK
  <2>3. pc' \in [Actors -> States] /\ answer' \in [Deliveries -> Answers]
    BY DEF TypeOK, Goto, Answers
  <2> QED BY <2>1, <2>2, <2>3 DEF TypeOK, history
<1>3. Earned'
  <2>1. \A b \in Actors : Active(copy'[b]) => Active(copy[b]) \/ Active(sub)
    BY <1>1 DEF Active
  <2> QED BY <2>1 DEF Earned, Active, history
<1>4. \A d \in Deliveries : pc'[d] = "record" /\ copy'[d] # None => PaymentOf[d] \in applied'
  BY <1>1, Kinds DEF Recording, history
<1>5. \A d \in Deliveries : answer'[d] = "ok" =>
        \E e \in events' : e.type = "payment.received" /\ PaymentOf[e.by] = PaymentOf[d]
  BY DEF Recording, TypeOK, RowsOf
<1>6. RecordedIsApplied'
  BY DEF Recording, RecordedIsApplied, history
<1> QED BY <1>2, <1>3, <1>4, <1>5, <1>6 DEF Recording

\* Saves: the row is what the actor read, but for a status it may set.
LEMMA SavingKeeps ==
  ASSUME IInv, NEW a \in Actors, NEW w \in {"event", "record"}, NEW s \in Subscriptions,
         UNCHANGED <<over, approved, events, answer>>,
         Goto(a, w), sub' = s,
         applied \subseteq applied', applied' \subseteq Payments,
         freed' \in BOOLEAN, freed => freed',
         Active(s) => applied' # {} \/ freed',
         IF w = "record" THEN a \in Deliveries /\ UNCHANGED copy /\ PaymentOf[a] \in applied'
         ELSE Forget(a)
  PROVE  IInv'
<1> USE DEF IInv
<1>1. /\ pc'[a] = w /\ \A b \in Actors : b # a => pc'[b] = pc[b] /\ copy'[b] = copy[b]
      /\ copy'[a] \in {None, copy[a]} /\ copy' \in [Actors -> Subscriptions \cup {None}]
      /\ w # "record" => copy'[a] = None
  BY DEF Goto, Forget, TypeOK
<1>2. TypeOK'
  BY <1>1 DEF TypeOK, Goto, States
<1>3. Earned'
  <2>1. \A b \in Actors : Active(copy'[b]) => Active(copy[b])
    BY <1>1 DEF Active
  <2>2. applied # {} \/ freed => applied' # {} \/ freed'
    OBVIOUS
  <2>3. Active(sub)' => applied' # {} \/ freed'
    BY DEF Active
  <2>4. \A b \in Actors : Active(copy[b])' => Active(copy[b])
    BY <2>1 DEF Active
  <2> QED BY <2>2, <2>3, <2>4 DEF Earned
<1>4. Recording'
  BY <1>1, Kinds DEF Recording, RecordedIsApplied
<1> QED BY <1>2, <1>3, <1>4

\* Events are only added.
LEMMA LoggingKeeps ==
  ASSUME IInv, NEW a \in Actors, NEW t \in Types, NEW n \in BOOLEAN, NEW w \in {"done", "idle"},
         UNCHANGED <<sub, over, approved, history>>, Log(a, t, n), Goto(a, w),
         Forget(a) \/ UNCHANGED copy,
         t = "payment.received" /\ n => PaymentOf[a] \in applied,
         \/ UNCHANGED answer
         \/ a \in Deliveries /\ t = "payment.received" /\ answer' = [answer EXCEPT ![a] = "ok"]
  PROVE  IInv'
<1> USE DEF IInv
<1> DEFINE row == [type |-> t, by |-> a, sub |-> n]
<1>1. /\ pc'[a] = w /\ \A b \in Actors : b # a => pc'[b] = pc[b]
      /\ \A b \in Actors : copy'[b] \in {None, copy[b]} /\ (b # a => copy'[b] = copy[b])
      /\ copy' \in [Actors -> Subscriptions \cup {None}]
  BY DEF Goto, Forget, TypeOK
<1>2. events' = events \cup {row} /\ row.type = t /\ row.by = a /\ row.sub = n
  BY DEF Log
<1>3. TypeOK'
  <2>1. row \in [type : Types, by : Actors, sub : BOOLEAN]
    OBVIOUS
  <2>2. events' \subseteq [type : Types, by : Actors, sub : BOOLEAN]
    BY <1>2, <2>1 DEF TypeOK
  <2>3. pc' \in [Actors -> States] /\ answer' \in [Deliveries -> Answers]
    BY DEF TypeOK, Goto, States, Answers
  <2>4. \A b \in Actors : pc'[b] \in {"save", "apply"} => copy'[b] # None
    <3>1. \A b \in Actors : pc'[b] \in {"save", "apply"} => b # a
      BY <1>1
    <3> QED BY <1>1, <3>1 DEF TypeOK
  <2> QED BY <1>1, <2>2, <2>3, <2>4 DEF TypeOK, history
<1>4. Earned'
  <2>1. \A b \in Actors : Active(copy[b])' => Active(copy[b])
    BY <1>1 DEF Active
  <2> QED BY <2>1 DEF Earned, Active, history
<1>5. Recording'
  <2>1. \A d \in Deliveries : pc'[d] = "record" /\ copy'[d] # None => PaymentOf[d] \in applied'
    BY <1>1, Kinds DEF Recording, history
  <2>2. RecordedIsApplied'
    BY <1>2 DEF Recording, RecordedIsApplied, history
  <2>3. \A d \in Deliveries : answer'[d] = "ok" =>
          \E e \in events' : e.type = "payment.received" /\ PaymentOf[e.by] = PaymentOf[d]
    BY <1>2 DEF Recording, TypeOK
  <2> QED BY <2>1, <2>2, <2>3 DEF Recording
<1> QED BY <1>3, <1>4, <1>5

-------------------------------------------------------------------------------
(* Every action is one of the three, or changes what nobody copies. *)

LEMMA ServeOwnKeeps ==
  ASSUME IInv, NEW q \in Requests, q \notin Deliveries, Serve(q) PROVE IInv'
<1> USE DEF IInv
<1>1. q \in Actors
  BY Kinds
<1>2. CASE StartTrial(q)
  BY <1>1, <1>2, PassingKeeps DEF StartTrial, States
<1>3. CASE InsertTrial(q)
  <2>1. sub' \in Subscriptions \cup {None} /\ (Active(sub') => Active(sub))
    <3>1. [status |-> "trialing", plan |-> Free] \in Subscriptions
      BY Rows DEF Statuses
    <3> QED BY <1>3, <3>1 DEF InsertTrial, TypeOK, Active
  <2>2. TypeOK'
    BY <1>1, <1>3, <2>1 DEF TypeOK, InsertTrial, Goto, States, history
  <2>3. Earned'
    BY <1>3, <2>1 DEF Earned, Active, InsertTrial, history
  <2>4. Recording'
    BY <1>1, <1>3, Kinds DEF Recording, RecordedIsApplied, InsertTrial, Goto, TypeOK, history
  <2> QED BY <2>2, <2>3, <2>4
<1>4. CASE ReadOwn(q)
  BY <1>1, <1>4, PassingKeeps DEF ReadOwn, States
<1>5. CASE LogOwn(q)
  <2> DEFINE t == IF q \in Changes THEN "subscription.activated" ELSE "subscription.canceled"
  <2>1. t \in Types /\ t # "payment.received"
    BY DEF Types
  <2> HIDE DEF t
  <2>2. Log(q, t, TRUE)
    BY <1>5 DEF LogOwn, t
  <2> QED BY <1>1, <1>5, <2>1, <2>2, LoggingKeeps DEF LogOwn
<1>6. CASE ChangeSave(q)
  <2>1. copy[q] \in Subscriptions
    BY <1>1, <1>6 DEF TypeOK, ChangeSave
  <2>2. PICK p \in Plans :
          /\ sub' = [status |-> IF p = Free THEN "active" ELSE copy[q].status, plan |-> p]
          /\ freed' = (freed \/ p = Free)
    BY <1>6 DEF ChangeSave
  <2>3. sub' \in Subscriptions
    BY <2>1, <2>2, Rows DEF Statuses
  <2>4. p # Free => sub'.status = copy[q].status
    BY <2>2
  <2>5. Active(sub') => applied # {} \/ freed'
    BY <1>1, <2>1, <2>2, <2>4, Rows DEF Earned, Active
  <2>6. applied' = applied /\ freed' \in BOOLEAN /\ (freed => freed')
    BY <1>6, <2>2 DEF ChangeSave, TypeOK
  <2>7. Goto(q, "event") /\ Forget(q) /\ UNCHANGED <<over, approved, events, answer>>
    BY <1>6 DEF ChangeSave
  <2>8. applied' \subseteq Payments
    BY <2>6 DEF TypeOK
  <2> QED BY <1>1, <2>3, <2>5, <2>6, <2>7, <2>8, SavingKeeps
<1>7. CASE CancelSave(q)
  <2>1. copy[q] \in Subscriptions
    BY <1>1, <1>7 DEF TypeOK, CancelSave
  <2>2. sub' \in Subscriptions /\ ~Active(sub')
    BY <1>7, <2>1, Rows DEF CancelSave, Statuses, Active
  <2>3. Goto(q, "event") /\ Forget(q) /\ UNCHANGED <<over, approved, events, answer>>
        /\ applied' = applied /\ freed' = freed /\ applied' \subseteq Payments /\ freed' \in BOOLEAN
    BY <1>7 DEF CancelSave, history, TypeOK
  <2> QED BY <1>1, <2>2, <2>3, SavingKeeps
<1> QED BY <1>2, <1>3, <1>4, <1>5, <1>6, <1>7 DEF Serve

LEMMA DeliveryKeeps == ASSUME IInv, NEW d \in Deliveries, Serve(d) \/ Fault(d) PROVE IInv'
<1> USE DEF IInv
<1>1. d \in Actors /\ PaymentOf[d] \in Payments
  BY Kinds
<1>2. CASE Receive(d)
  BY <1>1, <1>2, PassingKeeps DEF Receive, Answer, States
<1>3. CASE GetPayment(d)
  BY <1>1, <1>3, PassingKeeps DEF GetPayment, Answer, States
<1>4. CASE ReadSub(d)
  BY <1>1, <1>4, PassingKeeps DEF ReadSub, States
<1>5. CASE Catch(d)
  BY <1>1, <1>5, PassingKeeps DEF Catch, Answer, States
<1>6. CASE Fault(d)
  BY <1>1, <1>6, PassingKeeps DEF Fault, States
<1>7. CASE Apply(d)
  <2>1. copy[d] \in Subscriptions
    BY <1>1, <1>7 DEF TypeOK, Apply
  <2>2. sub' \in Subscriptions
    BY <1>7, <2>1, Rows DEF Apply, Statuses
  <2>3. /\ Goto(d, "record") /\ UNCHANGED <<over, approved, events, answer, copy, freed>>
        /\ applied' = applied \cup {PaymentOf[d]} /\ applied' \subseteq Payments /\ freed' \in BOOLEAN
    BY <1>1, <1>7 DEF Apply, TypeOK
  <2> QED BY <1>1, <2>2, <2>3, SavingKeeps
<1>8. CASE Record(d)
  <2> DEFINE n == copy[d] # None
  <2>1. n \in BOOLEAN /\ (n => PaymentOf[d] \in applied)
    BY <1>8 DEF Record, Recording
  <2>2. Log(d, "payment.received", n) /\ Goto(d, "done") /\ Forget(d)
        /\ UNCHANGED <<sub, over, approved, history>> /\ answer' = [answer EXCEPT ![d] = "ok"]
    BY <1>8 DEF Record, Answer
  <2> HIDE DEF n
  <2> QED BY <1>1, <2>1, <2>2, LoggingKeeps DEF Types
<1> QED BY <1>2, <1>3, <1>4, <1>5, <1>6, <1>7, <1>8, Kinds DEF Serve

LEMMA CronKeeps == ASSUME IInv, NEW c \in Crons, CronStep(c) PROVE IInv'
<1> USE DEF IInv
<1>1. c \in Actors
  BY Kinds
<1>2. CASE CronRead(c)
  BY <1>1, <1>2, PassingKeeps DEF CronRead, Trialing, States
<1>3. CASE CronSave(c)
  <2>1. copy[c] \in Subscriptions
    BY <1>1, <1>3 DEF TypeOK, CronSave
  <2>2. sub' \in Subscriptions /\ ~Active(sub')
    BY <1>3, <2>1, Rows DEF CronSave, Statuses, Active
  <2>3. Goto(c, "event") /\ Forget(c) /\ UNCHANGED <<over, approved, events, answer>>
        /\ applied' = applied /\ freed' = freed /\ applied' \subseteq Payments /\ freed' \in BOOLEAN
    BY <1>3 DEF CronSave, history, TypeOK
  <2> QED BY <1>1, <2>2, <2>3, SavingKeeps
<1>4. CASE CronLog(c)
  BY <1>1, <1>4, LoggingKeeps DEF CronLog, Types
<1> QED BY <1>2, <1>3, <1>4 DEF CronStep

LEMMA OutsideKeeps ==
  ASSUME IInv, TrialEnds \/ \E p \in Payments : Approve(p) PROVE IInv'
BY DEF IInv, TrialEnds, Approve, TypeOK, Earned, Active, Recording, RecordedIsApplied, history

LEMMA DieKeeps == ASSUME IInv, NEW a \in Failing, Die(a) PROVE IInv'
BY Kinds, PassingKeeps DEF Die, States

LEMMA StepIInv == IInv /\ [Next]_vars => IInv'
<1> SUFFICES ASSUME IInv, [Next]_vars PROVE IInv'
  OBVIOUS
<1>1. CASE Next
  BY <1>1, ServeOwnKeeps, DeliveryKeeps, CronKeeps, OutsideKeeps, DieKeeps DEF Next
<1>2. CASE UNCHANGED vars
  BY <1>2 DEF vars, history, IInv, TypeOK, Earned, Active, Recording, RecordedIsApplied
<1> QED BY <1>1, <1>2

\* What holds of a subscription whatever requests, deliveries and crons save.
THEOREM Invariance == Spec => []IInv
BY InitIInv, StepIInv, PTL DEF Spec

\* The types, and that who saves has read.
THEOREM TypeCorrect == Spec => []TypeOK
BY Invariance, PTL DEF IInv

\* Nobody becomes active by a stale save.
THEOREM EarnedHolds == Spec => []ActiveIsEarned
<1>1. IInv => ActiveIsEarned
  BY DEF IInv, Earned, Active, ActiveIsEarned
<1> QED BY <1>1, Invariance, PTL

\* A payment on record was applied, wherever a process ended.
THEOREM RecordHolds == Spec => []RecordedIsApplied
BY Invariance, PTL DEF IInv, Recording

\* What MercadoPago takes as delivered is on record.
THEOREM AckHolds == Spec => []AckedIsRecorded
<1>1. IInv => AckedIsRecorded
  BY DEF IInv, Recording, AckedIsRecorded, RowsOf
<1> QED BY <1>1, Invariance, PTL
================================================================================
