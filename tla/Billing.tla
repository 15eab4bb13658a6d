------------------------------- MODULE Billing --------------------------------
(***************************************************************************)
(* The subscription of one tenant: BillingService, the MercadoPago webhook *)
(* and the daily cron of every API process.                                *)
(*                                                                         *)
(* All of them read the row, change the entity and save it: save writes    *)
(* each column in which the entity differs from the row, so it brings back *)
(* what the row was at the read.  No code writes past_due, so the second   *)
(* loop of the cron finds nothing and is left out.                         *)
(***************************************************************************)
EXTENDS Integers, FiniteSets

CONSTANTS
  Deliveries,  \* POST /billing/webhooks/mercadopago
  PaymentOf,   \* the payment each is about
  Forged,      \* deliveries whose signature is wrong
  Starts,      \* POST /billing/subscription/start-trial
  Changes,     \* POST /billing/subscription/change-plan
  Cancels,     \* POST /billing/subscription/cancel
  Crons,       \* API processes, each with its dailySuspensionCheck
  Plans, Free,
  Failing,     \* what may fail, or end with its process
  None

Payments == {PaymentOf[d] : d \in Deliveries}
Requests == Deliveries \cup Starts \cup Changes \cup Cancels
Actors == Requests \cup Crons

ASSUME BillingAssumption ==
  /\ Free \in Plans
  /\ Forged \subseteq Deliveries
  /\ Deliveries \cap (Starts \cup Changes \cup Cancels \cup Crons) = {}
  /\ Starts \cap (Changes \cup Cancels \cup Crons) = {}
  /\ Changes \cap (Cancels \cup Crons) = {}
  /\ Cancels \cap Crons = {}
  /\ Failing \subseteq Actors

Statuses == {"trialing", "active", "canceled"}
Subscriptions == [status : Statuses, plan : Plans]

ASSUME NoneIsNoSubscription == None \notin Subscriptions

VARIABLES
  sub,      \* the row of subscriptions, or None
  over,     \* TRUE once trial_ends_at has passed
  approved, \* payments MercadoPago approved
  copy,     \* the entity each actor read
  events,   \* rows of billing_events; sub is TRUE when they name a subscription
  applied,  \* payments for which the row was saved
  freed,    \* TRUE once the row was saved for a change to the free plan
  pc,
  answer    \* to each delivery

history == <<applied, freed>>
vars == <<sub, over, approved, copy, events, history, pc, answer>>

Init ==
  /\ sub = None /\ over = FALSE /\ approved = {}
  /\ copy = [a \in Actors |-> None]
  /\ events = {}
  /\ applied = {} /\ freed = FALSE
  /\ pc = [a \in Actors |-> IF a \in Crons THEN "idle" ELSE "begin"]
  /\ answer = [d \in Deliveries |-> "none"]

Goto(a, where) == pc' = [pc EXCEPT ![a] = where]
Answer(d, what) ==
  /\ answer' = [answer EXCEPT ![d] = what]
  /\ Goto(d, "done")

\* findOne({ where: { tenantId } })
Read(a) == copy' = [copy EXCEPT ![a] = sub]

\* The entity goes out of scope.
Forget(a) == copy' = [copy EXCEPT ![a] = None]

Log(a, type, named) == events' = events \cup {[type |-> type, by |-> a, sub |-> named]}

-------------------------------------------------------------------------------
(* The tenant's requests *)

StartTrial(q) ==
  /\ pc[q] = "begin"
  /\ Goto(q, IF sub # None THEN "done" ELSE "insert")
  /\ UNCHANGED <<sub, over, approved, copy, events, history, answer>>

\* uq_subscriptions_tenant refuses a second row.
InsertTrial(q) ==
  /\ pc[q] = "insert"
  /\ \/ sub = None /\ sub' = [status |-> "trialing", plan |-> Free]
     \/ sub # None /\ UNCHANGED sub
  /\ Goto(q, "done")
  /\ UNCHANGED <<over, approved, copy, events, history, answer>>

ReadOwn(q) ==
  /\ pc[q] = "begin"
  /\ Read(q)
  /\ Goto(q, IF sub = None THEN "done" ELSE "save")
  /\ UNCHANGED <<sub, over, approved, events, history, answer>>

\* Faulty variant: any plan activates.
ChangeSaveActive(q) ==
  /\ pc[q] = "save"
  /\ \E p \in Plans :
       /\ sub' = [status |-> "active", plan |-> p]
       /\ freed' = (freed \/ p = Free)
  /\ Goto(q, "event")
  /\ Forget(q)
  /\ UNCHANGED <<over, approved, events, applied, answer>>

\* changePlan keeps the status it read, unless the plan is free.
ChangeSave(q) ==
  /\ pc[q] = "save"
  /\ \E p \in Plans :
       /\ sub' = [status |-> IF p = Free THEN "active" ELSE copy[q].status, plan |-> p]
       /\ freed' = (freed \/ p = Free)
  /\ Goto(q, "event")
  /\ Forget(q)
  /\ UNCHANGED <<over, approved, events, applied, answer>>

CancelSave(q) ==
  /\ pc[q] = "save"
  /\ sub' = [copy[q] EXCEPT !.status = "canceled"]
  /\ Goto(q, "event")
  /\ Forget(q)
  /\ UNCHANGED <<over, approved, events, history, answer>>

LogOwn(q) ==
  /\ pc[q] = "event"
  /\ Log(q, IF q \in Changes THEN "subscription.activated" ELSE "subscription.canceled", TRUE)
  /\ Goto(q, "done")
  /\ UNCHANGED <<sub, over, approved, copy, history, answer>>

-------------------------------------------------------------------------------
(* The webhook *)

\* payment.received, processed, of the payment of d.
RowsOf(d) == {e \in events : e.type = "payment.received" /\ PaymentOf[e.by] = PaymentOf[d]}

Receive(d) ==
  /\ pc[d] = "begin"
  /\ IF d \in Forged THEN Answer(d, "refused")
     ELSE IF RowsOf(d) # {} THEN Answer(d, "ok")
     ELSE Goto(d, "get") /\ UNCHANGED answer
  /\ UNCHANGED <<sub, over, approved, copy, events, history>>

\* A payment still pending is acknowledged: MercadoPago notifies again.
GetPayment(d) ==
  /\ pc[d] = "get"
  /\ IF PaymentOf[d] \in approved
     THEN Goto(d, "read") /\ UNCHANGED answer
     ELSE Answer(d, "ignored")
  /\ UNCHANGED <<sub, over, approved, copy, events, history>>

ReadSub(d) ==
  /\ pc[d] = "read"
  /\ Read(d)
  /\ Goto(d, IF sub = None THEN "record" ELSE "apply")
  /\ UNCHANGED <<sub, over, approved, events, history, answer>>

\* Faulty variant: the event goes first.
ApplyAfterRecord(d) ==
  /\ pc[d] = "apply"
  /\ Log(d, "payment.received", TRUE)
  /\ Goto(d, "record")
  /\ UNCHANGED <<sub, over, approved, copy, history, answer>>

\* The plan and the period that were paid for are not looked at.
Apply(d) ==
  /\ pc[d] = "apply"
  /\ sub' = [copy[d] EXCEPT !.status = "active"]
  /\ applied' = applied \cup {PaymentOf[d]}
  /\ Goto(d, "record")
  /\ UNCHANGED <<over, approved, copy, events, freed, answer>>

Record(d) ==
  /\ pc[d] = "record"
  /\ Log(d, "payment.received", copy[d] # None)
  /\ Answer(d, "ok")
  /\ Forget(d)
  /\ UNCHANGED <<sub, over, approved, history>>

\* getPayment or a query fails.
Fault(d) ==
  /\ pc[d] \in {"get", "read", "apply", "record"}
  /\ Goto(d, "catch")
  /\ Forget(d)
  /\ UNCHANGED <<sub, over, approved, events, history, answer>>

\* Faulty variant: the failure is stored and acknowledged.
CatchStored(d) ==
  /\ pc[d] = "catch"
  /\ Log(d, "payment.failed", FALSE)
  /\ Answer(d, "ok")
  /\ UNCHANGED <<sub, over, approved, copy, history>>

\* The event of the failure has tenantId "unknown", which is no uuid: its
\* INSERT fails as well and the answer is 500.
Catch(d) ==
  /\ pc[d] = "catch"
  /\ Answer(d, "failed")
  /\ UNCHANGED <<sub, over, approved, copy, events, history>>

-------------------------------------------------------------------------------
(* dailySuspensionCheck, for expired trials *)

Trialing == sub # None /\ sub.status = "trialing"

\* Faulty variant: looks for the wrong status.
CronReadActive(c) ==
  /\ pc[c] = "idle"
  /\ over /\ sub # None /\ sub.status = "active"
  /\ Read(c)
  /\ Goto(c, "save")
  /\ UNCHANGED <<sub, over, approved, events, history, answer>>

CronRead(c) ==
  /\ pc[c] = "idle"
  /\ over /\ Trialing
  /\ Read(c)
  /\ Goto(c, "save")
  /\ UNCHANGED <<sub, over, approved, events, history, answer>>

CronSave(c) ==
  /\ pc[c] = "save"
  /\ sub' = [copy[c] EXCEPT !.status = "canceled"]
  /\ Goto(c, "event")
  /\ Forget(c)
  /\ UNCHANGED <<over, approved, events, history, answer>>

CronLog(c) ==
  /\ pc[c] = "event"
  /\ Log(c, "subscription.canceled", TRUE)
  /\ Goto(c, "idle")
  /\ UNCHANGED <<sub, over, approved, copy, history, answer>>

-------------------------------------------------------------------------------

Approve(p) ==
  /\ p \notin approved
  /\ approved' = approved \cup {p}
  /\ UNCHANGED <<sub, over, copy, events, history, pc, answer>>

TrialEnds ==
  /\ ~over /\ sub # None
  /\ over' = TRUE
  /\ UNCHANGED <<sub, approved, copy, events, history, pc, answer>>

\* Its process ends.
Die(a) ==
  /\ pc[a] \notin {"begin", "done"}
  /\ Goto(a, "done")
  /\ IF a \in Deliveries THEN answer' = [answer EXCEPT ![a] = "lost"] ELSE UNCHANGED answer
  /\ Forget(a)
  /\ UNCHANGED <<sub, over, approved, events, history>>

Serve(q) ==
  \/ q \in Starts /\ (StartTrial(q) \/ InsertTrial(q))
  \/ q \in Changes \cup Cancels /\ (ReadOwn(q) \/ LogOwn(q))
  \/ q \in Changes /\ ChangeSave(q)
  \/ q \in Cancels /\ CancelSave(q)
  \/ q \in Deliveries /\ (Receive(q) \/ GetPayment(q) \/ ReadSub(q) \/ Apply(q) \/ Record(q) \/ Catch(q))

CronStep(c) == CronRead(c) \/ CronSave(c) \/ CronLog(c)

Next ==
  \/ \E q \in Requests : Serve(q)
  \/ \E d \in Deliveries \cap Failing : Fault(d)
  \/ \E c \in Crons : CronStep(c)
  \/ \E p \in Payments : Approve(p)
  \/ TrialEnds
  \/ \E a \in Failing : Die(a)

Spec == Init /\ [][Next]_vars

\* The event loop serves its requests and the cron of every process runs daily.
FairSpec ==
  /\ Spec
  /\ WF_vars(\E q \in Requests : Serve(q))
  /\ \A c \in Crons : WF_vars(CronStep(c))

-------------------------------------------------------------------------------

States ==
  {"begin", "insert", "save", "event", "get", "read", "apply", "record", "catch", "idle", "done"}
Answers == {"none", "ok", "refused", "ignored", "failed", "lost"}
Types == {"subscription.activated", "subscription.canceled", "payment.received"}

\* The types; who is about to save a row has read one.
TypeOK ==
  /\ sub \in Subscriptions \cup {None}
  /\ over \in BOOLEAN /\ freed \in BOOLEAN
  /\ approved \subseteq Payments /\ applied \subseteq Payments
  /\ copy \in [Actors -> Subscriptions \cup {None}]
  /\ events \subseteq [type : Types, by : Actors, sub : BOOLEAN]
  /\ pc \in [Actors -> States]
  /\ \A a \in Actors : pc[a] \in {"save", "apply"} => copy[a] # None
  /\ answer \in [Deliveries -> Answers]

\* However stale saves bring statuses back, nobody is active who never paid
\* and never took the free plan.  Whether what was paid is the present plan is
\* not said: a change of plan keeps the status.
ActiveIsEarned ==
  sub # None /\ sub.status = "active" => applied # {} \/ freed

\* An event that says a subscription was paid is later than the save of that
\* subscription: no crash leaves a payment that counts as a duplicate and was
\* never applied.
RecordedIsApplied ==
  \A e \in events : e.type = "payment.received" /\ e.sub => PaymentOf[e.by] \in applied

\* MercadoPago stops notifying once it gets a 200: then the approved payment is
\* on record, whatever failed on the way.
AckedIsRecorded ==
  \A d \in Deliveries : answer[d] = "ok" => RowsOf(d) # {}

\* A trial past its end does not stay, though a change of plan that read it
\* before the cron may bring it back.
ExpiredTrialsEnd ==
  (Trialing /\ over) ~> ~Trialing
===============================================================================
