------------------------------- MODULE Emission -------------------------------
(***************************************************************************)
(* The emission pipeline: InvoicesService.create and retrySubmission, and  *)
(* DlqService.retryDlqItem, composed with the outbox relay, the submission *)
(* processor and the status processor.  All share the tables and queues of *)
(* EmissionStore and interleave at every awaited call.                     *)
(***************************************************************************)
EXTENDS OutboxRelay, SubmissionProcessor, StatusProcessor

\* create commits in one transaction.  With credentials, a certificate and no
\* error up to the zip, the invoice is queued and has submission 1; otherwise
\* it stays a draft without one.  The event is emitted in both cases.
CreateInvoice(i) ==
  /\ invoice[i] = "absent"
  /\ \E e \in EventIds : InsertEvent(e, i, "INVOICE_CREATED")
  /\ \/ /\ SetInvoice(i, "queued")
        /\ sub' = [sub EXCEPT ![<<i, 1>>] = [attempt |-> 1, status |-> "pending"]]
     \/ /\ SetInvoice(i, "draft")
        /\ UNCHANGED sub
  /\ UNCHANGED <<responsePath, dlq, queues, dian, processes, budget>>

CallerAt(c, pc) == caller[c].pc = pc
SetCaller(c, pc, i, n) ==
  caller' = [caller EXCEPT ![c] = [pc |-> pc, inv |-> i, n |-> n]]

(* retrySubmission: read, read, insert, update, add.                       *)

\* Faulty variant: any invoice can be sent again.
RetryCheckAny(c, i) ==
  /\ CallerAt(c, "idle")
  /\ SetCaller(c, "latest", i, 0)
  /\ UNCHANGED <<db, queues, dian, relay, budget>>

RetryCheck(c, i) ==
  /\ CallerAt(c, "idle")
  /\ invoice[i] = "rejected"
  /\ SetCaller(c, "latest", i, 0)
  /\ UNCHANGED <<db, queues, dian, relay, budget>>

\* The submission with the highest attemptNumber; its zip is sent again.
RetryLatest(c) ==
  /\ CallerAt(c, "latest")
  /\ \E k \in 1..MaxSubs :
       /\ SubExists(<<caller[c].inv, k>>)
       /\ \A m \in 1..MaxSubs :
            sub[<<caller[c].inv, m>>].attempt <= sub[<<caller[c].inv, k>>].attempt
       /\ SetCaller(c, "insert", caller[c].inv, sub[<<caller[c].inv, k>>].attempt)
  /\ UNCHANGED <<db, queues, dian, relay, budget>>

RetryInsert(c) ==
  /\ CallerAt(c, "insert")
  /\ \E k \in 1..MaxSubs :
       /\ FreshSub(caller[c].inv, k)
       /\ sub' = [sub EXCEPT ![<<caller[c].inv, k>>] =
                    [attempt |-> caller[c].n + 1, status |-> "pending"]]
       /\ SetCaller(c, "update", caller[c].inv, k)
  /\ UNCHANGED <<invoice, responsePath, event, dlq, queues, dian, relay, budget>>

RetryUpdate(c) ==
  /\ CallerAt(c, "update")
  /\ SetInvoice(caller[c].inv, "pending")
  /\ SetCaller(c, "add", caller[c].inv, caller[c].n)
  /\ UNCHANGED <<responsePath, sub, event, dlq, queues, dian, relay, budget>>

\* No jobId and no event: this job is in Redis only.
RetryAdd(c) ==
  /\ CallerAt(c, "add")
  /\ job' = [job EXCEPT ![<<caller[c].inv, caller[c].n>>] = NewJob(0)]
  /\ caller' = [caller EXCEPT ![c] = CallerIdle]
  /\ UNCHANGED <<db, statusJob, notified, dian, relay, budget>>

(* retryDlqItem: read, insert an outbox event, resolve the item.           *)

DlqRead(c, d) ==
  /\ CallerAt(c, "idle")
  /\ dlq[d].status = "pending"
  /\ SetCaller(c, "dlqEvent", dlq[d].inv, d)
  /\ UNCHANGED <<db, queues, dian, relay, budget>>

DlqEvent(c) ==
  /\ CallerAt(c, "dlqEvent")
  /\ \E e \in EventIds : InsertEvent(e, caller[c].inv, "invoice.created")
  /\ SetCaller(c, "dlqResolve", caller[c].inv, caller[c].n)
  /\ UNCHANGED <<invoice, responsePath, sub, dlq, queues, dian, relay, budget>>

DlqResolve(c) ==
  /\ CallerAt(c, "dlqResolve")
  /\ dlq' = [dlq EXCEPT ![caller[c].n].status = "resolved"]
  /\ caller' = [caller EXCEPT ![c] = CallerIdle]
  /\ UNCHANGED <<invoice, responsePath, sub, event, queues, dian, relay, budget>>

\* The process dies, or a database call rejects and the request ends in 500.
CallerDies(c) ==
  /\ ~CallerAt(c, "idle")
  /\ \/ Faults /\ ~CallerAt(c, "add") /\ UNCHANGED crashes
     \/ crashes < MaxCrashes /\ crashes' = crashes + 1
  /\ caller' = [caller EXCEPT ![c] = CallerIdle]
  /\ UNCHANGED <<db, queues, dian, relay, evictions>>

CallerStep(c) ==
  \/ RetryLatest(c) \/ RetryInsert(c) \/ RetryUpdate(c) \/ RetryAdd(c)
  \/ DlqEvent(c) \/ DlqResolve(c)

Next ==
  \/ \E i \in Invoices : CreateInvoice(i)
  \/ \E r \in Relays : RelayStep(r) \/ RelayCrash(r)
                         \/ \E e \in EventIds : RelayFault(r, e)
  \/ \E s \in SubIds : SubmissionStep(s) \/ SubmissionCrash(s) \/ Evict(s)
  \/ \E t \in TrackIds : DianDecide(t) \/ StatusStep(t) \/ StatusCrash(t)
  \/ \E c \in Callers :
       \/ \E i \in Invoices : RetryCheck(c, i)
       \/ \E d \in DlqIds : DlqRead(c, d)
       \/ CallerStep(c) \/ CallerDies(c)

Spec == StoreInit /\ [][Next]_vars

(***************************************************************************)
(* Fairness: the cron ticks and its loop goes on, workers keep taking jobs *)
(* and running them.  Nothing is assumed of callers, of DIAN's decisions,  *)
(* of crashes or of faults.                                                *)
(***************************************************************************)
Fairness ==
  /\ \A r \in Relays : WF_vars(RelayStep(r))
  /\ \A s \in SubIds : WF_vars(SubmissionStep(s))
  /\ \A t \in TrackIds : WF_vars(StatusStep(t))

FairSpec == Spec /\ Fairness

-------------------------------------------------------------------------------

SubPcs == {"submitting", "send", "submitted", "enqueue", "done", "refused",
           "refusedInvoice", "catch", "throw", "onFailed", "onFailedDlq"}
StatusPcs == {"query", "pendingSub", "acceptSub", "acceptInvoice", "xml", "path",
              "mail", "acceptedHook", "rejectSub", "rejectInvoice",
              "rejectedHook", "done", "catch", "throw"}
CallerPcs == {"idle", "latest", "insert", "update", "add", "dlqEvent", "dlqResolve"}

\* Every table, queue and process holds values of its columns' domains.
TypeOK ==
  /\ invoice \in [Invoices -> InvoiceStatuses]
  /\ responsePath \subseteq Invoices
  /\ sub \in [SubIds -> [attempt: 0..MaxSubs, status: SubStatuses]]
  /\ event \in [EventIds -> [inv: Invoices \cup {NoInvoice}, type: EventTypes,
                             status: EventStatuses]]
  /\ dlq \in [DlqIds -> [inv: Invoices \cup {NoInvoice},
                         status: {"absent", "pending", "resolved"}]]
  /\ job \in [SubIds -> JobRecords(SubPcs, Attempts, MaxStalled, TrackIds, EventIds)]
  /\ statusJob \in [TrackIds ->
                      JobRecords(StatusPcs, StatusAttempts, MaxStalled, {}, {})]
  /\ notified \in [Invoices -> SUBSET Notices]
  /\ dian \in [TrackIds -> [sub: SubIds \cup {NoSend.sub}, verdict: Verdicts]]
  /\ relay \in [Relays -> [todo: SUBSET EventIds, added: BOOLEAN]]
  /\ caller \in [Callers -> [pc: CallerPcs, inv: Invoices \cup {NoInvoice}, n: Nat]]
  /\ crashes \in 0..MaxCrashes /\ evictions \in 0..MaxEvictions

JobsOf(i) == {s \in SubIds : s[1] = i}
Requests(s) == {t \in TrackIds : dian[t].sub = s}
RequestsOf(i) == {t \in TrackIds : dian[t].sub[1] = i}

\* Transactional outbox: whatever crashes, an event with a submission stops
\* being pending only after its job reached Redis.
OutboxNeverLoses ==
  \A e \in EventIds :
    /\ event[e].type = "INVOICE_CREATED"
    /\ event[e].status \in {"processed", "failed"}
    => job[<<event[e].inv, 1>>].state # "absent"

\* The deterministic jobId: while Redis remembers a job that is over, no relay,
\* however stale its batch, makes a worker run it again.
NoSecondDispatch ==
  [][\A s \in SubIds : Finished(job[s]) => job'[s].state # "waiting"]_vars

\* What a job may send DIAN before it is forgotten: a request for each attempt and
\* each stall.  An attempt that has not come to its request is not used yet.
Allowance == Attempts + MaxStalled
Unsent(j) == \/ j.state \in {"absent", "removed", "waiting"}
             \/ j.state = "active" /\ j.pc \in {"submitting", "send"}
Used(j) == j.made + j.stalls + (IF Unsent(j) THEN 0 ELSE 1)

\* DIAN receives a document once for each attempt and each stall its job has used,
\* whatever answers are lost and whatever dies.  Only the retention limits, which
\* free the id of a finished job, let a stale relay spend the allowance again.
RequestsAreCounted ==
  \A s \in SubIds :
    /\ Cardinality(Requests(s)) <= evictions * Allowance + Used(job[s])
    /\ Cardinality(Requests(s)) <= (evictions + 1) * Allowance

LettersOf(i) == {d \in DlqIds : dlq[d].inv = i}

\* An invoice is in the dead-letter queue only for a job that used up its
\* attempts, once for each such job, those that Redis has forgotten included.
DlqOnlyAfterExhaustion ==
  \A i \in Invoices :
    Cardinality(LettersOf(i))
      <= Cardinality({s \in JobsOf(i) : job[s].state = "failed" /\ job[s].made >= Attempts})
           + evictions

\* Every job that failed for good, its handler over, has its dian_dlq row, while
\* the database answers; a worker that dies takes at most one row with it.
PermanentFailureReachesDlq ==
  ~Faults =>
    \A i \in Invoices :
      Cardinality({s \in JobsOf(i) : job[s].state = "failed" /\ job[s].pc = "idle"})
        <= Cardinality(LettersOf(i)) + crashes

\* A final status is never invented: DIAN answered so for some request of
\* this invoice.
StatusBacked ==
  \A i \in Invoices :
    /\ invoice[i] = "accepted" =>
         \E t \in RequestsOf(i) : dian[t].verdict \in {"accepted", "xmlRejected"}
    /\ invoice[i] = "rejected" =>
         \E t \in RequestsOf(i) : dian[t].verdict \in {"rejected", "xmlRejected", "refused"}

\* The customer is mailed and invoice.accepted dispatched only for a document
\* whose ApplicationResponse accepts it and is stored.
NotifiedOnlyIfAccepted ==
  \A i \in Invoices :
    notified[i] \cap {"mail", "invoice.accepted"} # {} =>
      /\ i \in responsePath
      /\ \E t \in RequestsOf(i) : dian[t].verdict = "accepted"

\* When DIAN accepted every request of an invoice and each one's status job
\* completed, the invoice is accepted, however the jobs interleaved.
AgreesWithDian ==
  \A i \in Invoices :
    /\ RequestsOf(i) # {}
    /\ \A t \in RequestsOf(i) :
         dian[t].verdict = "accepted" /\ statusJob[t].state = "completed"
    => invoice[i] = "accepted"

\* The relay dispatches every event whose invoice has a submission.
EventuallyDispatched ==
  \A i \in Invoices : SubExists(<<i, 1>>) ~> job[<<i, 1>>].state # "absent"

\* A job that was added comes to an end, and so does its "failed" handler.
JobsSettle ==
  /\ \A s \in SubIds :
       Known(job[s]) ~> ~Known(job[s]) \/ (Finished(job[s]) /\ job[s].pc = "idle")
  /\ \A t \in TrackIds : Known(statusJob[t]) ~> Finished(statusJob[t])

(***************************************************************************)
(* The inductive invariant behind TypeOK, OutboxNeverLoses,                *)
(* NoSecondDispatch, StatusBacked and NotifiedOnlyIfAccepted.              *)
(***************************************************************************)

\* A job that may still run has an attempt left.
HasAttempts(j, attempts) == j.state \in {"waiting", "active"} => j.made < attempts
Budgeted ==
  /\ \A s \in SubIds : HasAttempts(job[s], Attempts)
  /\ \A t \in TrackIds : HasAttempts(statusJob[t], StatusAttempts)

\* A TrackId in use is one DIAN gave for a row of dian_submissions.
Given(t) == dian[t].verdict \notin {"none", "refused"}
Tracked ==
  /\ \A t \in TrackIds : dian[t].verdict # "none" => dian[t].sub \in SubIds
  /\ \A s \in SubIds : job[s].track # 0 => Given(job[s].track)
  /\ \A t \in TrackIds : statusJob[t] # NoJob => Given(t)

\* Only the first row of an invoice is its first attempt.
Attempted(i, k) ==
  /\ sub[<<i, k>>].attempt \in 1..k
  /\ sub[<<i, k>>].attempt = 1 => k = 1
  /\ \A m \in 1..k : SubExists(<<i, m>>)
Rows ==
  /\ \A i \in Invoices, k \in 1..MaxSubs : SubExists(<<i, k>>) => Attempted(i, k)
  /\ \A s \in SubIds : job[s].state # "absent" => SubExists(s)
  /\ \A t \in TrackIds : dian[t].verdict # "none" => SubExists(dian[t].sub)

\* A request names an invoice.  A retry counts from a row that exists, and the
\* row it inserted is its own until it adds the job.
Counts(c) ==
  caller[c].pc = "insert" =>
    \E m \in 1..MaxSubs : SubExists(<<caller[c].inv, m>>) /\ caller[c].n \in 1..m
HasInserted(c) == caller[c].pc \in {"update", "add"}
OwnRow(c) == <<caller[c].inv, caller[c].n>>
Owns(c) ==
  HasInserted(c) => /\ OwnRow(c) \in SubIds /\ caller[c].n # 1
                    /\ SubExists(OwnRow(c)) /\ job[OwnRow(c)].state = "absent"
Alone(c, d) == HasInserted(c) /\ HasInserted(d) /\ OwnRow(c) = OwnRow(d) => c = d
Retries ==
  /\ \A d \in DlqIds : dlq[d].status = "pending" => dlq[d].inv \in Invoices
  /\ \A c \in Callers : caller[c].pc # "idle" => caller[c].inv \in Invoices
  /\ \A c \in Callers : Counts(c) /\ Owns(c) /\ \A d \in Callers : Alone(c, d)

\* A job that names an event is that event's, and a relay that has added the
\* job of its current event has done so.
Dispatched(e) == job[<<event[e].inv, 1>>].state # "absent"
Outbox ==
  /\ \A e \in EventIds : event[e].status # "absent" => event[e].inv \in Invoices
  /\ \A s \in SubIds : job[s].event # 0 =>
       /\ job[s].state # "absent" /\ s = <<event[job[s].event].inv, 1>>
       /\ event[job[s].event].status # "absent"
  /\ \A r \in Relays : \A e \in relay[r].todo : event[e].status # "absent"
  /\ \A r \in Relays : relay[r].added =>
       \E e \in EventIds : IsHead(r, e) /\ Dispatched(e)
  /\ OutboxNeverLoses

\* Where a status job is tells what DIAN decided.
Knows(t) ==
  /\ statusJob[t].pc \in {"acceptSub", "acceptInvoice", "xml"} =>
       dian[t].verdict \in {"accepted", "xmlRejected"}
  /\ statusJob[t].pc \in {"path", "mail", "acceptedHook"} => dian[t].verdict = "accepted"
  /\ statusJob[t].pc \in {"mail", "acceptedHook"} => InvoiceOf(t) \in responsePath
  /\ statusJob[t].pc \in {"rejectSub", "rejectInvoice"} =>
       dian[t].verdict \in {"rejected", "xmlRejected"}
Backed ==
  /\ \A t \in TrackIds : Knows(t)
  /\ \A s \in SubIds : job[s].pc \in {"refused", "refusedInvoice"} =>
       \E t \in TrackIds : dian[t].sub = s /\ dian[t].verdict = "refused"
  /\ StatusBacked /\ NotifiedOnlyIfAccepted

IInv == TypeOK /\ Budgeted /\ Tracked /\ Rows /\ Retries /\ Outbox /\ Backed

(***************************************************************************)
(* On top of IInv, what RequestsAreCounted, DlqOnlyAfterExhaustion,        *)
(* PermanentFailureReachesDlq and AgreesWithDian rest on.                  *)
(***************************************************************************)

\* A job that is over has had its dead letter, or will have none.
Lettered(j) == j.state = "failed" /\ j.pc = "idle" /\ j.made >= Attempts
Silent(j) == j.state = "failed" /\ (j.pc = "idle" \/ j.made < Attempts)
LetteredOf(i) == {s \in JobsOf(i) : Lettered(job[s])}
SilentOf(i) == {s \in JobsOf(i) : Silent(job[s])}

\* A job that is not there has used nothing; the handler writes a row only for an
\* exhausted job; a row that is not there is nobody's.
Placed(j) ==
  /\ ~Known(j) => j.made = 0 /\ j.stalls = 0
  /\ j.state = "failed" /\ j.pc = "onFailedDlq" => j.made >= Attempts
Accounts ==
  /\ RequestsAreCounted
  /\ \A s \in SubIds : Placed(job[s])
  /\ \A d \in DlqIds : dlq[d].status = "absent" => dlq[d].inv = NoInvoice
  /\ \A i \in Invoices :
       /\ Cardinality(LettersOf(i)) <= Cardinality(LetteredOf(i)) + evictions
       /\ Faults \/ Cardinality(SilentOf(i)) <= Cardinality(LettersOf(i)) + crashes

\* DIAN refused or rejected something of the invoice.
Refuted(i) ==
  \E t \in RequestsOf(i) : dian[t].verdict \in {"rejected", "xmlRejected", "refused"}

\* The status job has written what DIAN answered, and nobody takes an acceptance
\* back but for a refusal of another request, which a retry has behind it.
Told(t) == \/ statusJob[t].state = "completed"
           \/ statusJob[t].pc \in {"xml", "path", "mail", "acceptedHook", "done"}
Agreement ==
  /\ \A t \in TrackIds :
       /\ Told(t) => dian[t].verdict \in {"accepted", "xmlRejected", "rejected"}
       /\ statusJob[t].pc = "rejectedHook" => dian[t].verdict = "rejected"
       /\ Told(t) /\ dian[t].verdict = "accepted" =>
            Refuted(InvoiceOf(t)) \/ invoice[InvoiceOf(t)] = "accepted"
  /\ \A c \in Callers :
       caller[c].pc \in {"latest", "insert", "update", "add"} => Refuted(caller[c].inv)
(***************************************************************************)
(* What the pipeline promises: Delivery, one document per invoice.         *)
(***************************************************************************)

\* The invoices whose creation event is pending.
Owed == {i \in Invoices : \E e \in PendingEvents : event[e].inv = i /\ IsCreation(e)}

\* The dispatch of an invoice is the job of its first submission.
WorkOf(j) ==
  CASE j.state = "absent" -> "none"
    [] j.state = "removed" -> "forgotten"
    [] Finished(j) -> "over"
    [] OTHER -> "running"
Work == [i \in Invoices |-> WorkOf(job[<<i, 1>>])]

\* A document DIAN refuses to take it rejects.
RulingOf(v) == IF v = "refused" THEN "rejected" ELSE v
Ruled(t) == dian[t].verdict \notin {"none", "undecided"}
Ruling ==
  [i \in Invoices |-> {RulingOf(dian[t].verdict) : t \in {u \in RequestsOf(i) : Ruled(u)}}]

Standing ==
  [i \in Invoices |-> IF invoice[i] \in {"accepted", "rejected"} THEN invoice[i] ELSE "open"]

DeliveryOf == INSTANCE Delivery WITH
  Docs <- Invoices, owed <- Owed, work <- Work, ruling <- Ruling,
  standing <- Standing, told <- notified

\* Outbox, relay, workers, DIAN and operators together keep the promise: what is
\* sent was committed first, an event is settled once its job is there, a job is
\* not run twice, and every status, reopening and notice has a ruling behind it.
ImplementsDelivery == DeliveryOf!Spec

\* Rows and creation events are of invoices that were created, and no job, and so no
\* request, comes before the first dispatch of its invoice.
Sent(i) == job[<<i, 1>>].state # "absent"
Course ==
  /\ \A i \in Invoices : invoice[i] = "absent" =>
       /\ \A k \in 1..MaxSubs : ~SubExists(<<i, k>>)
       /\ \A e \in EventIds : event[e].inv = i => ~IsCreation(e)
  /\ \A s \in SubIds : job[s].state # "absent" => Sent(s[1])
  /\ \A t \in TrackIds : dian[t].verdict # "none" => Sent(InvoiceOf(t))
===============================================================================
