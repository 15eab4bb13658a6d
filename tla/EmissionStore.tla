---------------------------- MODULE EmissionStore ----------------------------
(***************************************************************************)
(* What the handlers of the emission pipeline share: the PostgreSQL tables *)
(* invoices, dian_submissions, outbox_events and dian_dlq, the BullMQ      *)
(* queues dian-submission and dian-status, the log of requests that DIAN   *)
(* received, and the local state of the processes that are not jobs.       *)
(*                                                                         *)
(* A table is a function over row ids; a row is "absent" until inserted.   *)
(* Every action of the modules that extend this one is one awaited call,   *)
(* so the actions of different handlers interleave as the calls do.        *)
(***************************************************************************)
EXTENDS BullJob, FiniteSets

CONSTANTS
  Invoices,        \* invoice ids
  Relays,          \* API processes, each with its outbox cron
  Callers,         \* HTTP requests to the retry endpoints
  NoInvoice,       \* the invoice of an absent row
  Attempts,        \* QUEUE_SUBMISSION_MAX_ATTEMPTS
  StatusAttempts,  \* QUEUE_STATUS_MAX_ATTEMPTS
  Batch,           \* "take: 100" of the relay's query
  MaxStalled,      \* BullMQ maxStalledCount
  Faults,          \* TRUE: awaited calls to the database or the disk may reject
  MaxSubs,         \* bound: dian_submissions rows of one invoice
  MaxEvents,       \* bound: outbox_events rows
  MaxSends,        \* bound: requests that reach DIAN
  MaxDlq,          \* bound: dian_dlq rows
  MaxCrashes,      \* bound: process crashes
  MaxEvictions     \* bound: finished jobs removed by the retention limits

ASSUME EmissionAssumption ==
  /\ NoInvoice \notin Invoices
  /\ Attempts \in Nat \ {0} /\ StatusAttempts \in Nat \ {0}
  /\ Batch \in Nat \ {0} /\ MaxStalled \in Nat
  /\ Faults \in BOOLEAN
  /\ MaxSubs \in Nat \ {0} /\ MaxEvents \in Nat /\ MaxSends \in Nat
  /\ MaxDlq \in Nat /\ MaxCrashes \in Nat /\ MaxEvictions \in Nat

SubIds == Invoices \X (1..MaxSubs)
EventIds == 1..MaxEvents
TrackIds == 1..MaxSends
DlqIds == 1..MaxDlq

VARIABLES
  invoice,       \* invoices.status
  responsePath,  \* the invoices whose dianResponsePath is set
  sub,           \* dian_submissions: attemptNumber and status
  event,         \* outbox_events in createdAt order
  dlq,           \* dian_dlq
  job,           \* queue dian-submission: the job of each submission
  statusJob,     \* queue dian-status: the job of each TrackId
  notified,      \* what was added to the queues mailer and webhooks
  dian,          \* the requests DIAN received and what it decides of each
  relay,         \* events of its batch a relay still has to process
  caller,        \* local state of a retry request
  crashes, evictions

db == <<invoice, responsePath, sub, event, dlq>>
queues == <<job, statusJob, notified>>
processes == <<relay, caller>>
budget == <<crashes, evictions>>
vars == <<db, queues, dian, processes, budget>>

InvoiceStatuses == {"absent", "draft", "queued", "pending", "accepted", "rejected"}
SubStatuses == {"absent", "pending", "submitting", "submitted", "accepted",
                "rejected", "failed"}
EventTypes == {"INVOICE_CREATED", "invoice.created"}
EventStatuses == {"absent", "pending", "processed", "failed"}
Verdicts == {"none", "refused", "undecided", "accepted", "xmlRejected", "rejected"}
Notices == {"mail", "invoice.accepted", "invoice.rejected"}

NoSub == [attempt |-> 0, status |-> "absent"]
NoEvent == [inv |-> NoInvoice, type |-> "INVOICE_CREATED", status |-> "absent"]
NoDlq == [inv |-> NoInvoice, status |-> "absent"]
NoSend == [sub |-> <<NoInvoice, 0>>, verdict |-> "none"]
RelayIdle == [todo |-> {}, added |-> FALSE]
CallerIdle == [pc |-> "idle", inv |-> NoInvoice, n |-> 0]

StoreInit ==
  /\ invoice = [i \in Invoices |-> "absent"]
  /\ responsePath = {}
  /\ sub = [s \in SubIds |-> NoSub]
  /\ event = [e \in EventIds |-> NoEvent]
  /\ dlq = [d \in DlqIds |-> NoDlq]
  /\ job = [s \in SubIds |-> NoJob]
  /\ statusJob = [t \in TrackIds |-> NoJob]
  /\ notified = [i \in Invoices |-> {}]
  /\ dian = [t \in TrackIds |-> NoSend]
  /\ relay = [r \in Relays |-> RelayIdle]
  /\ caller = [c \in Callers |-> CallerIdle]
  /\ crashes = 0 /\ evictions = 0

SubExists(s) == sub[s].status # "absent"

\* The row ids an INSERT can take: the lowest free one, so ids are in
\* creation order.
FreshEvent(e) == /\ event[e].status = "absent"
                 /\ \A f \in 1..e - 1 : event[f].status # "absent"
FreshDlq(d) == /\ dlq[d].status = "absent"
               /\ \A f \in 1..d - 1 : dlq[f].status # "absent"
FreshSend(t) == /\ dian[t].verdict = "none"
                /\ \A u \in 1..t - 1 : dian[u].verdict # "none"
FreshSub(i, k) == /\ ~SubExists(<<i, k>>)
                  /\ \A m \in 1..k - 1 : SubExists(<<i, m>>)

InsertEvent(e, i, type) ==
  /\ FreshEvent(e)
  /\ event' = [event EXCEPT ![e] = [inv |-> i, type |-> type, status |-> "pending"]]

\* UPDATE dian_submissions SET status; no row, no change.
SetSub(s, status) ==
  sub' = [sub EXCEPT ![s].status = status]

SetInvoice(i, status) == invoice' = [invoice EXCEPT ![i] = status]
==============================================================================
