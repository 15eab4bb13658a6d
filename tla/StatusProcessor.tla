--------------------------- MODULE StatusProcessor ---------------------------
(***************************************************************************)
(* DianStatusProcessor: process() for the TrackId t, one action per        *)
(* awaited call, and DIAN deciding of the document behind t.               *)
(***************************************************************************)
EXTENDS EmissionStore

StatusAt(t, pc) == statusJob[t].state = "active" /\ statusJob[t].pc = pc
StatusGoto(t, pc) == statusJob' = [statusJob EXCEPT ![t] = At(@, pc)]
SubOf(t) == dian[t].sub
InvoiceOf(t) == dian[t].sub[1]

\* Validation at DIAN: accepted, accepted with an ApplicationResponse whose
\* rules failed, or rejected.  A decision is final.
DianDecide(t) ==
  /\ dian[t].verdict = "undecided"
  /\ \E v \in {"accepted", "xmlRejected", "rejected"} :
       dian' = [dian EXCEPT ![t].verdict = v]
  /\ UNCHANGED <<db, queues, processes, budget>>

TakeStatus(t) ==
  /\ statusJob[t].state = "waiting"
  /\ statusJob' = [statusJob EXCEPT ![t] = Taken(@, "query")]
  /\ UNCHANGED <<db, job, notified, dian, processes, budget>>

\* Faulty variant: anything but an acceptance is a rejection.
GetStatusHasty(t) ==
  /\ StatusAt(t, "query")
  /\ StatusGoto(t, IF dian[t].verdict \in {"undecided", "rejected"}
                   THEN "rejectSub" ELSE "acceptSub")
  /\ UNCHANGED <<db, job, notified, dian, processes, budget>>

\* getStatus: 01 while undecided, 00 when accepted, another code when rejected.
GetStatus(t) ==
  /\ StatusAt(t, "query")
  /\ StatusGoto(t, CASE dian[t].verdict = "undecided" -> "pendingSub"
                     [] dian[t].verdict = "rejected" -> "rejectSub"
                     [] OTHER -> "acceptSub")
  /\ UNCHANGED <<db, job, notified, dian, processes, budget>>

GetStatusFails(t) ==
  /\ StatusAt(t, "query")
  /\ StatusGoto(t, "catch")
  /\ UNCHANGED <<db, job, notified, dian, processes, budget>>

\* One UPDATE of the submission, then the next awaited call.
WriteSub(t, at, status, next) ==
  /\ StatusAt(t, at)
  /\ SetSub(SubOf(t), status)
  /\ StatusGoto(t, next)
  /\ UNCHANGED <<invoice, responsePath, event, dlq, job, notified, dian,
                 processes, budget>>

PendingSub(t) == WriteSub(t, "pendingSub", "pending", "throw")
AcceptSub(t) == WriteSub(t, "acceptSub", "accepted", "acceptInvoice")
RejectSub(t) == WriteSub(t, "rejectSub", "rejected", "rejectInvoice")
CatchStatus(t) == WriteSub(t, "catch", "failed", "throw")

\* The invoice is accepted before the ApplicationResponse is looked at; a
\* reply without XmlBytes ends here, with neither mail nor webhook.
AcceptInvoice(t) ==
  /\ StatusAt(t, "acceptInvoice")
  /\ SetInvoice(InvoiceOf(t), "accepted")
  /\ \/ StatusGoto(t, "xml")
     \/ dian[t].verdict = "accepted" /\ StatusGoto(t, "done")
  /\ UNCHANGED <<responsePath, sub, event, dlq, job, notified, dian,
                 processes, budget>>

\* Faulty variant: trusts the status code alone.
ParseResponseTrusting(t) ==
  /\ StatusAt(t, "xml")
  /\ StatusGoto(t, "path")
  /\ UNCHANGED <<db, job, notified, dian, processes, budget>>

\* Parse and store the ApplicationResponse.
ParseResponse(t) ==
  /\ StatusAt(t, "xml")
  /\ StatusGoto(t, IF dian[t].verdict = "xmlRejected" THEN "rejectSub" ELSE "path")
  /\ UNCHANGED <<db, job, notified, dian, processes, budget>>

\* A rejection found in the ApplicationResponse dispatches no webhook.
RejectInvoice(t) ==
  /\ StatusAt(t, "rejectInvoice")
  /\ SetInvoice(InvoiceOf(t), "rejected")
  /\ StatusGoto(t, IF dian[t].verdict = "xmlRejected" THEN "done" ELSE "rejectedHook")
  /\ UNCHANGED <<responsePath, sub, event, dlq, job, notified, dian,
                 processes, budget>>

SavePath(t) ==
  /\ StatusAt(t, "path")
  /\ responsePath' = responsePath \cup {InvoiceOf(t)}
  /\ StatusGoto(t, "mail")
  /\ UNCHANGED <<invoice, sub, event, dlq, job, notified, dian, processes, budget>>

Notify(t, at, notice, next) ==
  /\ StatusAt(t, at)
  /\ notified' = [notified EXCEPT ![InvoiceOf(t)] = @ \cup {notice}]
  /\ StatusGoto(t, next)
  /\ UNCHANGED <<db, job, dian, processes, budget>>

QueueMail(t) == Notify(t, "mail", "mail", "acceptedHook")
AcceptedHook(t) == Notify(t, "acceptedHook", "invoice.accepted", "done")
RejectedHook(t) == Notify(t, "rejectedHook", "invoice.rejected", "done")

CompleteStatus(t) ==
  /\ StatusAt(t, "done")
  /\ statusJob' = [statusJob EXCEPT ![t] = Completed(@)]
  /\ UNCHANGED <<db, job, notified, dian, processes, budget>>

\* A call of the try block to the database, the disk or Redis rejects, or that
\* of the catch block, or setSessionTenant before the try.
StatusFault(t) ==
  /\ Faults
  /\ \/ /\ \E pc \in {"pendingSub", "acceptSub", "acceptInvoice", "xml", "path", "mail",
                      "acceptedHook", "rejectSub", "rejectInvoice", "rejectedHook"} : StatusAt(t, pc)
        /\ StatusGoto(t, "catch")
     \/ (StatusAt(t, "catch") \/ StatusAt(t, "query")) /\ StatusGoto(t, "throw")
  /\ UNCHANGED <<db, job, notified, dian, processes, budget>>

\* onFailed only logs: a status job that runs out of attempts leaves no trace.
FailStatus(t) ==
  /\ StatusAt(t, "throw")
  /\ statusJob' = [statusJob EXCEPT ![t] = Thrown(@, StatusAttempts, "idle")]
  /\ UNCHANGED <<db, job, notified, dian, processes, budget>>

StatusCrash(t) ==
  /\ crashes < MaxCrashes
  /\ statusJob[t].state = "active"
  /\ \E j \in Stalled(statusJob[t], StatusAttempts, MaxStalled, "idle") :
       statusJob' = [statusJob EXCEPT ![t] = j]
  /\ crashes' = crashes + 1
  /\ UNCHANGED <<db, job, notified, dian, processes, evictions>>

StatusStep(t) ==
  \/ TakeStatus(t) \/ GetStatus(t) \/ GetStatusFails(t) \/ PendingSub(t)
  \/ AcceptSub(t) \/ RejectSub(t) \/ CatchStatus(t) \/ AcceptInvoice(t)
  \/ ParseResponse(t) \/ RejectInvoice(t) \/ SavePath(t) \/ QueueMail(t)
  \/ AcceptedHook(t) \/ RejectedHook(t) \/ CompleteStatus(t) \/ StatusFault(t)
  \/ FailStatus(t)
==============================================================================
