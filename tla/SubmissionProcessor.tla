------------------------- MODULE SubmissionProcessor -------------------------
(***************************************************************************)
(* DianSubmissionProcessor: process() and its "failed" handler, one action *)
(* per awaited call, and DIAN's side of the request.  s is the submission  *)
(* the job carries; s[1] is its invoice.                                   *)
(***************************************************************************)
EXTENDS EmissionStore

AtPc(s, pc) == job[s].state = "active" /\ job[s].pc = pc
Goto(s, pc) == job' = [job EXCEPT ![s] = At(@, pc)]

TakeJob(s) ==
  /\ job[s].state = "waiting"
  /\ job' = [job EXCEPT ![s] = Taken(@, "submitting")]
  /\ UNCHANGED <<db, statusJob, notified, dian, processes, budget>>

MarkSubmitting(s) ==
  /\ AtPc(s, "submitting")
  /\ SetSub(s, "submitting")
  /\ Goto(s, "send")
  /\ UNCHANGED <<invoice, responsePath, event, dlq, statusJob, notified, dian,
                 processes, budget>>

\* Faulty variant: a lost answer is retried inside the processor.
ReceivedResends(s, verdict) ==
  \E t \in TrackIds :
    /\ FreshSend(t)
    /\ dian' = [dian EXCEPT ![t] = [sub |-> s, verdict |-> verdict]]
    /\ \/ job' = [job EXCEPT ![s] = [At(@, "submitted") EXCEPT !.track = t]]
       \/ UNCHANGED job

\* DIAN receives the document and decides of it later.  The caller gets the
\* TrackId, or the answer is lost (timeout, connection reset).
Received(s, verdict) ==
  \E t \in TrackIds :
    /\ FreshSend(t)
    /\ dian' = [dian EXCEPT ![t] = [sub |-> s, verdict |-> verdict]]
    /\ \/ /\ verdict = "undecided"
          /\ job' = [job EXCEPT ![s] = [At(@, "submitted") EXCEPT !.track = t]]
       \/ /\ verdict = "undecided"
          /\ Goto(s, "catch")
       \/ /\ verdict = "refused"
          /\ Goto(s, "refused")

SendReceived(s) ==
  /\ AtPc(s, "send")
  /\ Received(s, "undecided")
  /\ UNCHANGED <<db, statusJob, notified, processes, budget>>

\* DIAN answers without a TrackId.
SendRefused(s) ==
  /\ AtPc(s, "send")
  /\ Received(s, "refused")
  /\ UNCHANGED <<db, statusJob, notified, processes, budget>>

\* The request never reached DIAN, or the zip, the certificate or the
\* credentials could not be read.
SendFails(s) ==
  /\ AtPc(s, "send")
  /\ Goto(s, "catch")
  /\ UNCHANGED <<db, statusJob, notified, dian, processes, budget>>

MarkSubmitted(s) ==
  /\ AtPc(s, "submitted")
  /\ SetSub(s, "submitted")
  /\ Goto(s, "enqueue")
  /\ UNCHANGED <<invoice, responsePath, event, dlq, statusJob, notified, dian,
                 processes, budget>>

EnqueueStatus(s) ==
  /\ AtPc(s, "enqueue")
  /\ statusJob' = [statusJob EXCEPT ![job[s].track] = NewJob(0)]
  /\ Goto(s, "done")
  /\ UNCHANGED <<db, notified, dian, processes, budget>>

CompleteJob(s) ==
  /\ AtPc(s, "done")
  /\ job' = [job EXCEPT ![s] = Completed(@)]
  /\ UNCHANGED <<db, statusJob, notified, dian, processes, budget>>

RefuseSub(s) ==
  /\ AtPc(s, "refused")
  /\ SetSub(s, "rejected")
  /\ Goto(s, "refusedInvoice")
  /\ UNCHANGED <<invoice, responsePath, event, dlq, statusJob, notified, dian,
                 processes, budget>>

\* The invoice is rejected and the processor throws.
RefuseInvoice(s) ==
  /\ AtPc(s, "refusedInvoice")
  /\ SetInvoice(s[1], "rejected")
  /\ Goto(s, "catch")
  /\ UNCHANGED <<responsePath, sub, event, dlq, statusJob, notified, dian,
                 processes, budget>>

CatchSub(s) ==
  /\ AtPc(s, "catch")
  /\ SetSub(s, "failed")
  /\ Goto(s, "throw")
  /\ UNCHANGED <<invoice, responsePath, event, dlq, statusJob, notified, dian,
                 processes, budget>>

\* A database call of the try block rejects, or that of the catch block, or
\* setSessionTenant before the try.
SubmissionFault(s) ==
  /\ Faults
  /\ \/ /\ \E pc \in {"submitting", "submitted", "refused", "refusedInvoice"} : AtPc(s, pc)
        /\ Goto(s, "catch")
     \/ (AtPc(s, "catch") \/ AtPc(s, "submitting")) /\ Goto(s, "throw")
  /\ UNCHANGED <<db, statusJob, notified, dian, processes, budget>>

\* Faulty variant: attempts that are not counted.
FailJobUncounted(s) ==
  /\ AtPc(s, "throw")
  /\ job' = [job EXCEPT ![s] = [Thrown(@, @.made + 2, "onFailed") EXCEPT !.made = 0]]
  /\ UNCHANGED <<db, statusJob, notified, dian, processes, budget>>

FailJob(s) ==
  /\ AtPc(s, "throw")
  /\ job' = [job EXCEPT ![s] = Thrown(@, Attempts, "onFailed")]
  /\ UNCHANGED <<db, statusJob, notified, dian, processes, budget>>

\* Faulty variant: off by one in the comparison of attempts.
OnFailedIgnoredLast(s) ==
  /\ job[s].state = "failed" /\ job[s].pc = "onFailed"
  /\ job[s].made <= Attempts
  /\ Goto(s, "idle")
  /\ UNCHANGED <<db, statusJob, notified, dian, processes, budget>>

\* onFailed: nothing unless the attempts are used up.
OnFailedIgnored(s) ==
  /\ job[s].state = "failed" /\ job[s].pc = "onFailed"
  /\ job[s].made < Attempts
  /\ Goto(s, "idle")
  /\ UNCHANGED <<db, statusJob, notified, dian, processes, budget>>

\* Faulty variant: does not look at the attempts.
OnFailedEventAlways(s) ==
  /\ job[s].state = "failed" /\ job[s].pc = "onFailed"
  /\ Goto(s, "onFailedDlq")
  /\ UNCHANGED <<db, statusJob, notified, dian, processes, budget>>

\* onFailed, first try: the outbox event the job names becomes "failed".
OnFailedEvent(s) ==
  /\ job[s].state = "failed" /\ job[s].pc = "onFailed"
  /\ job[s].made >= Attempts
  /\ event' = IF job[s].event = 0 THEN event
              ELSE [event EXCEPT ![job[s].event].status = "failed"]
  /\ Goto(s, "onFailedDlq")
  /\ UNCHANGED <<invoice, responsePath, sub, dlq, statusJob, notified, dian,
                 processes, budget>>

\* onFailed, second try: the dian_dlq row.
OnFailedDlq(s) ==
  /\ job[s].state = "failed" /\ job[s].pc = "onFailedDlq"
  /\ \E d \in DlqIds :
       /\ FreshDlq(d)
       /\ dlq' = [dlq EXCEPT ![d] = [inv |-> s[1], status |-> "pending"]]
  /\ Goto(s, "idle")
  /\ UNCHANGED <<invoice, responsePath, sub, event, statusJob, notified, dian,
                 processes, budget>>

\* Each of the two tries only logs its own error.
OnFailedFault(s) ==
  /\ Faults
  /\ job[s].state = "failed"
  /\ \/ job[s].pc = "onFailed" /\ job[s].made >= Attempts /\ Goto(s, "onFailedDlq")
     \/ job[s].pc = "onFailedDlq" /\ Goto(s, "idle")
  /\ UNCHANGED <<db, statusJob, notified, dian, processes, budget>>

\* The worker dies: a running job stalls, a running handler is lost.
SubmissionCrash(s) ==
  /\ crashes < MaxCrashes
  /\ \/ /\ job[s].state = "active"
        /\ \E j \in Stalled(job[s], Attempts, MaxStalled, "onFailed") :
             job' = [job EXCEPT ![s] = j]
     \/ /\ job[s].state = "failed" /\ job[s].pc # "idle"
        /\ Goto(s, "idle")
  /\ crashes' = crashes + 1
  /\ UNCHANGED <<db, statusJob, notified, dian, processes, evictions>>

\* removeOnComplete / removeOnFail: Redis forgets a finished job.
Evict(s) ==
  /\ evictions < MaxEvictions
  /\ Finished(job[s]) /\ job[s].pc = "idle"
  /\ job' = [job EXCEPT ![s] = RemovedJob]
  /\ evictions' = evictions + 1
  /\ UNCHANGED <<db, statusJob, notified, dian, processes, crashes>>

SubmissionStep(s) ==
  \/ TakeJob(s) \/ MarkSubmitting(s) \/ SendReceived(s) \/ SendRefused(s)
  \/ SendFails(s) \/ MarkSubmitted(s) \/ EnqueueStatus(s) \/ CompleteJob(s)
  \/ RefuseSub(s) \/ RefuseInvoice(s) \/ CatchSub(s) \/ SubmissionFault(s)
  \/ FailJob(s) \/ OnFailedIgnored(s) \/ OnFailedEvent(s) \/ OnFailedDlq(s)
  \/ OnFailedFault(s)
==============================================================================
